--------------------------- MODULE KillSwitchProofs ---------------------------
(***************************************************************************)
(* Proofs about KillSwitch, for any number of engaging tasks and any       *)
(* number of engages, releases, failures and deaths, in this process and   *)
(* in others.                                                              *)
(*                                                                         *)
(* The argument.  Every kill state the manager believes, holds or is being *)
(* told (Believed) comes from a reading of the journal, or is an engage of *)
(* its own (StepSources).  So no switched-off state in it is as new as an      *)
(* engaged journal (Known), and while a check runs that must refuse, none  *)
(* is as new as what the check has read (CheckInv).                        *)
(*                                                                         *)
(* That an engage stays needs the order of the calls (OrderInv): one       *)
(* engage is written at a time, and answers come back in the order of the  *)
(* journal's numbers.  So every release anyone may still be told of is     *)
(* older than memory (StopInv), and a sweep in memory is the journal's, or *)
(* that of an engage yet to be judged (SweepInv).  Every step is one of a  *)
(* few moves to the engages under way (Still, Enters, Settles, Takes,      *)
(* Lands, Adopts, Records), and each move keeps both.                      *)
(***************************************************************************)
EXTENDS KillSwitch, SequenceTheorems, Induction, TLAPS

NoState == [width |-> Off, seq |-> 0]

CallSet == [task : Tasks, op : {"read", "verify", "append"}, width : Widths,
            done : BOOLEAN, ok : BOOLEAN, state : KillStates]

\* The pcs at which a task waits for the journal.
Waits == {"reading", "verifying", "recording", "releasing"}

\* The types, with calls as a sequence.
Typed ==
  /\ journal \in KillStates /\ kill \in KillStates
  /\ unrecorded \in Widths /\ superseded \in BOOLEAN /\ failed \in BOOLEAN
  /\ at \in [Tasks -> Pcs] /\ want \in [Engagers -> Widths]
  /\ held \in [Tasks -> KillStates] /\ found \in [Tasks -> KillStates]
  /\ calls \in Seq(CallSet)
  /\ asked \in Widths /\ binds \in Widths /\ mustRefuse \in BOOLEAN

\* A task that waits for the journal has one call there, and no other task has any; a
\* record that is being written is an engage, unless it is the release's.
CallInv ==
  /\ \A i \in DOMAIN calls : at[calls[i].task] \in Waits
  /\ \A i, j \in DOMAIN calls : calls[i].task = calls[j].task => i = j
  /\ \A i \in DOMAIN calls : at[calls[i].task] = "recording" => calls[i].width # Off
  /\ \A i \in DOMAIN calls : calls[i].task = "release" =>
       /\ calls[i].op = "append" /\ calls[i].width = Off
       /\ calls[i].done /\ calls[i].ok => calls[i].state.width = Off

\* An engage under way asks for something, and one that is not recorded yet is in memory.
EngageInv ==
  /\ \A e \in Engagers : at[e] # "idle" => want[e] # Off
  /\ unrecorded # Off => kill.width # Off

\* Every kill state in the manager's hands.
Believed ==
  {kill, NoState} \cup {held[t] : t \in Tasks} \cup {found[t] : t \in Tasks}
    \cup {calls[i].state : i \in DOMAIN calls}

Known(x) ==
  /\ x \in KillStates /\ x.seq <= journal.seq
  /\ x.width = Off /\ journal.width # Off => x.seq < journal.seq

KnownInv == \A x \in Believed : Known(x)

\* What a check that must refuse has been told, or will be: an engage newer than every
\* release in the manager's hands.
CheckInv ==
  /\ at["check"] \in {"idle", "reading", "verifying"}
  /\ at["check"] = "verifying" => ~mustRefuse
  /\ at["check"] = "reading" /\ mustRefuse =>
       /\ journal.width # Off
       /\ \A i \in DOMAIN calls :
            calls[i].task = "check" /\ calls[i].done /\ calls[i].ok =>
              /\ calls[i].state.width # Off
              /\ \A x \in Believed : x.width = Off => x.seq < calls[i].state.seq

IInv == Typed /\ CallInv /\ EngageInv /\ KnownInv /\ CheckInv

-------------------------------------------------------------------------------
(***************************************************************************)
(* The calls to the journal.                                               *)
(***************************************************************************)
\* rest is what is left of calls when t has none among them.
Without(rest, t) ==
  /\ rest \in Seq(CallSet)
  /\ rest = calls \/ (calls # <<>> /\ Head(calls).task = t /\ rest = Tail(calls))
  /\ \A j \in DOMAIN rest : rest[j].task # t /\ \E k \in DOMAIN calls : rest[j] = calls[k]
  /\ \A i, j \in DOMAIN rest : rest[i].task = rest[j].task => i = j

\* Task t goes to pc; its call is over, and another is made if pc waits for one.
Requeues(t, pc) ==
  /\ at' = [at EXCEPT ![t] = pc]
  /\ \E rest \in {calls, Tail(calls)} :
       /\ Without(rest, t)
       /\ \/ pc \notin Waits /\ calls' = rest
          \/ \E op \in {"read", "verify", "append"}, width \in Widths :
               /\ pc \in Waits /\ calls' = Append(rest, Call(t, op, width))
               /\ op = "append" <=> pc \in {"recording", "releasing"}
               /\ pc = "recording" => width # Off /\ width = unrecorded'
               /\ t = "release" => op = "append" /\ width = Off

\* A task that does not wait for the journal has no call there.
LEMMA NoCallToWaitFor ==
  ASSUME Typed, CallInv, NEW t \in Tasks, at[t] \notin Waits
  PROVE  Without(calls, t)
  BY DEF Typed, CallInv, Without

\* A task that got its answer has no other call.
LEMMA AnswerEndsCall ==
  ASSUME Typed, CallInv, NEW t \in Tasks, Answered(t)
  PROVE  /\ Without(Tail(calls), t)
         /\ 1 \in DOMAIN calls /\ Answer = calls[1] /\ Answer.task = t /\ Answer.done
         /\ Answer.state \in Believed /\ Answer \in CallSet
<1>1. calls # <<>> /\ calls \in Seq(CallSet) /\ Len(calls) \in Nat /\ 1 \in DOMAIN calls
  BY EmptySeq, LenProperties DEF Answered, Typed
<1>2. Answer = calls[1] /\ Answer.task = t /\ Answer.done
  BY <1>1 DEF Answered, Answer
<1>3. /\ Tail(calls) \in Seq(CallSet)
      /\ \A j \in DOMAIN Tail(calls) : j + 1 \in DOMAIN calls /\ Tail(calls)[j] = calls[j + 1]
      /\ \A j \in DOMAIN Tail(calls) : j \in Nat /\ j + 1 # 1
  BY <1>1, HeadTailProperties, LenProperties
<1>4. Without(Tail(calls), t)
  BY <1>1, <1>2, <1>3 DEF Without, CallInv, Answered
<1> QED BY <1>1, <1>2, <1>4, ElementOfSeq DEF Believed

\* After a step of one task the calls are still one for each task that waits, and a new
\* one has not been answered.
LEMMA RequeueKeepsCalls ==
  ASSUME Typed, CallInv, NEW t \in Tasks, NEW pc \in Pcs, Requeues(t, pc)
  PROVE  /\ calls' \in Seq(CallSet) /\ CallInv'
         /\ \A i \in DOMAIN calls' :
              \/ calls'[i].task # t /\ \E j \in DOMAIN calls : calls'[i] = calls[j]
              \/ calls'[i].state = NoState /\ ~calls'[i].done
<1>1. PICK rest \in {calls, Tail(calls)} :
        /\ Without(rest, t)
        /\ \/ pc \notin Waits /\ calls' = rest
           \/ \E op \in {"read", "verify", "append"}, width \in Widths :
                /\ pc \in Waits /\ calls' = Append(rest, Call(t, op, width))
                /\ op = "append" <=> pc \in {"recording", "releasing"}
                /\ pc = "recording" => width # Off /\ width = unrecorded'
                /\ t = "release" => op = "append" /\ width = Off
  BY DEF Requeues
<1>2. at' = [at EXCEPT ![t] = pc] /\ at \in [Tasks -> Pcs]
  BY DEF Requeues, Typed
<1>3. \A j \in DOMAIN rest :
        /\ rest[j].task \in Tasks /\ at'[rest[j].task] = at[rest[j].task]
        /\ rest[j].task # t /\ \E k \in DOMAIN calls : rest[j] = calls[k]
  <2>1. \A j \in DOMAIN rest : rest[j] \in CallSet
    BY <1>1, ElementOfSeq, LenProperties DEF Without
  <2>2. \A j \in DOMAIN rest : rest[j].task \in Tasks
    BY <2>1 DEF CallSet
  <2> QED BY <1>1, <1>2, <2>2 DEF Without
<1>4. CASE pc \notin Waits /\ calls' = rest
  BY <1>1, <1>2, <1>3, <1>4 DEF Without, CallInv
<1>5. ASSUME NEW op \in {"read", "verify", "append"}, NEW width \in Widths,
             pc \in Waits, calls' = Append(rest, Call(t, op, width)),
             pc = "recording" => width # Off,
             t = "release" => op = "append" /\ width = Off
      PROVE  /\ calls' \in Seq(CallSet) /\ CallInv'
             /\ \A i \in DOMAIN calls' :
                  \/ calls'[i].task # t /\ \E j \in DOMAIN calls : calls'[i] = calls[j]
                  \/ calls'[i].state = NoState /\ ~calls'[i].done
  <2> DEFINE new == Call(t, op, width)
             n == Len(rest) + 1
  <2>1. new \in CallSet /\ new.task = t /\ new.op = op /\ new.width = width
        /\ new.done = FALSE /\ new.state = NoState
    BY <1>5 DEF Call, CallSet, KillStates, Widths, Off, NoState
  <2>2. /\ calls' \in Seq(CallSet) /\ n \in Nat
        /\ DOMAIN rest = 1..Len(rest) /\ DOMAIN calls' = (1..Len(rest)) \cup {n}
        /\ \A i \in DOMAIN rest : calls'[i] = rest[i]
        /\ calls'[n] = new /\ n \notin DOMAIN rest
    BY <1>1, <1>5, <2>1, AppendProperties, LenProperties DEF Without
  <2>3. \A i \in DOMAIN calls' : i # n => i \in DOMAIN rest /\ calls'[i] = rest[i]
    BY <2>2
  <2>4. \A i \in DOMAIN calls' : at'[calls'[i].task] \in Waits
    BY <1>2, <1>3, <1>5, <2>1, <2>2, <2>3 DEF CallInv
  <2>5. \A i, j \in DOMAIN calls' : calls'[i].task = calls'[j].task => i = j
    BY <1>1, <1>3, <2>1, <2>2, <2>3 DEF Without
  <2>6. \A i \in DOMAIN calls' : at'[calls'[i].task] = "recording" => calls'[i].width # Off
    BY <1>2, <1>3, <1>5, <2>1, <2>2, <2>3 DEF CallInv
  <2>7. \A i \in DOMAIN calls' : calls'[i].task = "release" =>
          /\ calls'[i].op = "append" /\ calls'[i].width = Off
          /\ calls'[i].done /\ calls'[i].ok => calls'[i].state.width = Off
    BY <1>3, <1>5, <2>1, <2>2, <2>3 DEF CallInv
  <2> QED BY <1>3, <2>1, <2>2, <2>3, <2>4, <2>5, <2>6, <2>7 DEF CallInv
<1> QED BY <1>1, <1>4, <1>5

-------------------------------------------------------------------------------
(***************************************************************************)
(* A step of one task.                                                     *)
(***************************************************************************)
\* What the manager may take for the kill state: what it already believes, or an engage.
Plausible(x) ==
  x \in Believed \/ (x \in KillStates /\ x.width # Off /\ x.seq <= journal.seq)

\* A step of one task that leaves the journal alone and adopts nothing it was not told.
StepOf(t, pc) ==
  /\ Requeues(t, pc)
  /\ journal' = journal
  /\ Plausible(kill')
  /\ held' \in [Tasks -> Believed] /\ found' \in [Tasks -> Believed]
  /\ unrecorded' \in Widths /\ superseded' \in BOOLEAN /\ failed' \in BOOLEAN
  /\ want' \in [Engagers -> Widths] /\ {asked', binds'} \subseteq Widths
  /\ mustRefuse' \in BOOLEAN

\* What is believed is a kill state, and held and found are believed.
LEMMA BelievedStates ==
  ASSUME Typed
  PROVE  /\ Believed \subseteq KillStates /\ NoState \in KillStates
         /\ held \in [Tasks -> Believed] /\ found \in [Tasks -> Believed]
         /\ kill \in Believed
<1>1. \A i \in DOMAIN calls : calls[i].state \in KillStates
  <2>1. \A i \in DOMAIN calls : calls[i] \in CallSet
    BY ElementOfSeq, LenProperties DEF Typed
  <2> QED BY <2>1 DEF CallSet
<1>2. NoState \in KillStates
  BY DEF NoState, KillStates, Widths, Off
<1> QED BY <1>1, <1>2 DEF Typed, Believed

\* After a step of one task everything believed is plausible.
LEMMA StepSources ==
  ASSUME Typed, CallInv, NEW t \in Tasks, NEW pc \in Pcs, StepOf(t, pc)
  PROVE  \A x \in Believed' : Plausible(x)
<1>1. \A i \in DOMAIN calls' : calls'[i].state \in Believed
  BY RequeueKeepsCalls DEF StepOf, Believed
<1> QED BY <1>1 DEF StepOf, Plausible, Believed

\* Such a step keeps the types, the calls and what is known.
LEMMA StepKeepsKnown ==
  ASSUME Typed, CallInv, KnownInv, NEW t \in Tasks, NEW pc \in Pcs, StepOf(t, pc)
  PROVE  Typed' /\ CallInv' /\ KnownInv'
<1>1. \A x \in Believed' : Plausible(x)
  BY StepSources
<1>2. KnownInv'
  BY <1>1 DEF KnownInv, Known, Plausible, StepOf
<1>3. kill' \in KillStates
  BY BelievedStates DEF StepOf, Plausible
<1>4. at' \in [Tasks -> Pcs]
  BY DEF StepOf, Requeues, Typed
<1>5. held' \in [Tasks -> KillStates] /\ found' \in [Tasks -> KillStates]
  BY BelievedStates DEF StepOf
<1>6. calls' \in Seq(CallSet) /\ CallInv'
  BY RequeueKeepsCalls DEF StepOf
<1> QED BY <1>2, <1>3, <1>4, <1>5, <1>6 DEF StepOf, Typed

\* What a check that must refuse is told outlives the steps of every other task.
LEMMA OthersKeepCheck ==
  ASSUME Typed, CallInv, KnownInv, CheckInv, NEW t \in Tasks, NEW pc \in Pcs, StepOf(t, pc),
         t # "check", mustRefuse' => mustRefuse
  PROVE  CheckInv'
<1>1. \A x \in Believed' : x.width = Off => x \in Believed
  BY StepSources DEF Plausible
<1>2. "check" \in Tasks /\ at'["check"] = at["check"]
  BY DEF Tasks, Mergers, StepOf, Requeues, Typed
<1>3. \A i \in DOMAIN calls' : calls'[i].done => \E j \in DOMAIN calls : calls'[i] = calls[j]
  BY RequeueKeepsCalls DEF StepOf
<1> QED BY <1>1, <1>2, <1>3 DEF CheckInv, StepOf

\* The tasks of a manager.
LEMMA TaskNames ==
  /\ Engagers \subseteq Tasks /\ Mergers \subseteq Tasks
  /\ "release" \in Tasks /\ "loop" \in Tasks /\ "check" \in Tasks
  /\ \A e \in Engagers : e # "release" /\ e # "loop" /\ e # "check"
  BY EngagersAreTasks DEF Tasks, Mergers

\* A step of a task that is no check, asks for nothing new and leaves what is unrecorded
\* in memory keeps the whole invariant.
LEMMA StepKeepsAll ==
  ASSUME IInv, NEW t \in Tasks, NEW pc \in Pcs, StepOf(t, pc),
         t # "check", mustRefuse' => mustRefuse, want' = want,
         t \in Engagers => at[t] # "idle",
         unrecorded' # Off => kill'.width # Off
  PROVE  IInv'
<1>1. Typed' /\ CallInv' /\ KnownInv' /\ CheckInv'
  BY StepKeepsKnown, OthersKeepCheck DEF IInv
<1>2. \A e \in Engagers : at'[e] # "idle" => at[e] # "idle"
  BY TaskNames DEF StepOf, Requeues, IInv, Typed
<1>3. EngageInv'
  BY <1>2 DEF IInv, EngageInv
<1> QED BY <1>1, <1>3 DEF IInv

\* What the other variables may do in a step of one task.
LEMMA TypedParts ==
  ASSUME Typed
  PROVE  /\ unrecorded \in Widths /\ superseded \in BOOLEAN /\ failed \in BOOLEAN
         /\ want \in [Engagers -> Widths] /\ {asked, binds} \subseteq Widths
         /\ mustRefuse \in BOOLEAN
         /\ Plausible(kill)
         /\ held \in [Tasks -> Believed] /\ found \in [Tasks -> Believed]
  BY BelievedStates DEF Typed, Plausible

-------------------------------------------------------------------------------
(***************************************************************************)
(* Records.                                                                *)
(***************************************************************************)
\* The end of a record and the start of one are steps of their task.
LEMMA EndsRecordRequeues ==
  ASSUME NEW t \in Engagers \cup {"loop"}, NEW rest \in {calls, Tail(calls)},
         Without(rest, t), EndsRecord(t, rest)
  PROVE  \E pc \in Pcs : Requeues(t, pc)
<1>1. t # "release"
  BY TaskNames
<1>2. CASE t = "loop"
  <2>1. Requeues(t, "reading")
    BY <1>1, <1>2 DEF EndsRecord, Requeues, Waits, Widths, Off
  <2> QED BY <2>1 DEF Pcs
<1>3. CASE t # "loop"
  <2>1. Requeues(t, "idle")
    BY <1>3 DEF EndsRecord, Requeues, Waits
  <2> QED BY <2>1 DEF Pcs
<1> QED BY <1>2, <1>3

\* Starting a record waits for the answer to it, and clears superseded.
LEMMA WritesRecordRequeues ==
  ASSUME NEW t \in Engagers \cup {"loop"}, NEW rest \in {calls, Tail(calls)},
         NEW width \in Widths, width # Off, width = unrecorded', Without(rest, t),
         WritesRecord(t, rest, width)
  PROVE  Requeues(t, "recording") /\ superseded' = FALSE
<1>1. t # "release"
  BY TaskNames
<1> QED BY <1>1 DEF WritesRecord, Requeues, Waits

\* Taking the record lock, the round of the kill loop and the answer to a record.
LEMMA TakesRecordLockKeeps ==
  ASSUME IInv, NEW t \in Engagers \cup {"loop"}, TakesRecordLock(t) \/ (t = "loop" /\ KillLoop)
  PROVE  IInv'
<1>1. t \in Tasks /\ t # "check" /\ Typed /\ CallInv /\ at[t] \in {"waiting", "idle"}
  BY TaskNames DEF IInv, TakesRecordLock, KillLoop
<1>2. Without(calls, t)
  BY <1>1, NoCallToWaitFor DEF Waits
<1>3. UNCHANGED <<journal, kill, unrecorded, failed, want, held, found, asked, binds, mustRefuse>>
  BY DEF TakesRecordLock, KillLoop, historyVars
<1>4. /\ superseded' \in BOOLEAN
      /\ \E pc \in Pcs : Requeues(t, pc)
  <2>1. CASE EndsRecord(t, calls) /\ UNCHANGED superseded
    BY <1>1, <1>2, <2>1, EndsRecordRequeues DEF Typed
  <2>2. CASE WritesRecord(t, calls, unrecorded) /\ unrecorded # Off
    BY <1>1, <1>2, <1>3, <2>2, WritesRecordRequeues DEF Typed, Pcs
  <2>3. CASE /\ t = "loop" /\ at' = [at EXCEPT !["loop"] = "waiting"]
             /\ UNCHANGED <<calls, superseded>>
    <3>1. Requeues(t, "waiting")
      BY <1>2, <2>3 DEF Requeues, Waits
    <3> QED BY <1>1, <2>3, <3>1 DEF Typed, Pcs
  <2> QED BY <2>1, <2>2, <2>3 DEF TakesRecordLock, KillLoop
<1>5. PICK pc \in Pcs : Requeues(t, pc)
  BY <1>4
<1>6. StepOf(t, pc)
  BY <1>1, <1>3, <1>4, <1>5, TypedParts DEF StepOf, Plausible, Believed
<1>7. t \in Engagers => at[t] # "idle"
  BY TaskNames DEF TakesRecordLock
<1> QED BY <1>1, <1>3, <1>5, <1>6, <1>7, StepKeepsAll DEF IInv, EngageInv

\* The answer to a record puts an engage in memory, or nothing.
LEMMA RecordedKeeps ==
  ASSUME IInv, NEW t \in Engagers \cup {"loop"}, Recorded(t)
  PROVE  IInv'
<1>1. t \in Tasks /\ t # "check" /\ Typed /\ CallInv /\ at[t] = "recording"
  BY TaskNames DEF IInv, Recorded
<1>2. /\ Without(Tail(calls), t) /\ 1 \in DOMAIN calls /\ Answer = calls[1] /\ Answer.task = t
      /\ Answer.state \in Believed /\ Answer \in CallSet
  BY <1>1, AnswerEndsCall DEF Recorded
<1>3. Answer.width # Off /\ Answer.width \in Widths /\ Answer.state.seq <= journal.seq
      /\ Answer.state.seq \in Nat
  BY <1>1, <1>2 DEF CallInv, CallSet, IInv, KnownInv, Known, KillStates
<1>4. UNCHANGED <<journal, superseded, want, held, found, asked, binds, mustRefuse>>
  BY DEF Recorded, historyVars
<1>5. /\ Plausible(kill') /\ unrecorded' \in Widths /\ failed' \in BOOLEAN
      /\ unrecorded' # Off => kill'.width # Off
  <2>1. CASE unrecorded' = Off /\ kill' = [width |-> Answer.width, seq |-> Answer.state.seq]
             /\ UNCHANGED failed
    BY <1>1, <1>3, <2>1 DEF Plausible, KillStates, Widths, Typed
  <2>2. CASE UNCHANGED <<kill, unrecorded>> /\ failed' \in BOOLEAN
    BY <1>1, <2>2, TypedParts DEF IInv, EngageInv
  <2> QED BY <1>1, <2>1, <2>2 DEF Recorded, Typed
<1>6. PICK pc \in Pcs : Requeues(t, pc)
  BY <1>2, EndsRecordRequeues DEF Recorded
<1>7. StepOf(t, pc)
  BY <1>1, <1>4, <1>5, <1>6, TypedParts DEF StepOf
<1> QED BY <1>1, <1>4, <1>5, <1>6, <1>7, StepKeepsAll

-------------------------------------------------------------------------------
(***************************************************************************)
(* Engages and releases.                                                   *)
(***************************************************************************)
\* A new engage is in memory before anything else happens.
LEMMA EngageKillKeeps ==
  ASSUME IInv, NEW e \in Engagers, NEW width \in {Halted, Sweeping}, EngageKill(e, width)
  PROVE  IInv'
<1>1. e \in Tasks /\ e # "check" /\ Typed /\ CallInv /\ KnownInv /\ CheckInv /\ at[e] = "idle"
  BY TaskNames DEF IInv, EngageKill
<1>2. width \in Widths /\ width # Off
  BY DEF Widths, Halted, Sweeping, Off
<1>3. Requeues(e, "settling")
  BY <1>1, NoCallToWaitFor DEF EngageKill, Requeues, Waits
<1>4. Plausible(kill') /\ (kill.width # Off => kill' = kill) /\ kill'.width # Off
  <2>1. CASE kill.width = Off
    <3>1. kill' = [width |-> width, seq |-> kill.seq]
      BY <1>1, <2>1 DEF EngageKill, Typed, KillStates
    <3>2. kill.seq <= journal.seq
      BY <1>1, BelievedStates DEF KnownInv, Known
    <3> QED BY <1>1, <1>2, <2>1, <3>1, <3>2 DEF Plausible, KillStates, Typed
  <2>2. CASE kill.width # Off
    BY <1>1, <2>2, TypedParts DEF EngageKill
  <2> QED BY <2>1, <2>2
<1>5. held' \in [Tasks -> Believed]
  BY <1>1, BelievedStates DEF EngageKill
<1>6. {asked', binds'} \subseteq Widths /\ want' \in [Engagers -> Widths]
  BY <1>1, <1>2 DEF EngageKill, Asks, Typed, Wider, Narrower, Widths, Halted
<1>7. UNCHANGED <<journal, unrecorded, superseded, failed, found, mustRefuse>>
  BY DEF EngageKill
<1>8. StepOf(e, "settling")
  BY <1>1, <1>3, <1>4, <1>5, <1>6, <1>7, TypedParts DEF StepOf
<1>9. Typed' /\ CallInv' /\ KnownInv' /\ CheckInv'
  BY <1>1, <1>7, <1>8, StepKeepsKnown, OthersKeepCheck DEF Pcs
<1>10. EngageInv'
  BY <1>1, <1>2, <1>3, <1>4 DEF EngageKill, EngageInv, IInv, Typed, Requeues
<1> QED BY <1>9, <1>10 DEF IInv

\* An engage that decides ends, or records what it asks for.
LEMMA DecidesKeeps ==
  ASSUME IInv, NEW e \in Engagers, at[e] # "idle", NEW current \in Believed,
         NEW pending \in BOOLEAN, NEW rest \in {calls, Tail(calls)}, Without(rest, e),
         Decides(e, current, pending, rest), found' \in [Tasks -> Believed]
  PROVE  IInv'
<1>1. e \in Tasks /\ e # "check" /\ e # "release" /\ Typed /\ CallInv /\ KnownInv
  BY TaskNames DEF IInv
<1>2. want[e] \in Widths /\ want[e] # Off /\ current \in KillStates /\ current.seq <= journal.seq
  BY <1>1 DEF IInv, EngageInv, Typed, KnownInv, Known
<1>3. UNCHANGED <<journal, failed, want, held, asked, binds, mustRefuse>>
  BY DEF Decides, historyVars
<1>4. CASE current.width >= want[e]
  <2>1. current.width # Off
    BY <1>2, <1>4 DEF KillStates, Widths, Off, Halted, Sweeping
  <2>2. kill' \in {kill, current} /\ (unrecorded' # Off => kill'.width # Off)
        /\ UNCHANGED <<unrecorded, superseded>>
    BY <1>4, <2>1 DEF Decides, IInv, EngageInv
  <2>3. Requeues(e, "idle")
    BY <1>4 DEF Decides, Requeues, Waits
  <2>4. StepOf(e, "idle")
    BY <1>1, <1>3, <2>2, <2>3, TypedParts DEF StepOf, Plausible
  <2> QED BY <1>1, <1>3, <2>2, <2>4, StepKeepsAll DEF Pcs
<1>5. CASE ~(current.width >= want[e])
  <2>1. kill' = [width |-> want[e], seq |-> current.seq] /\ unrecorded' = want[e]
    BY <1>5 DEF Decides
  <2>2. Plausible(kill') /\ kill'.width # Off
    BY <1>2, <2>1 DEF Plausible, KillStates
  <2>3. \E pc \in {"waiting", "recording"} : Requeues(e, pc) /\ superseded' \in BOOLEAN
    <3>1. CASE Recording
      BY <1>1, <1>5, <3>1 DEF Decides, Requeues, Waits
    <3>2. CASE ~Recording
      BY <1>2, <1>5, <3>2, WritesRecordRequeues DEF Decides
    <3> QED BY <3>1, <3>2
  <2>4. PICK pc \in {"waiting", "recording"} : Requeues(e, pc) /\ superseded' \in BOOLEAN
    BY <2>3
  <2>5. StepOf(e, pc)
    BY <1>1, <1>2, <1>3, <2>1, <2>2, <2>4, TypedParts DEF StepOf
  <2> QED BY <1>1, <1>3, <2>2, <2>5, StepKeepsAll DEF Pcs
<1> QED BY <1>4, <1>5

\* An engage judges against what is believed: memory, what it set out from, or the answer
\* to its reading.
LEMMA EngageStepKeeps ==
  ASSUME IInv, NEW e \in Engagers, EngageStep(e)
  PROVE  IInv'
<1>1. e \in Tasks /\ e # "check" /\ e # "release" /\ Typed /\ CallInv
  BY TaskNames DEF IInv
<1>2. held[e] \in Believed /\ found[e] \in Believed /\ kill \in Believed
      /\ held \in [Tasks -> Believed] /\ found \in [Tasks -> Believed]
  BY <1>1, BelievedStates
<1>3. ASSUME NEW pc \in Pcs, Requeues(e, pc), at[e] # "idle",
             UNCHANGED <<journal, memoryVars, want, held, asked, binds, mustRefuse>>,
             found' \in [Tasks -> Believed]
      PROVE  IInv'
  <2>1. StepOf(e, pc)
    BY <1>1, <1>3, TypedParts DEF StepOf, memoryVars, Plausible
  <2> QED BY <1>1, <1>3, <2>1, StepKeepsAll DEF memoryVars, IInv, EngageInv
<1>4. CASE SettleKill(e)
  <2>1. at[e] = "settling" /\ Without(calls, e) /\ UNCHANGED found
    BY <1>1, <1>4, NoCallToWaitFor DEF SettleKill, Waits
  <2>2. CASE unrecorded # Off
    BY <1>2, <1>4, <2>1, <2>2, DecidesKeeps DEF SettleKill
  <2>3. CASE unrecorded = Off
    <3>1. Requeues(e, "reading")
      BY <1>1, <1>4, <2>1, <2>3 DEF SettleKill, Requeues, Waits, Widths
    <3>2. UNCHANGED <<journal, memoryVars, want, held, asked, binds, mustRefuse>>
      BY <1>4, <2>3 DEF SettleKill, historyVars
    <3> QED BY <1>2, <1>3, <2>1, <3>1, <3>2 DEF Pcs
  <2> QED BY <2>2, <2>3
<1>5. ASSUME Answered(e)
      PROVE  Without(Tail(calls), e) /\ Answer.state \in Believed
  BY <1>1, <1>5, AnswerEndsCall
<1>6. CASE SettleRead(e)
  <2>1. at[e] = "reading" /\ Without(Tail(calls), e) /\ Answer.state \in Believed
    BY <1>5, <1>6 DEF SettleRead
  <2>2. CASE Answer.ok /\ NeedsVerify(held[e], Answer.state)
    <3>1. Requeues(e, "verifying")
      BY <1>1, <1>6, <2>1, <2>2 DEF SettleRead, Requeues, Waits, Widths
    <3>2. UNCHANGED <<journal, memoryVars, want, held, asked, binds, mustRefuse>>
      BY <1>6, <2>2 DEF SettleRead, historyVars
    <3>3. found' \in [Tasks -> Believed]
      BY <1>2, <1>6, <2>1, <2>2 DEF SettleRead
    <3> QED BY <1>3, <2>1, <3>1, <3>2, <3>3 DEF Pcs
  <2>3. CASE ~(Answer.ok /\ NeedsVerify(held[e], Answer.state))
    <3> DEFINE read == IF Answer.ok THEN Newer(held[e], Answer.state) ELSE held[e]
    <3>1. Current(read) \in Believed
      BY <1>2, <2>1 DEF Current, Newer
    <3>2. Decides(e, Current(read), FALSE, Tail(calls)) /\ UNCHANGED found
      BY <1>6, <2>3 DEF SettleRead
    <3> QED BY <1>2, <2>1, <3>1, <3>2, DecidesKeeps
  <2> QED BY <2>2, <2>3
<1>7. CASE SettleVerified(e)
  <2>1. at[e] = "verifying" /\ Without(Tail(calls), e)
    BY <1>5, <1>7 DEF SettleVerified
  <2>2. Current(IF Answer.ok THEN found[e] ELSE held[e]) \in Believed
    BY <1>2 DEF Current
  <2> QED BY <1>2, <1>7, <2>1, <2>2, DecidesKeeps DEF SettleVerified
<1> QED BY <1>4, <1>6, <1>7 DEF EngageStep

\* A release is on record before memory takes it.
LEMMA ReleaseKeeps ==
  ASSUME IInv, StartRelease \/ ReleaseKill
  PROVE  IInv'
<1>1. "release" \in Tasks /\ "release" # "check" /\ "release" \notin Engagers /\ Typed /\ CallInv
  BY TaskNames DEF IInv
<1>2. CASE StartRelease
  <2>1. Requeues("release", "releasing")
    BY <1>1, <1>2, NoCallToWaitFor DEF StartRelease, Requeues, Waits, Widths
  <2>2. UNCHANGED <<journal, memoryVars, want, held, found>>
    BY <1>2 DEF StartRelease
  <2>3. {asked', binds'} \subseteq Widths /\ mustRefuse' \in BOOLEAN /\ (mustRefuse' => mustRefuse)
    BY <1>1, <1>2 DEF StartRelease, Forgets, Typed, Widths
  <2>4. StepOf("release", "releasing")
    BY <1>1, <2>1, <2>2, <2>3, TypedParts DEF StepOf, memoryVars, Plausible
  <2> QED BY <1>1, <2>2, <2>3, <2>4, StepKeepsAll DEF memoryVars, Pcs, IInv, EngageInv
<1>3. CASE ReleaseKill
  <2>1. /\ Without(Tail(calls), "release") /\ 1 \in DOMAIN calls /\ Answer = calls[1]
        /\ Answer.task = "release" /\ Answer.done /\ Answer.state \in Believed
        /\ Answer \in CallSet
    BY <1>1, <1>3, AnswerEndsCall DEF ReleaseKill
  <2>2. Requeues("release", "idle")
    BY <1>3, <2>1 DEF ReleaseKill, Requeues, Waits
  <2>3. UNCHANGED <<journal, failed, want, held, found, asked, binds, mustRefuse>>
    BY <1>3 DEF ReleaseKill, historyVars
  <2>4. /\ Plausible(kill') /\ unrecorded' \in Widths /\ superseded' \in BOOLEAN
        /\ unrecorded' # Off => kill'.width # Off
    <3>1. CASE Answer.ok
      <4>1. Answer.state.width = Off /\ Answer.state \in KillStates
        BY <1>1, <2>1, <3>1 DEF CallInv, CallSet
      <4>2. kill' = Answer.state
        BY <1>3, <3>1, <4>1 DEF ReleaseKill, KillStates
      <4> QED BY <1>3, <2>1, <3>1, <4>2 DEF ReleaseKill, Plausible, Widths
    <3>2. CASE ~Answer.ok
      BY <1>1, <1>3, <3>2, TypedParts DEF ReleaseKill, IInv, EngageInv
    <3> QED BY <3>1, <3>2
  <2>5. StepOf("release", "idle")
    BY <1>1, <2>2, <2>3, <2>4, TypedParts DEF StepOf
  <2> QED BY <1>1, <2>3, <2>4, <2>5, StepKeepsAll DEF Pcs
<1> QED BY <1>2, <1>3

-------------------------------------------------------------------------------
(***************************************************************************)
(* The check and the kill loop's reading.                                  *)
(***************************************************************************)
\* A step of the check keeps the invariant if it goes on to verify only what need not be
\* refused.
LEMMA CheckStepKeeps ==
  ASSUME IInv, NEW pc \in {"idle", "reading", "verifying"}, StepOf("check", pc),
         want' = want, unrecorded' # Off => kill'.width # Off,
         pc = "verifying" => ~mustRefuse',
         pc = "reading" /\ mustRefuse' => journal.width # Off
  PROVE  IInv'
<1>1. "check" \in Tasks /\ pc \in Pcs /\ Typed /\ CallInv /\ KnownInv
  BY TaskNames DEF IInv, Pcs
<1>2. Typed' /\ CallInv' /\ KnownInv'
  BY <1>1, StepKeepsKnown
<1>3. at' = [at EXCEPT !["check"] = pc]
  BY DEF StepOf, Requeues
<1>4. \A e \in Engagers : at'[e] = at[e]
  BY <1>1, <1>3, TaskNames DEF Typed
<1>5. EngageInv'
  BY <1>4 DEF IInv, EngageInv
<1>6. \A i \in DOMAIN calls' : ~(calls'[i].task = "check" /\ calls'[i].done)
  BY <1>1, RequeueKeepsCalls DEF StepOf
<1>7. CheckInv'
  BY <1>1, <1>3, <1>6 DEF CheckInv, StepOf, Typed
<1> QED BY <1>2, <1>5, <1>7 DEF IInv

\* A check begins by reading the journal.
LEMMA CheckCanTradeKeeps ==
  ASSUME IInv, CheckCanTrade
  PROVE  IInv'
<1>1. "check" \in Tasks /\ "check" # "release" /\ Typed /\ CallInv /\ at["check"] = "idle"
  BY TaskNames DEF IInv, CheckCanTrade
<1>2. Requeues("check", "reading")
  BY <1>1, NoCallToWaitFor DEF CheckCanTrade, Requeues, Waits, Widths
<1>3. UNCHANGED <<journal, memoryVars, want, held, found, asked, binds>> /\ mustRefuse' \in BOOLEAN
      /\ (mustRefuse' => journal.width # Off)
  BY DEF CheckCanTrade
<1>4. StepOf("check", "reading")
  BY <1>1, <1>2, <1>3, TypedParts DEF StepOf, memoryVars, Plausible
<1> QED BY <1>3, <1>4, CheckStepKeeps DEF memoryVars, IInv, EngageInv

\* A reading of the journal is adopted, or verified first, or left.
LEMMA MergeStepKeeps ==
  ASSUME IInv, NEW m \in Mergers, MergeStep(m)
  PROVE  IInv'
<1>1. m \in Tasks /\ m # "release" /\ m \notin Engagers /\ Typed /\ CallInv /\ CheckInv
      /\ (m = "check" \/ m # "check")
  BY TaskNames DEF IInv, Mergers
<1>2. Answered(m) /\ at[m] # "idle"
  BY DEF MergeStep, MergeKill, MergeVerified
<1>3. /\ Without(Tail(calls), m) /\ 1 \in DOMAIN calls /\ Answer = calls[1]
      /\ Answer.task = m /\ Answer.done /\ Answer.state \in Believed
  BY <1>1, <1>2, AnswerEndsCall
<1>4. /\ kill \in Believed /\ held \in [Tasks -> Believed] /\ found \in [Tasks -> Believed]
  BY <1>1, BelievedStates
<1>5. UNCHANGED <<journal, unrecorded, superseded, failed, want, asked, binds, mustRefuse>>
  BY DEF MergeStep, MergeKill, MergeVerified, historyVars
<1>6. kill' \in Believed /\ (unrecorded # Off => kill' = kill)
      /\ held' \in [Tasks -> Believed] /\ found' \in [Tasks -> Believed]
  <2>1. CASE MergeKill(m)
    BY <1>1, <1>3, <1>4, <2>1 DEF MergeKill, Newer
  <2>2. CASE MergeVerified(m)
    BY <1>1, <1>4, <2>2 DEF MergeVerified
  <2> QED BY <2>1, <2>2 DEF MergeStep
<1>7. PICK pc \in {"idle", "verifying"} :
        /\ Requeues(m, pc)
        /\ pc = "verifying" => at[m] = "reading" /\ Answer.ok /\ Answer.state.width = Off
  <2>1. CASE MergeKill(m) /\ calls' = Append(Tail(calls), Call(m, "verify", Off))
             /\ at' = [at EXCEPT ![m] = "verifying"] /\ Answer.ok /\ NeedsVerify(kill, Answer.state)
    <3>1. Requeues(m, "verifying")
      BY <1>1, <1>3, <2>1 DEF Requeues, Waits, Widths
    <3> QED BY <2>1, <3>1 DEF MergeKill, NeedsVerify
  <2>2. CASE calls' = Tail(calls) /\ at' = [at EXCEPT ![m] = "idle"]
    <3>1. Requeues(m, "idle")
      BY <1>3, <2>2 DEF Requeues, Waits
    <3> QED BY <3>1
  <2> QED BY <2>1, <2>2 DEF MergeStep, MergeKill, MergeVerified
<1>8. StepOf(m, pc)
  BY <1>1, <1>5, <1>6, <1>7, TypedParts DEF StepOf, Plausible
<1>9. unrecorded' # Off => kill'.width # Off
  BY <1>5, <1>6 DEF IInv, EngageInv
<1>10. CASE m # "check"
  BY <1>1, <1>5, <1>8, <1>9, <1>10, StepKeepsAll DEF Pcs
<1>11. CASE m = "check"
  <2>1. pc = "verifying" => ~mustRefuse'
    BY <1>1, <1>3, <1>5, <1>7, <1>11 DEF CheckInv
  <2> QED BY <1>5, <1>7, <1>8, <1>9, <1>11, <2>1, CheckStepKeeps
<1> QED BY <1>10, <1>11

-------------------------------------------------------------------------------
(***************************************************************************)
(* The journal, the other processes and the end of this one.               *)
(***************************************************************************)
\* A record of an engage or a release is the newest state, engaged or not as it asks.
LEMMA AfterRecordIsNewer ==
  ASSUME NEW x \in KillStates, NEW width \in Widths
  PROVE  /\ AfterRecord(x, width) \in KillStates /\ AfterRecord(x, width).seq = x.seq + 1
         /\ AfterRecord(x, width).width = Off <=> width = Off
  BY DEF AfterRecord, KillStates, Wider, Widths, Off, Halted, Sweeping

\* The journal stands still, or takes an engage, or a release that is not forgotten.
JournalMoves ==
  \/ journal' = journal /\ mustRefuse' = mustRefuse
  \/ \E width \in Widths :
       journal' = AfterRecord(journal, width) /\ mustRefuse' = (mustRefuse /\ width # Off)

\* What is believed stays known when the journal moves and only its own state is added.
LEMMA JournalMovesKeep ==
  ASSUME Typed, KnownInv, JournalMoves,
         \A x \in Believed' : x \in Believed \/ x = journal'
  PROVE  /\ journal' \in KillStates /\ KnownInv'
         /\ mustRefuse' \in BOOLEAN /\ (mustRefuse' => mustRefuse)
         /\ mustRefuse' /\ journal.width # Off
              => journal'.width # Off /\ journal'.seq >= journal.seq
<1>1. journal \in KillStates /\ journal.seq \in Nat /\ mustRefuse \in BOOLEAN
  BY DEF Typed, KillStates
<1>2. \A x \in Believed : x \in KillStates /\ x.seq \in Nat /\ x.seq <= journal.seq
                          /\ (x.width = Off /\ journal.width # Off => x.seq < journal.seq)
  BY DEF KnownInv, Known, KillStates
<1>3. CASE journal' = journal /\ mustRefuse' = mustRefuse
  <2>1. KnownInv'
    BY <1>1, <1>2, <1>3 DEF KnownInv, Known
  <2> QED BY <1>1, <1>3, <2>1
<1>4. ASSUME NEW width \in Widths, journal' = AfterRecord(journal, width),
             mustRefuse' = (mustRefuse /\ width # Off)
      PROVE  /\ journal' \in KillStates /\ KnownInv'
             /\ mustRefuse' \in BOOLEAN /\ (mustRefuse' => mustRefuse)
             /\ mustRefuse' /\ journal.width # Off
                  => journal'.width # Off /\ journal'.seq >= journal.seq
  <2>1. /\ journal' \in KillStates /\ journal'.seq = journal.seq + 1
        /\ journal'.width = Off <=> width = Off
    BY <1>1, <1>4, AfterRecordIsNewer
  <2>2. \A x \in Believed : x.seq < journal'.seq
    BY <1>1, <1>2, <2>1
  <2>3. KnownInv'
    BY <1>1, <1>2, <2>1, <2>2 DEF KnownInv, Known
  <2>4. mustRefuse' \in BOOLEAN /\ (mustRefuse' => mustRefuse /\ width # Off)
    BY <1>1, <1>4
  <2>5. journal'.seq >= journal.seq
    BY <1>1, <2>1
  <2> QED BY <2>1, <2>3, <2>4, <2>5
<1> QED BY <1>3, <1>4 DEF JournalMoves

\* A step of the journal keeps the invariant: what it tells anyone is its newest state.
LEMMA JournalStepKeeps ==
  ASSUME IInv, JournalMoves, UNCHANGED <<memoryVars, taskVars>>, {asked', binds'} \subseteq Widths,
         calls' \in Seq(CallSet), CallInv',
         \A i \in DOMAIN calls' :
           (\E j \in DOMAIN calls : calls'[i] = calls[j]) \/ calls'[i].state = journal'
  PROVE  IInv'
<1>1. Typed /\ KnownInv /\ EngageInv /\ CheckInv
  BY DEF IInv
<1>2. UNCHANGED <<kill, unrecorded, superseded, failed, at, want, held, found, ready>>
  BY DEF memoryVars, taskVars
<1>3. \A x \in Believed' : x \in Believed \/ x = journal'
  BY <1>2 DEF Believed
<1>4. /\ journal' \in KillStates /\ KnownInv'
      /\ mustRefuse' \in BOOLEAN /\ (mustRefuse' => mustRefuse)
      /\ mustRefuse' /\ journal.width # Off => journal'.width # Off /\ journal'.seq >= journal.seq
  BY <1>1, <1>3, JournalMovesKeep
<1>5. Typed'
  BY <1>1, <1>2, <1>4 DEF Typed
<1>6. EngageInv'
  BY <1>1, <1>2 DEF EngageInv
<1>7. CheckInv'
  <2>1. SUFFICES ASSUME at["check"] = "reading", mustRefuse'
                 PROVE  /\ journal'.width # Off
                        /\ \A i \in DOMAIN calls' :
                             calls'[i].task = "check" /\ calls'[i].done /\ calls'[i].ok =>
                               /\ calls'[i].state.width # Off
                               /\ \A x \in Believed' : x.width = Off => x.seq < calls'[i].state.seq
    BY <1>1, <1>2, <1>4 DEF CheckInv
  <2>2. journal.width # Off /\ journal'.width # Off /\ journal'.seq >= journal.seq
    BY <1>1, <1>4, <2>1 DEF CheckInv
  <2>3. \A x \in Believed' : x.width = Off => x \in Believed
    BY <1>3, <2>2
  <2>4. \A x \in Believed' : x.width = Off => x.seq < journal'.seq
    BY <1>1, <1>4, <2>2, <2>3 DEF KnownInv, Known, Typed, KillStates
  <2> QED BY <1>1, <1>4, <2>1, <2>2, <2>3, <2>4 DEF CheckInv
<1> QED BY <1>4, <1>5, <1>6, <1>7 DEF IInv

\* The answer to a call changes nothing else about the calls.
LEMMA AnsweringKeepsCalls ==
  ASSUME Typed, CallInv, at' = at, NEW i \in DOMAIN calls, NEW ok \in BOOLEAN,
         NEW state \in KillStates, Answering(i, ok, state),
         calls[i].task = "release" /\ ok => state.width = Off
  PROVE  /\ calls' \in Seq(CallSet) /\ CallInv'
         /\ \A j \in DOMAIN calls' :
              (\E k \in DOMAIN calls : calls'[j] = calls[k]) \/ calls'[j].state = state
<1>1. calls \in Seq(CallSet) /\ calls[i] \in CallSet
  BY ElementOfSeq, LenProperties DEF Typed
<1> DEFINE answered == [calls[i] EXCEPT !.done = TRUE, !.ok = ok, !.state = state]
<1>2. answered \in CallSet /\ answered.task = calls[i].task /\ answered.op = calls[i].op
      /\ answered.width = calls[i].width /\ answered.ok = ok /\ answered.state = state
  BY <1>1 DEF CallSet
<1>3. calls' = [calls EXCEPT ![i] = answered]
  BY <1>1 DEF Answering
<1>4. /\ calls' \in Seq(CallSet) /\ DOMAIN calls' = DOMAIN calls /\ calls'[i] = answered
      /\ \A j \in DOMAIN calls : j # i => calls'[j] = calls[j]
  BY <1>1, <1>2, <1>3, ExceptSeq, LenProperties
<1>5. CallInv'
  <2>1. \A j \in DOMAIN calls' : /\ calls'[j].task = calls[j].task /\ calls'[j].op = calls[j].op
                                 /\ calls'[j].width = calls[j].width
    BY <1>2, <1>4
  <2>2. \A j \in DOMAIN calls' : at'[calls'[j].task] \in Waits
    BY <1>4, <2>1 DEF CallInv
  <2>3. \A j, k \in DOMAIN calls' : calls'[j].task = calls'[k].task => j = k
    BY <1>4, <2>1 DEF CallInv
  <2>4. \A j \in DOMAIN calls' : at'[calls'[j].task] = "recording" => calls'[j].width # Off
    BY <1>4, <2>1 DEF CallInv
  <2>5. \A j \in DOMAIN calls' : calls'[j].task = "release" =>
          /\ calls'[j].op = "append" /\ calls'[j].width = Off
          /\ calls'[j].done /\ calls'[j].ok => calls'[j].state.width = Off
    <3>1. \A j \in DOMAIN calls : calls[j].task = "release" =>
            calls[j].op = "append" /\ calls[j].width = Off
      BY DEF CallInv
    <3>2. \A j \in DOMAIN calls : calls[j].task = "release" /\ calls[j].done /\ calls[j].ok
            => calls[j].state.width = Off
      BY DEF CallInv
    <3>3. \A j \in DOMAIN calls' : calls'[j].task = "release" /\ calls'[j].done /\ calls'[j].ok
            => calls'[j].state.width = Off
      <4>1. calls'[i].task = "release" /\ calls'[i].ok => calls'[i].state.width = Off
        BY <1>2, <1>4
      <4> QED BY <1>4, <3>2, <4>1
    <3> QED BY <1>4, <2>1, <3>1, <3>3
  <2> QED BY <2>2, <2>3, <2>4, <2>5 DEF CallInv
<1> QED BY <1>2, <1>4, <1>5

\* The executor answers the oldest call.
LEMMA JournalWorksKeeps ==
  ASSUME IInv, JournalWorks
  PROVE  IInv'
<1>1. Typed /\ CallInv /\ KnownInv /\ journal \in KillStates /\ {asked, binds} \subseteq Widths
  BY DEF IInv, Typed
<1>2. UNCHANGED <<memoryVars, taskVars>> /\ at' = at
  BY DEF JournalWorks, taskVars
<1>3. ASSUME NEW i \in DOMAIN calls, NEW ok \in BOOLEAN, Answering(i, ok, journal'),
             JournalMoves, journal' \in KillStates, {asked', binds'} \subseteq Widths,
             calls[i].task = "release" /\ ok => journal'.width = Off
      PROVE  IInv'
  BY <1>1, <1>2, <1>3, AnsweringKeepsCalls, JournalStepKeeps
<1>4. PICK i \in DOMAIN calls :
       \/ /\ calls[i].op \in {"read", "verify"} /\ Answering(i, TRUE, journal)
          /\ UNCHANGED <<journal, asked, binds, mustRefuse>>
       \/ /\ calls[i].op = "append" /\ journal' = AfterRecord(journal, calls[i].width)
          /\ Answering(i, TRUE, journal') /\ Forgets(calls[i].width)
          /\ Overtakes(calls[i].width)
       \/ Answering(i, FALSE, journal) /\ UNCHANGED <<journal, asked, binds, mustRefuse>>
  BY DEF JournalWorks, historyVars
<1>5. /\ calls[i].width \in Widths
      /\ calls[i].task = "release" => calls[i].op = "append" /\ calls[i].width = Off
  <2>1. calls[i] \in CallSet
    BY <1>1, ElementOfSeq, LenProperties DEF Typed
  <2> QED BY <1>1, <2>1 DEF CallInv, CallSet
<1>6. CASE /\ calls[i].op \in {"read", "verify"} /\ Answering(i, TRUE, journal)
           /\ UNCHANGED <<journal, asked, binds, mustRefuse>>
  <2>1. Answering(i, TRUE, journal') /\ JournalMoves /\ calls[i].task # "release"
    BY <1>5, <1>6 DEF JournalMoves
  <2> QED BY <1>1, <1>3, <1>6, <2>1
<1>7. CASE /\ calls[i].op = "append" /\ journal' = AfterRecord(journal, calls[i].width)
           /\ Answering(i, TRUE, journal') /\ Forgets(calls[i].width) /\ Overtakes(calls[i].width)
  <2>1. JournalMoves
    BY <1>5, <1>7 DEF JournalMoves, Forgets
  <2>2. {asked', binds'} \subseteq Widths
    BY <1>1, <1>7 DEF Forgets, Overtakes, Narrower, Widths, Halted, Sweeping
  <2>3. journal' \in KillStates /\ (calls[i].task = "release" => journal'.width = Off)
    BY <1>1, <1>5, <1>7, AfterRecordIsNewer
  <2> QED BY <1>3, <1>7, <2>1, <2>2, <2>3
<1>8. CASE Answering(i, FALSE, journal) /\ UNCHANGED <<journal, asked, binds, mustRefuse>>
  <2>1. Answering(i, FALSE, journal') /\ JournalMoves
    BY <1>8 DEF JournalMoves
  <2> QED BY <1>1, <1>3, <1>8, <2>1
<1> QED BY <1>4, <1>6, <1>7, <1>8

\* Another process records an engage or a release.
LEMMA ElsewhereKeeps ==
  ASSUME IInv, EngageElsewhere \/ ReleaseElsewhere
  PROVE  IInv'
<1>1. Typed /\ CallInv /\ {asked, binds} \subseteq Widths
  BY DEF IInv, Typed
<1>2. UNCHANGED <<memoryVars, taskVars, calls>> /\ at' = at
  BY DEF EngageElsewhere, ReleaseElsewhere, taskVars
<1>3. {asked', binds'} \subseteq Widths /\ JournalMoves
  <2>1. CASE EngageElsewhere
    <3>1. PICK width \in {Halted, Sweeping} : journal' = AfterRecord(journal, width)
      BY <2>1 DEF EngageElsewhere
    <3>2. width \in Widths /\ width # Off
      BY DEF Widths, Halted, Sweeping, Off
    <3>3. mustRefuse' = mustRefuse /\ mustRefuse \in BOOLEAN /\ asked' = asked /\ binds' = binds
      BY <1>1, <2>1 DEF EngageElsewhere, historyVars, Typed
    <3>4. mustRefuse' = (mustRefuse /\ width # Off)
      BY <3>2, <3>3
    <3> QED BY <1>1, <3>1, <3>2, <3>3, <3>4 DEF JournalMoves
  <2>2. CASE ReleaseElsewhere
    BY <1>1, <2>2 DEF ReleaseElsewhere, Forgets, JournalMoves, Widths
  <2> QED BY <2>1, <2>2
<1>4. calls' \in Seq(CallSet) /\ CallInv'
  BY <1>1, <1>2 DEF Typed, CallInv
<1> QED BY <1>2, <1>3, <1>4, JournalStepKeeps

\* A process that dies begins again with what the journal says.
LEMMA CrashKeeps ==
  ASSUME IInv, CrashAndRecover
  PROVE  IInv'
<1>1. Typed /\ KnownInv /\ journal \in KillStates /\ "check" \in Tasks
  BY TaskNames DEF IInv, Typed
<1>2. /\ journal' = journal /\ kill' = journal /\ unrecorded' = Off /\ superseded' = FALSE
      /\ failed' = FALSE /\ at' = [t \in Tasks |-> "idle"] /\ calls' = <<>>
      /\ asked' \in {Off, asked, binds} /\ binds' = Sweeping /\ mustRefuse' = FALSE
      /\ UNCHANGED <<want, held, found>>
  BY DEF CrashAndRecover, Promised, Narrower
<1>3. calls' \in Seq(CallSet) /\ DOMAIN calls' = {}
  BY <1>2, EmptySeq, LenProperties
<1>4. CallInv'
  BY <1>3 DEF CallInv
<1>5. Typed'
  BY <1>1, <1>2, <1>3 DEF Typed, Widths, Pcs
<1>6. KnownInv'
  <2>1. \A x \in Believed' : x \in Believed \/ x = journal
    BY <1>2, <1>3 DEF Believed
  <2> QED BY <1>1, <1>2, <2>1 DEF KnownInv, Known, KillStates
<1>7. EngageInv' /\ CheckInv'
  BY <1>1, <1>2, TaskNames DEF EngageInv, CheckInv
<1> QED BY <1>4, <1>5, <1>6, <1>7 DEF IInv

\* A step that changes nothing keeps the invariant.
LEMMA StutterKeeps ==
  ASSUME IInv, UNCHANGED vars
  PROVE  IInv'
  BY DEF vars, memoryVars, taskVars, historyVars, IInv, Typed, CallInv, EngageInv, KnownInv,
         Known, CheckInv, Believed

\* The switch begins off, with nobody under way.
LEMMA InitHolds ==
  ASSUME Init
  PROVE  IInv
<1>1. journal = NoState /\ NoState \in KillStates /\ calls = <<>> /\ NoState.width = Off
  BY DEF Init, NoState, KillStates, Widths, Off
<1>2. calls \in Seq(CallSet) /\ DOMAIN calls = {}
  BY <1>1, EmptySeq, LenProperties
<1>3. Typed
  BY <1>1, <1>2 DEF Init, Typed, Widths, Pcs
<1>4. CallInv
  BY <1>2 DEF CallInv
<1>5. KnownInv
  <2>1. Believed = {NoState}
    BY <1>1, <1>2, TaskNames DEF Init, Believed
  <2> QED BY <1>1, <2>1 DEF KnownInv, Known, NoState, KillStates, Off
<1>6. EngageInv /\ CheckInv
  BY TaskNames DEF Init, EngageInv, CheckInv
<1> QED BY <1>3, <1>4, <1>5, <1>6 DEF IInv

\* The invariant holds at every step.
LEMMA Invariance == Spec => []IInv
<1>1. IInv /\ [Next]_vars => IInv'
  <2> SUFFICES ASSUME IInv, [Next]_vars PROVE IInv'
    OBVIOUS
  <2>1. ASSUME NEW e \in Engagers, NEW width \in {Halted, Sweeping}, EngageKill(e, width)
        PROVE  IInv'
    BY <2>1, EngageKillKeeps
  <2>2. ASSUME NEW e \in Engagers, EngageStep(e)
        PROVE  IInv'
    BY <2>2, EngageStepKeeps
  <2>3. ASSUME NEW t \in Engagers \cup {"loop"}, RecordStep(t)
        PROVE  IInv'
    BY <2>3, TakesRecordLockKeeps, RecordedKeeps DEF RecordStep
  <2>4. CASE KillLoop
    BY <2>4, TakesRecordLockKeeps
  <2>5. CASE StartRelease \/ ReleaseKill
    BY <2>5, ReleaseKeeps
  <2>6. CASE CheckCanTrade
    BY <2>6, CheckCanTradeKeeps
  <2>7. ASSUME NEW m \in Mergers, MergeStep(m)
        PROVE  IInv'
    BY <2>7, MergeStepKeeps
  <2>8. CASE JournalWorks
    BY <2>8, JournalWorksKeeps
  <2>9. CASE EngageElsewhere \/ ReleaseElsewhere
    BY <2>9, ElsewhereKeeps
  <2>10. CASE CrashAndRecover
    BY <2>10, CrashKeeps
  <2>11. CASE UNCHANGED vars
    BY <2>11, StutterKeeps
  <2> QED BY <2>1, <2>2, <2>3, <2>4, <2>5, <2>6, <2>7, <2>8, <2>9, <2>10, <2>11 DEF Next
<1> QED BY <1>1, InitHolds, PTL DEF Spec

-------------------------------------------------------------------------------
(***************************************************************************)
(* The results.                                                            *)
(***************************************************************************)
\* The types, and memory that is never ahead of the journal (engage_kill numbers no state
\* itself, in manager.py).
THEOREM TypeCorrect == Spec => []TypeOK
<1>1. IInv => TypeOK
  <2> SUFFICES ASSUME IInv PROVE TypeOK
    OBVIOUS
  <2>1. kill.seq <= journal.seq
    BY BelievedStates DEF IInv, KnownInv, Known
  <2>2. \A i \in DOMAIN calls : calls[i] \in CallSet
    BY ElementOfSeq, LenProperties DEF IInv, Typed
  <2>3. \A i \in DOMAIN calls : calls[i].task \in Tasks /\ calls[i].state \in KillStates
    BY <2>2 DEF CallSet
  <2> QED BY <2>1, <2>3 DEF IInv, Typed, TypeOK
<1> QED BY <1>1, Invariance, PTL

\* An action of another task leaves the check where it is.
LEMMA OthersLeaveCheck ==
  ASSUME Typed, Next, ~CheckCanTrade, ~MergeStep("check"), ~CrashAndRecover
  PROVE  at'["check"] = at["check"]
<1>1. "check" \in Tasks /\ at \in [Tasks -> Pcs]
      /\ \A e \in Engagers \cup {"loop"} : e # "check" /\ e \in Tasks
  BY TaskNames DEF Typed
<1>2. ASSUME NEW t, t # "check", NEW pc, at' = [at EXCEPT ![t] = pc]
      PROVE  at'["check"] = at["check"]
  BY <1>1, <1>2
<1>3. ASSUME NEW e \in Engagers, NEW width \in {Halted, Sweeping}, EngageKill(e, width)
      PROVE  at'["check"] = at["check"]
  BY <1>1, <1>2, <1>3 DEF EngageKill
<1>4. ASSUME NEW e \in Engagers, EngageStep(e)
      PROVE  at'["check"] = at["check"]
  <2>1. \E pc : at' = [at EXCEPT ![e] = pc]
    BY <1>4 DEF EngageStep, SettleKill, SettleRead, SettleVerified, Decides, WritesRecord
  <2> QED BY <1>1, <1>2, <2>1
<1>5. ASSUME NEW t \in Engagers \cup {"loop"}, RecordStep(t)
      PROVE  at'["check"] = at["check"]
  <2>1. \E pc : at' = [at EXCEPT ![t] = pc]
    BY <1>5 DEF RecordStep, TakesRecordLock, Recorded, EndsRecord, WritesRecord
  <2> QED BY <1>1, <1>2, <2>1
<1>6. CASE StartRelease \/ ReleaseKill
  BY <1>2, <1>6 DEF StartRelease, ReleaseKill
<1>7. CASE KillLoop
  <2>1. \E pc : at' = [at EXCEPT !["loop"] = pc]
    BY <1>7 DEF KillLoop, EndsRecord, WritesRecord
  <2> QED BY <1>2, <2>1
<1>8. ASSUME NEW m \in Mergers, MergeStep(m)
      PROVE  at'["check"] = at["check"]
  <2>1. m = "loop"
    BY <1>8 DEF Mergers
  <2>2. \E pc : at' = [at EXCEPT !["loop"] = pc]
    BY <1>8, <2>1 DEF MergeStep, MergeKill, MergeVerified
  <2> QED BY <1>2, <2>2
<1>9. CASE JournalWorks \/ EngageElsewhere \/ ReleaseElsewhere
  BY <1>9 DEF JournalWorks, EngageElsewhere, ReleaseElsewhere, taskVars
<1> QED BY <1>3, <1>4, <1>5, <1>6, <1>7, <1>8, <1>9 DEF Next

\* A submit is refused when the journal was engaged as its check began, however many
\* processes engage and release, and whatever the check finds in memory or is told late
\* (_check_can_trade in manager.py).
THEOREM CheckRefuses == Spec => CheckRefusesRecordedKill
<1>1. ASSUME IInv, Next, CheckPasses, mustRefuse
      PROVE  FALSE
  <2>1. Typed /\ CallInv /\ CheckInv /\ "check" \in Tasks /\ kill \in Believed
    BY <1>1, TaskNames, BelievedStates DEF IInv
  <2>2. at["check"] = "reading" /\ Answered("check") /\ Answer.ok /\ kill'.width = Off
    BY <1>1, <2>1 DEF CheckPasses, CheckInv
  <2>3. journal.width # Off
    BY <1>1, <2>1, <2>2 DEF CheckInv
  <2>4. Answer.state.width # Off /\ Answer.state \in KillStates
        /\ (kill.width = Off => kill.seq < Answer.state.seq)
    <3>1. 1 \in DOMAIN calls /\ Answer = calls[1] /\ Answer.task = "check" /\ Answer.done
          /\ Answer \in CallSet
      BY <2>1, <2>2, AnswerEndsCall
    <3> QED BY <1>1, <2>1, <2>2, <3>1 DEF CheckInv, CallSet
  <2>5. CASE CrashAndRecover
    BY <2>2, <2>3, <2>5 DEF CrashAndRecover
  <2>6. CASE MergeStep("check")
    <3>1. MergeKill("check")
      BY <2>2, <2>6 DEF MergeStep, MergeVerified
    <3>2. kill' \in {kill, IF unrecorded = Off THEN Newer(kill, Answer.state) ELSE kill}
      BY <2>2, <2>4, <3>1 DEF MergeKill
    <3>3. CASE kill.width = Off
      <4>1. unrecorded = Off
        BY <1>1, <3>3 DEF IInv, EngageInv
      <4>2. at' = [at EXCEPT !["check"] = "idle"]
        BY <1>1, <2>1, <3>1 DEF CheckPasses, MergeKill, Typed
      <4>3. kill' = Newer(kill, Answer.state)
        BY <2>1, <2>2, <2>4, <3>1, <3>3, <4>1, <4>2 DEF MergeKill, NeedsVerify, Typed
      <4> QED BY <2>2, <2>4, <3>3, <4>3 DEF Newer
    <3>4. CASE kill.width # Off
      BY <2>2, <2>4, <3>2, <3>4 DEF Newer
    <3> QED BY <3>3, <3>4
  <2>7. CASE ~CrashAndRecover /\ ~MergeStep("check")
    BY <1>1, <2>1, <2>2, <2>7, OthersLeaveCheck DEF CheckPasses, CheckCanTrade
  <2> QED BY <2>5, <2>6, <2>7
<1>2. IInv /\ [Next]_vars => [CheckPasses => ~mustRefuse]_vars
  BY <1>1
<1> QED BY <1>2, Invariance, PTL DEF Spec, CheckRefusesRecordedKill

\* While an engage is under way only this process's own release switches trading back on
\* (_merge_kill and _settle_engage in manager.py).
THEOREM EngageHoldsAgainstReads == Spec => EngageUnderWayHolds
<1> DEFINE Released == at["release"] = "releasing" /\ Answered("release") /\ Answer.ok
<1>1. ASSUME IInv, Next, Engaging', kill.width # Off, kill'.width = Off
      PROVE  Released
  <2>1. Typed /\ CallInv
    BY <1>1 DEF IInv
  <2>2. ASSUME NEW e \in Engagers, NEW width \in {Halted, Sweeping}, EngageKill(e, width)
        PROVE  FALSE
    BY <1>1, <2>2 DEF EngageKill
  <2>3. ASSUME NEW e \in Engagers, EngageStep(e)
        PROVE  FALSE
    <3>1. at[e] # "idle" /\ kill' # kill
      BY <1>1, <2>3 DEF EngageStep, SettleKill, SettleRead, SettleVerified
    <3>2. want[e] \in Widths /\ want[e] # Off
      BY <1>1, <2>1, <3>1 DEF IInv, EngageInv, Typed
    <3>3. PICK current \in Believed, pending \in BOOLEAN, rest \in {calls, Tail(calls)} :
            Decides(e, current, pending, rest)
      <4>1. e \in Tasks /\ held[e] \in Believed /\ found[e] \in Believed /\ kill \in Believed
        BY <2>1, TaskNames, BelievedStates
      <4>2. Answered(e) => Answer.state \in Believed
        BY <2>1, <4>1, AnswerEndsCall
      <4>3. CASE SettleKill(e)
        BY <3>1, <4>1, <4>3 DEF SettleKill, memoryVars
      <4>4. CASE SettleRead(e)
        <5>1. Answer.state \in Believed
          BY <4>2, <4>4 DEF SettleRead
        <5>2. Current(IF Answer.ok THEN Newer(held[e], Answer.state) ELSE held[e]) \in Believed
          BY <4>1, <5>1 DEF Current, Newer
        <5> QED BY <3>1, <4>4, <5>2 DEF SettleRead, memoryVars
      <4>5. CASE SettleVerified(e)
        <5>1. Current(IF Answer.ok THEN found[e] ELSE held[e]) \in Believed
          BY <4>1 DEF Current
        <5> QED BY <4>5, <5>1 DEF SettleVerified
      <4> QED BY <2>3, <4>3, <4>4, <4>5 DEF EngageStep
    <3>4. current \in KillStates
      BY <2>1, BelievedStates
    <3>5. CASE current.width >= want[e]
      BY <1>1, <3>2, <3>3, <3>4, <3>5 DEF Decides, KillStates, Widths, Off, Halted, Sweeping
    <3>6. CASE ~(current.width >= want[e])
      BY <1>1, <3>2, <3>3, <3>6 DEF Decides
    <3> QED BY <3>5, <3>6
  <2>4. ASSUME NEW t \in Engagers \cup {"loop"}, RecordStep(t)
        PROVE  FALSE
    <3>1. Recorded(t) /\ Answered(t) /\ at[t] = "recording" /\ kill'.width = Answer.width
      BY <1>1, <2>4 DEF RecordStep, TakesRecordLock, Recorded
    <3>2. 1 \in DOMAIN calls /\ Answer = calls[1] /\ Answer.task = t
      BY <2>1, <3>1, TaskNames, AnswerEndsCall
    <3> QED BY <1>1, <2>1, <3>1, <3>2 DEF CallInv
  <2>5. CASE StartRelease \/ ReleaseKill
    BY <1>1, <2>5 DEF StartRelease, ReleaseKill, memoryVars
  <2>6. CASE KillLoop \/ CheckCanTrade \/ JournalWorks \/ EngageElsewhere \/ ReleaseElsewhere
    BY <1>1, <2>6
       DEF KillLoop, CheckCanTrade, JournalWorks, EngageElsewhere, ReleaseElsewhere, memoryVars
  <2>7. ASSUME NEW m \in Mergers, MergeStep(m)
        PROVE  FALSE
    <3>1. m \notin Engagers /\ \E pc : at' = [at EXCEPT ![m] = pc]
      BY <2>7, TaskNames DEF MergeStep, MergeKill, MergeVerified, Mergers
    <3>2. \A e \in Engagers : at'[e] = at[e]
      BY <2>1, <3>1, TaskNames DEF Typed
    <3>3. Engaging
      BY <1>1, <3>2 DEF Engaging
    <3>4. kill' # kill /\ MergeKill(m)
      BY <1>1, <2>7, <3>3 DEF MergeStep, MergeVerified
    <3> QED BY <1>1, <3>3, <3>4 DEF MergeKill, Newer
  <2>8. CASE CrashAndRecover
    BY <1>1, <2>8, TaskNames DEF CrashAndRecover, Engaging
  <2> QED BY <1>1, <2>2, <2>3, <2>4, <2>5, <2>6, <2>7, <2>8 DEF Next
<1>2. IInv /\ [Next]_vars
        => [Engaging' /\ kill.width # Off /\ kill'.width = Off => Released]_vars
  BY <1>1
<1> QED BY <1>2, Invariance, PTL DEF Spec, EngageUnderWayHolds

\* No read of the journal lets an order past an engage (_check_can_trade, _merge_kill).
THEOREM EngagesAreBinding == Spec => EngagesBind
BY CheckRefuses, EngageHoldsAgainstReads, PTL DEF EngagesBind

-------------------------------------------------------------------------------
(***************************************************************************)
(* What an engage may count on (EngageStays).  It needs the order of the   *)
(* calls: whoever has an answer was told no more than those behind it.     *)
(***************************************************************************)
Calls == {calls[i] : i \in DOMAIN calls}

\* The answers on their way to their callers, among them the release that is on record and
\* not yet in memory, and the engage whose record memory is to take.
Answers == {c \in Calls : c.done}
Landings == {c \in Answers : c.task = "release" /\ c.ok}
Writings == {c \in Answers : at[c.task] = "recording" /\ c.ok /\ ~superseded}

\* The kill states of the journal that anyone reads or is being told, and those in hand.
Told == {journal} \cup {c.state : c \in Answers}
InHand == {kill} \cup {held[t] : t \in Tasks} \cup {found[t] : t \in Tasks}

Appended(c) == c.ok /\ c.op = "append"

\* Calls are answered in turn, later ones with later states of the journal.
InTurn(s) ==
  \A i, j \in DOMAIN s : i < j /\ s[j].done =>
    /\ s[i].done /\ s[i].state.seq <= s[j].state.seq
    /\ Appended(s[j]) => s[i].state.seq < s[j].state.seq

\* The call of task t is ahead of those of every other engage that reads.
FirstCall(t) ==
  \E i \in DOMAIN calls :
    /\ calls[i].task = t
    /\ \A j \in 1..(i - 1) : ~(calls[j].task \in Engagers /\ at[calls[j].task] = "reading")

\* The calls and their states have their types.
LEMMA CallTypes ==
  ASSUME Typed
  PROVE  /\ Calls \subseteq CallSet /\ Told \subseteq KillStates /\ InHand \subseteq KillStates
         /\ \A x \in Told \cup InHand : x \in Believed \/ x = journal
         /\ Answers \subseteq Calls
<1>1. Calls \subseteq CallSet
  BY ElementOfSeq, LenProperties DEF Typed, Calls
<1>2. \A c \in Calls : c.state \in KillStates /\ c.state \in Believed
  BY <1>1 DEF CallSet, Believed, Calls
<1> QED BY <1>1, <1>2 DEF Typed, Told, InHand, Answers, Believed

\* A step of task t takes its answer and leaves all others; what it asks the journal for
\* goes to the end of the queue, with no answer yet.
LEMMA StepMovesCalls ==
  ASSUME Typed, CallInv, NEW t \in Tasks, NEW pc \in Pcs, Requeues(t, pc)
  PROVE  /\ \A c \in Calls' :
              \/ c \in Calls /\ c.task # t
              \/ /\ c.task = t /\ ~c.done /\ pc \in Waits
                 /\ c.op = "append" <=> pc \in {"recording", "releasing"}
                 /\ pc = "recording" => c.width = unrecorded'
         /\ \A c \in Calls : c.task # t => c \in Calls'
         /\ InTurn(calls) => InTurn(calls')
         /\ \A u \in Tasks : u # t /\ FirstCall(u) => FirstCall(u)'
         /\ pc \in Waits /\ (\A u \in Engagers : u # t => at[u] # "reading") => FirstCall(t)'
<1>1. PICK rest :
        /\ Without(rest, t)
        /\ \/ pc \notin Waits /\ calls' = rest
           \/ \E op \in {"read", "verify", "append"}, width \in Widths :
                /\ pc \in Waits /\ calls' = Append(rest, Call(t, op, width))
                /\ op = "append" <=> pc \in {"recording", "releasing"}
                /\ pc = "recording" => width # Off /\ width = unrecorded'
                /\ t = "release" => op = "append" /\ width = Off
  BY DEF Requeues
<1>2. /\ calls \in Seq(CallSet) /\ Len(calls) \in Nat /\ DOMAIN calls = 1..Len(calls)
      /\ rest \in Seq(CallSet) /\ Len(rest) \in Nat /\ DOMAIN rest = 1..Len(rest)
  BY <1>1, LenProperties DEF Typed, Without
<1>3. PICK k \in {0, 1} :
        /\ Len(rest) = Len(calls) - k
        /\ \A j \in DOMAIN rest : j + k \in DOMAIN calls /\ rest[j] = calls[j + k]
        /\ \A i \in DOMAIN calls : i > k => i - k \in DOMAIN rest /\ rest[i - k] = calls[i]
        /\ k = 1 => 1 \in DOMAIN calls /\ calls[1].task = t
  <2>1. CASE rest = calls
    <3>1. /\ Len(rest) = Len(calls) - 0
          /\ \A j \in DOMAIN rest : j + 0 \in DOMAIN calls /\ rest[j] = calls[j + 0]
          /\ \A i \in DOMAIN calls : i - 0 \in DOMAIN rest /\ rest[i - 0] = calls[i]
      BY <1>2, <2>1
    <3> QED BY <3>1
  <2>2. CASE calls # <<>> /\ Head(calls).task = t /\ rest = Tail(calls)
    <3>1. /\ Len(rest) = Len(calls) - 1
          /\ \A j \in 1..Len(rest) : rest[j] = calls[j + 1]
          /\ Len(calls) > 0 /\ Head(calls) = calls[1]
      BY <1>2, <2>2, HeadTailProperties, EmptySeq
    <3>2. /\ \A j \in DOMAIN rest : j + 1 \in DOMAIN calls /\ rest[j] = calls[j + 1]
          /\ 1 \in DOMAIN calls /\ calls[1].task = t
      BY <1>2, <2>2, <3>1
    <3>3. ASSUME NEW i \in DOMAIN calls, i > 1
          PROVE  i - 1 \in DOMAIN rest /\ rest[i - 1] = calls[i]
      <4>1. i - 1 \in DOMAIN rest /\ (i - 1) + 1 = i
        BY <1>2, <3>1, <3>3
      <4> QED BY <3>2, <4>1
    <3> QED BY <3>1, <3>2, <3>3
  <2> QED BY <1>1, <2>1, <2>2 DEF Without
<1>4. /\ \A c \in Calls : c.task # t => \E j \in DOMAIN rest : rest[j] = c
      /\ \A j \in DOMAIN rest : rest[j] \in Calls /\ rest[j].task # t
  <2>1. ASSUME NEW i \in DOMAIN calls, calls[i].task # t
        PROVE  \E j \in DOMAIN rest : rest[j] = calls[i]
    <3>1. i > k
      BY <1>2, <1>3, <2>1
    <3> QED BY <1>3, <3>1
  <2>2. \A j \in DOMAIN rest : rest[j] \in Calls /\ rest[j].task # t
    BY <1>1, <1>3 DEF Calls, Without
  <2> QED BY <2>1, <2>2 DEF Calls
<1>5. InTurn(calls) => InTurn(rest)
  <2> SUFFICES ASSUME InTurn(calls), NEW i \in DOMAIN rest, NEW j \in DOMAIN rest, i < j,
                      rest[j].done
               PROVE  /\ rest[i].done /\ rest[i].state.seq <= rest[j].state.seq
                      /\ Appended(rest[j]) => rest[i].state.seq < rest[j].state.seq
    BY DEF InTurn
  <2>1. i + k \in DOMAIN calls /\ j + k \in DOMAIN calls /\ i + k < j + k
        /\ rest[i] = calls[i + k] /\ rest[j] = calls[j + k]
    BY <1>2, <1>3
  <2> QED BY <2>1 DEF InTurn
<1>f. /\ \A s \in Tasks : s # t => at'[s] = at[s]
      /\ \A j \in DOMAIN rest : rest[j].task \in Tasks
  <2>1. \A j \in DOMAIN rest : rest[j] \in CallSet
    BY <1>2, ElementOfSeq
  <2> QED BY <2>1 DEF Requeues, Typed, CallSet
<1>g. ASSUME DOMAIN rest \subseteq DOMAIN calls', \A j \in DOMAIN rest : calls'[j] = rest[j],
             NEW u \in Tasks, u # t, FirstCall(u)
      PROVE  FirstCall(u)'
  <2>1. PICK i \in DOMAIN calls :
          /\ calls[i].task = u
          /\ \A j \in 1..(i - 1) : ~(calls[j].task \in Engagers /\ at[calls[j].task] = "reading")
    BY <1>g DEF FirstCall
  <2>2. i > k
    BY <1>2, <1>3, <1>g, <2>1
  <2>3. PICK h \in DOMAIN rest : h = i - k
    BY <1>3, <2>2
  <2>4. calls'[h].task = u
    BY <1>3, <1>g, <2>1, <2>2, <2>3
  <2>5. ASSUME NEW j \in 1..(h - 1)
        PROVE  ~(calls'[j].task \in Engagers /\ at'[calls'[j].task] = "reading")
    <3>1. j \in DOMAIN rest /\ j + k \in 1..(i - 1)
      BY <1>2, <2>1, <2>3
    <3>2. calls'[j] = calls[j + k]
      BY <1>3, <1>g, <3>1
    <3>3. at'[calls'[j].task] = at[calls'[j].task]
      BY <1>4, <1>f, <1>g, <3>1
    <3> QED BY <2>1, <3>1, <3>2, <3>3
  <2> QED BY <1>g, <2>3, <2>4, <2>5 DEF FirstCall
<1>6. CASE pc \notin Waits /\ calls' = rest
  <2>1. Calls' = {rest[j] : j \in DOMAIN rest}
    BY <1>6 DEF Calls
  <2> QED BY <1>4, <1>5, <1>6, <1>g, <2>1
<1>7. ASSUME NEW op \in {"read", "verify", "append"}, NEW width \in Widths,
             pc \in Waits, calls' = Append(rest, Call(t, op, width)),
             op = "append" <=> pc \in {"recording", "releasing"},
             pc = "recording" => width = unrecorded'
      PROVE  /\ \A c \in Calls' :
                  \/ c \in Calls /\ c.task # t
                  \/ /\ c.task = t /\ ~c.done /\ pc \in Waits
                     /\ c.op = "append" <=> pc \in {"recording", "releasing"}
                     /\ pc = "recording" => c.width = unrecorded'
             /\ \A c \in Calls : c.task # t => c \in Calls'
             /\ InTurn(calls) => InTurn(calls')
             /\ \A u \in Tasks : u # t /\ FirstCall(u) => FirstCall(u)'
             /\ (\A u \in Engagers : u # t => at[u] # "reading") => FirstCall(t)'
  <2>1. PICK new \in CallSet : /\ calls' = Append(rest, new)
                              /\ new.task = t /\ new.op = op /\ new.width = width /\ ~new.done
    <3>1. Call(t, op, width) \in CallSet
      BY DEF Call, CallSet, KillStates, Widths, Off
    <3>2. /\ Call(t, op, width).task = t /\ Call(t, op, width).op = op
          /\ Call(t, op, width).width = width /\ ~Call(t, op, width).done
      BY DEF Call
    <3> QED BY <1>7, <3>1, <3>2
  <2>n. PICK n \in Nat : n = Len(rest) + 1
    BY <1>2
  <2>2. /\ DOMAIN calls' = (1..Len(rest)) \cup {n} /\ n \notin DOMAIN rest
        /\ \A i \in DOMAIN rest : calls'[i] = rest[i]
        /\ calls'[n] = new
    <3>1. /\ calls' \in Seq(CallSet) /\ Len(calls') = Len(rest) + 1
          /\ \A i \in 1..Len(rest) : calls'[i] = rest[i]
          /\ calls'[Len(rest) + 1] = new
      BY <1>2, <2>1, AppendProperties
    <3>2. DOMAIN calls' = 1..n
      BY <2>n, <3>1, LenProperties
    <3> QED BY <1>2, <2>n, <3>1, <3>2
  <2>3. \A c \in Calls' : c = new \/ \E j \in DOMAIN rest : rest[j] = c
    BY <1>2, <2>2 DEF Calls
  <2>4. \A j \in DOMAIN rest : rest[j] \in Calls' /\ rest[j] \in Calls
    BY <1>2, <1>3, <2>2 DEF Calls
  <2>5. InTurn(rest) => InTurn(calls')
    <3> SUFFICES ASSUME InTurn(rest), NEW i \in DOMAIN calls', NEW j \in DOMAIN calls', i < j,
                        calls'[j].done
                 PROVE  /\ calls'[i].done /\ calls'[i].state.seq <= calls'[j].state.seq
                        /\ Appended(calls'[j]) => calls'[i].state.seq < calls'[j].state.seq
      BY DEF InTurn
    <3>1. j # n /\ i # n
      BY <1>2, <2>1, <2>n, <2>2
    <3>2. i \in DOMAIN rest /\ j \in DOMAIN rest
      BY <1>2, <2>n, <2>2, <3>1
    <3>3. calls'[i] = rest[i] /\ calls'[j] = rest[j]
      BY <2>2, <3>2
    <3> QED BY <3>2, <3>3 DEF InTurn
  <2>6. \A u \in Tasks : u # t /\ FirstCall(u) => FirstCall(u)'
    BY <1>g, <2>2
  <2>7. ASSUME \A u \in Engagers : u # t => at[u] # "reading"
        PROVE  FirstCall(t)'
    <3>1. n \in DOMAIN calls' /\ calls'[n].task = t
      BY <2>1, <2>2
    <3>2. ASSUME NEW j \in 1..(n - 1)
          PROVE  ~(calls'[j].task \in Engagers /\ at'[calls'[j].task] = "reading")
      <4>1. j \in DOMAIN rest
        BY <1>2, <2>n
      <4> QED BY <1>4, <1>f, <2>2, <2>7, <4>1
    <3> QED BY <3>1, <3>2 DEF FirstCall
  <2> QED BY <1>4, <1>5, <1>7, <2>1, <2>3, <2>4, <2>5, <2>6, <2>7
<1> QED BY <1>1, <1>6, <1>7

\* Of the engages that read, the one whose call is ahead is answered first.
LEMMA FirstIsAnswered ==
  ASSUME Typed, NEW t \in Engagers, at[t] = "reading", Answered(t), NEW u \in Tasks, FirstCall(u)
  PROVE  u = t
<1>1. calls # <<>> /\ calls \in Seq(CallSet) /\ Len(calls) \in Nat /\ DOMAIN calls = 1..Len(calls)
  BY LenProperties DEF Answered, Typed
<1>2. Head(calls) = calls[1] /\ calls[1].task = t
  BY <1>1 DEF Answered
<1>3. PICK i \in DOMAIN calls :
        /\ calls[i].task = u
        /\ \A j \in 1..(i - 1) : ~(calls[j].task \in Engagers /\ at[calls[j].task] = "reading")
  BY DEF FirstCall
<1>4. i = 1
  <2>1. SUFFICES ASSUME i # 1 PROVE FALSE
    OBVIOUS
  <2>2. 1 \in 1..(i - 1)
    BY <1>1, <2>1
  <2> QED BY <1>2, <1>3, <2>2
<1> QED BY <1>2, <1>3, <1>4

\* What a step of task t leaves of the answers.
LEMMA StepMoves ==
  ASSUME Typed, CallInv, NEW t \in Tasks, NEW pc \in Pcs, Requeues(t, pc), journal' = journal
  PROVE  /\ at' \in [Tasks -> Pcs] /\ at'[t] = pc /\ \A s \in Tasks : s # t => at'[s] = at[s]
         /\ Answers' = {c \in Answers : c.task # t}
         /\ Landings' = {c \in Landings : c.task # t}
         /\ Told' \subseteq Told
         /\ \A c \in Writings' : /\ c \in Answers /\ c.task # t /\ at[c.task] = "recording"
                                 /\ c.ok /\ ~superseded'
<1>1. /\ \A c \in Calls' : (c \in Calls /\ c.task # t) \/ (c.task = t /\ ~c.done)
      /\ \A c \in Calls : c.task # t => c \in Calls'
  BY StepMovesCalls
<1>2. at' \in [Tasks -> Pcs] /\ at'[t] = pc /\ \A s \in Tasks : s # t => at'[s] = at[s]
  BY DEF Requeues, Typed
<1>3. Answers' = {c \in Answers : c.task # t}
  BY <1>1 DEF Answers
<1>4. Landings' = {c \in Landings : c.task # t}
  BY <1>3 DEF Landings
<1>5. Told' \subseteq Told
  BY <1>3 DEF Told
<1>6. \A c \in Answers : c.task \in Tasks
  BY CallTypes DEF CallSet
<1>7. \A c \in Writings' : c \in Answers' /\ at'[c.task] = "recording" /\ c.ok /\ ~superseded'
  BY DEF Writings
<1> QED BY <1>2, <1>3, <1>4, <1>5, <1>6, <1>7

-------------------------------------------------------------------------------
(***************************************************************************)
(* The order in which things are told and written.                         *)
(***************************************************************************)
\* One engage is written at a time: the one in memory, unless it was superseded since.
WriteInv ==
  /\ \A s, t \in Tasks : at[s] = "recording" /\ at[t] = "recording" => s = t
  /\ unrecorded # Off => kill.width = unrecorded
  /\ \A c \in Calls :
       /\ c.op = "append" <=> at[c.task] \in {"recording", "releasing"}
       /\ at[c.task] = "recording" /\ ~superseded => c.width = unrecorded
  /\ at["release"] \in {"idle", "releasing"}
  /\ at["release"] # "idle" => asked = Off
  /\ \A t \in Tasks : at[t] = "releasing" => t = "release"

\* A release that is verified is news to the one who verifies it.
VerifyInv ==
  \A t \in Tasks : at[t] = "verifying" =>
    found[t].width = Off /\ held[t].width # Off /\ found[t].seq > held[t].seq

\* The states of the journal are told in their order, one for each number, and what is in
\* hand is older than a record that is still to be told.
TellInv ==
  /\ \A x, y \in Told : x.seq = y.seq => x = y
  /\ InTurn(calls)
  /\ \A x \in InHand, c \in Answers :
       /\ x.seq <= c.state.seq
       /\ Appended(c) => x.seq < c.state.seq

\* A step of task t that takes what it was told or keeps what is in hand, and writes only
\* where nobody else does.
Orderly(t, pc) ==
  /\ Requeues(t, pc) /\ journal' = journal
  /\ \A x \in InHand' :
       (\E y \in InHand : x.seq = y.seq) \/ (Answered(t) /\ x.seq = Answer.state.seq)
  /\ unrecorded' # Off => kill'.width = unrecorded'
  /\ at'["release"] # "idle" => asked' = Off
  /\ t = "release" <=> pc = "releasing" \/ (at[t] = "releasing" /\ pc = "idle")
  /\ pc = "recording" => ~Recording
  /\ \/ superseded' \/ UNCHANGED <<superseded, unrecorded>>
     \/ \A s \in Tasks : at[s] = "recording" => s = t
  /\ \A s \in Tasks : s # t => found'[s] = found[s] /\ held'[s] = held[s]
  /\ pc = "verifying" =>
       found'[t].width = Off /\ held'[t].width # Off /\ found'[t].seq > held'[t].seq

LEMMA OrderlyKeepsWrites ==
  ASSUME IInv, WriteInv, VerifyInv, NEW t \in Tasks, NEW pc \in Pcs, Orderly(t, pc)
  PROVE  WriteInv' /\ VerifyInv'
<1>1. Typed /\ CallInv /\ Requeues(t, pc) /\ journal' = journal
  BY DEF IInv, Orderly
<1>2. at'[t] = pc /\ \A s \in Tasks : s # t => at'[s] = at[s]
  BY <1>1, StepMoves
<1>3. \A c \in Calls' :
        \/ c \in Calls /\ c.task # t
        \/ /\ c.task = t /\ pc \in Waits
           /\ c.op = "append" <=> pc \in {"recording", "releasing"}
           /\ pc = "recording" => c.width = unrecorded'
  BY <1>1, StepMovesCalls
<1>4. \A c \in Calls : c.task \in Tasks
  BY <1>1, CallTypes DEF CallSet
<1>5. ASSUME NEW r \in Tasks, NEW s \in Tasks, at'[r] = "recording", at'[s] = "recording"
      PROVE  r = s
  BY <1>2, <1>5 DEF Orderly, WriteInv, Recording
<1>6. ASSUME NEW c \in Calls'
      PROVE  /\ c.op = "append" <=> at'[c.task] \in {"recording", "releasing"}
             /\ at'[c.task] = "recording" /\ ~superseded' => c.width = unrecorded'
  <2>1. CASE c \in Calls /\ c.task # t
    <3>1. at'[c.task] = at[c.task] /\ c.task \in Tasks
      BY <1>2, <1>4, <2>1
    <3>2. c.op = "append" <=> at'[c.task] \in {"recording", "releasing"}
      BY <2>1, <3>1 DEF WriteInv
    <3>3. ASSUME at'[c.task] = "recording", ~superseded' PROVE c.width = unrecorded'
      <4>1. UNCHANGED <<superseded, unrecorded>>
        BY <2>1, <3>1, <3>3 DEF Orderly
      <4> QED BY <2>1, <3>1, <3>3, <4>1 DEF WriteInv
    <3> QED BY <3>2, <3>3
  <2>2. CASE c.task = t
    BY <1>2, <1>3, <2>2
  <2> QED BY <1>3, <2>1, <2>2
<1>7. "release" \in Tasks /\ at'["release"] \in {"idle", "releasing"}
  BY <1>2, TaskNames DEF WriteInv, Orderly
<1>8. \A s \in Tasks : at'[s] = "releasing" => s = "release"
  BY <1>2 DEF WriteInv, Orderly
<1>9. VerifyInv'
  BY <1>2 DEF VerifyInv, Orderly
<1>10. (unrecorded' # Off => kill'.width = unrecorded') /\ (at'["release"] # "idle" => asked' = Off)
  BY DEF Orderly
<1> QED BY <1>5, <1>6, <1>7, <1>8, <1>9, <1>10 DEF WriteInv

LEMMA OrderlyKeepsTelling ==
  ASSUME IInv, TellInv, NEW t \in Tasks, NEW pc \in Pcs, Orderly(t, pc)
  PROVE  TellInv'
<1>1. Typed /\ CallInv /\ Requeues(t, pc) /\ journal' = journal
  BY DEF IInv, Orderly
<1>2. Told' \subseteq Told /\ Answers' = {c \in Answers : c.task # t}
  BY <1>1, StepMoves
<1>3. InTurn(calls')
  BY <1>1, StepMovesCalls DEF TellInv
<1>4. ASSUME NEW x \in InHand', NEW c \in Answers'
      PROVE  x.seq <= c.state.seq /\ (Appended(c) => x.seq < c.state.seq)
  <2>1. CASE \E y \in InHand : x.seq = y.seq
    BY <1>2, <2>1 DEF TellInv
  <2>2. CASE Answered(t) /\ x.seq = Answer.state.seq
    <3>1. 1 \in DOMAIN calls /\ Answer = calls[1] /\ Answer.task = t /\ Answer.done
      BY <1>1, <2>2, AnswerEndsCall
    <3>2. PICK i \in DOMAIN calls : c = calls[i] /\ calls[i].done /\ calls[i].task # t
      BY <1>2 DEF Answers, Calls
    <3>3. 1 < i
      BY <1>1, <3>1, <3>2, LenProperties DEF Typed
    <3> QED BY <2>2, <3>1, <3>2, <3>3 DEF TellInv, InTurn
  <2> QED BY <2>1, <2>2 DEF Orderly
<1> QED BY <1>2, <1>3, <1>4 DEF TellInv

\* What a step leaves in hand, if memory takes nothing that is neither there nor told.
LEMMA InHandMoves ==
  ASSUME Typed, NEW t \in Tasks,
         (\E y \in InHand : kill'.seq = y.seq) \/ (Answered(t) /\ kill'.seq = Answer.state.seq),
         \A s \in Tasks :
           /\ held'[s] \in {held[s], kill}
           /\ found'[s] = found[s] \/ (Answered(t) /\ found'[s] = Answer.state)
  PROVE  \A x \in InHand' :
           (\E y \in InHand : x.seq = y.seq) \/ (Answered(t) /\ x.seq = Answer.state.seq)
  BY DEF InHand

LEMMA EngageKillMoves ==
  ASSUME IInv, WriteInv, NEW e \in Engagers, NEW width \in {Halted, Sweeping}, EngageKill(e, width)
  PROVE  /\ Orderly(e, "settling") /\ at[e] = "idle" /\ width \in Widths /\ width # Off
         /\ kill' = IF kill.width = Off THEN [width |-> width, seq |-> kill.seq] ELSE kill
         /\ \A f \in Engagers : f # e => want'[f] = want[f] /\ held'[f] = held[f]
         /\ want'[e] = width /\ held'[e] = kill /\ ready' = Append(ready, e)
         /\ UNCHANGED <<unrecorded, superseded, found>>
         /\ IF at["release"] = "idle" THEN asked' = Wider(asked, width) /\ binds' = binds
                                      ELSE binds' = Narrower(binds, Halted) /\ asked' = asked
<1>1. e \in Tasks /\ e # "release" /\ Typed /\ CallInv /\ at[e] = "idle"
  BY TaskNames DEF IInv, EngageKill
<1>2. width \in Widths /\ width # Off
  BY DEF Widths, Halted, Sweeping, Off
<1>3. Requeues(e, "settling")
  BY <1>1, NoCallToWaitFor DEF EngageKill, Requeues, Waits
<1>4. kill' = IF kill.width = Off THEN [width |-> width, seq |-> kill.seq] ELSE kill
  <2>1. CASE kill.width = Off
    <3>1. kill' = [width |-> width, seq |-> kill.seq]
      BY <1>1, <2>1 DEF EngageKill, Typed, KillStates
    <3> QED BY <2>1, <3>1
  <2>2. CASE kill.width # Off
    BY <2>2 DEF EngageKill
  <2> QED BY <2>1, <2>2
<1>5. /\ \A s \in Tasks : s # e => held'[s] = held[s]
      /\ held'[e] = kill /\ want'[e] = width
      /\ \A f \in Engagers : f # e => want'[f] = want[f]
      /\ UNCHANGED <<journal, unrecorded, superseded, found>> /\ ready' = Append(ready, e)
  BY <1>1 DEF EngageKill, Typed
<1>6. IF at["release"] = "idle" THEN asked' = Wider(asked, width) /\ binds' = binds
                                ELSE binds' = Narrower(binds, Halted) /\ asked' = asked
  BY DEF EngageKill, Asks
<1>7. at'["release"] = at["release"]
  BY <1>1, TaskNames DEF EngageKill, Typed
<1>8. unrecorded' # Off => kill'.width = unrecorded'
  BY <1>4, <1>5 DEF WriteInv, IInv, EngageInv
<1>9. \E y \in InHand : kill'.seq = y.seq
  BY <1>4 DEF InHand
<1>10. \A x \in InHand' :
         (\E y \in InHand : x.seq = y.seq) \/ (Answered(e) /\ x.seq = Answer.state.seq)
  BY <1>1, <1>5, <1>9, InHandMoves
<1>11. Orderly(e, "settling")
  BY <1>1, <1>3, <1>5, <1>6, <1>7, <1>8, <1>10 DEF Orderly, WriteInv
<1> QED BY <1>1, <1>2, <1>4, <1>5, <1>6, <1>11, TaskNames

\* The lock on the record is taken, or found to have nothing to guard any more.
LEMMA LockMoves ==
  ASSUME IInv, WriteInv, NEW t \in Engagers \cup {"loop"},
         TakesRecordLock(t) \/ (t = "loop" /\ KillLoop)
  PROVE  /\ \E pc \in {"idle", "reading", "recording", "waiting"} :
              Orderly(t, pc) /\ (pc = "reading" => t = "loop")
         /\ at[t] \in {"waiting", "idle"} /\ (t \in Engagers => at[t] = "waiting")
         /\ UNCHANGED <<kill, unrecorded, want, held, found, ready, asked, binds>>
         /\ Writings' \subseteq Writings
<1>1. t \in Tasks /\ t # "release" /\ Typed /\ CallInv /\ at[t] \in {"waiting", "idle"}
      /\ (t \in Engagers => at[t] = "waiting")
  BY TaskNames DEF IInv, TakesRecordLock, KillLoop
<1>2. Without(calls, t)
  BY <1>1, NoCallToWaitFor DEF Waits
<1>3. UNCHANGED <<journal, kill, unrecorded, want, held, found, ready, asked, binds>>
  BY DEF TakesRecordLock, KillLoop, historyVars
<1>4. \E pc \in {"idle", "reading", "recording", "waiting"} :
        /\ Requeues(t, pc) /\ (pc = "reading" => t = "loop")
        /\ pc = "recording" => ~Recording
        /\ superseded' = superseded \/ pc = "recording"
  <2>1. CASE EndsRecord(t, calls) /\ UNCHANGED superseded
    <3>1. CASE t = "loop"
      BY <1>1, <1>2, <2>1, <3>1 DEF EndsRecord, Requeues, Waits, Widths
    <3>2. CASE t # "loop"
      BY <1>1, <1>2, <2>1, <3>2 DEF EndsRecord, Requeues, Waits
    <3> QED BY <3>1, <3>2
  <2>2. CASE WritesRecord(t, calls, unrecorded) /\ unrecorded # Off /\ ~Recording
    <3>1. unrecorded \in Widths /\ unrecorded = unrecorded'
      BY <1>1, <1>3 DEF Typed
    <3>2. Requeues(t, "recording")
      BY <1>2, <2>2, <3>1, WritesRecordRequeues
    <3> QED BY <2>2, <3>2
  <2>3. CASE /\ t = "loop" /\ at' = [at EXCEPT !["loop"] = "waiting"]
             /\ UNCHANGED <<calls, superseded>>
    <3>1. Requeues(t, "waiting")
      BY <1>2, <2>3 DEF Requeues, Waits
    <3> QED BY <2>3, <3>1
  <2> QED BY <2>1, <2>2, <2>3 DEF TakesRecordLock, KillLoop
<1>5. PICK pc \in {"idle", "reading", "recording", "waiting"} :
        /\ Requeues(t, pc) /\ (pc = "reading" => t = "loop")
        /\ pc = "recording" => ~Recording
        /\ superseded' = superseded \/ pc = "recording"
  BY <1>4
<1>6. pc \in Pcs
  BY DEF Pcs
<1>7. at'["release"] = at["release"]
  BY <1>1, <1>5, TaskNames DEF Requeues, Typed
<1>8. \A x \in InHand' : \E y \in InHand : x.seq = y.seq
  BY <1>3 DEF InHand
<1>9. \/ superseded' \/ UNCHANGED <<superseded, unrecorded>>
      \/ \A s \in Tasks : at[s] = "recording" => s = t
  BY <1>3, <1>5 DEF Recording
<1>10. Orderly(t, pc)
  <2>1. unrecorded' # Off => kill'.width = unrecorded'
    BY <1>3 DEF WriteInv
  <2>2. at'["release"] # "idle" => asked' = Off
    BY <1>3, <1>7 DEF WriteInv
  <2> QED BY <1>1, <1>3, <1>5, <1>8, <1>9, <2>1, <2>2 DEF Orderly
<1>11. Writings' \subseteq Writings
  <2>1. \A c \in Writings' : /\ c \in Answers /\ c.task # t /\ at[c.task] = "recording"
                             /\ c.ok /\ ~superseded'
    BY <1>1, <1>3, <1>5, <1>6, StepMoves
  <2>2. \A c \in Answers : c.task \in Tasks
    BY <1>1, CallTypes DEF CallSet
  <2> QED BY <1>5, <2>1, <2>2 DEF Writings, Recording
<1> QED BY <1>1, <1>3, <1>5, <1>10, <1>11

\* The answer to a record: memory takes it, unless it failed or was superseded.
LEMMA RecordedMoves ==
  ASSUME IInv, WriteInv, NEW t \in Engagers \cup {"loop"}, Recorded(t)
  PROVE  /\ \E pc \in {"idle", "reading"} : Orderly(t, pc) /\ (pc = "reading" => t = "loop")
         /\ at[t] = "recording" /\ Writings' \subseteq Writings
         /\ UNCHANGED <<want, held, found, ready, asked, binds>>
         /\ \/ /\ Answer \in Writings /\ Writings' = {}
               /\ kill' = [width |-> Answer.width, seq |-> Answer.state.seq] /\ unrecorded' = Off
               /\ Answer.width = unrecorded
            \/ UNCHANGED <<kill, unrecorded>>
<1>1. t \in Tasks /\ t # "release" /\ Typed /\ CallInv /\ at[t] = "recording" /\ Answered(t)
  BY TaskNames DEF IInv, Recorded
<1>2. /\ Without(Tail(calls), t) /\ 1 \in DOMAIN calls /\ Answer = calls[1] /\ Answer.task = t
      /\ Answer.done
  BY <1>1, AnswerEndsCall
<1>3. UNCHANGED <<journal, superseded, want, held, found, ready, asked, binds>>
  BY DEF Recorded, historyVars
<1>4. PICK pc \in {"idle", "reading"} : Requeues(t, pc) /\ (pc = "reading" => t = "loop")
  <2>1. CASE t = "loop"
    BY <1>1, <1>2, <2>1 DEF Recorded, EndsRecord, Requeues, Waits, Widths
  <2>2. CASE t # "loop"
    BY <1>1, <1>2, <2>2 DEF Recorded, EndsRecord, Requeues, Waits
  <2> QED BY <2>1, <2>2
<1>5. pc \in Pcs
  BY DEF Pcs
<1>6. \A c \in Answers : c.task \in Tasks
  BY <1>1, CallTypes DEF CallSet
<1>7. \A c \in Writings' : /\ c \in Answers /\ c.task # t /\ at[c.task] = "recording"
                           /\ c.ok /\ ~superseded'
  BY <1>1, <1>3, <1>4, <1>5, StepMoves
<1>8. Writings' = {}
  BY <1>1, <1>6, <1>7 DEF WriteInv
<1>9. \/ /\ Answer \in Writings
         /\ kill' = [width |-> Answer.width, seq |-> Answer.state.seq] /\ unrecorded' = Off
         /\ Answer.width = unrecorded
      \/ UNCHANGED <<kill, unrecorded>>
  <2>1. CASE /\ Answer.ok /\ ~superseded /\ unrecorded' = Off
             /\ kill' = [width |-> Answer.width, seq |-> Answer.state.seq]
    <3>1. Answer \in Calls /\ Answer \in Writings
      BY <1>1, <1>2, <2>1 DEF Calls, Answers, Writings
    <3> QED BY <1>1, <1>2, <2>1, <3>1 DEF WriteInv
  <2>2. CASE UNCHANGED <<kill, unrecorded>>
    BY <2>2
  <2> QED BY <2>1, <2>2 DEF Recorded
<1>10. at'["release"] = at["release"]
  BY <1>1, <1>4, TaskNames DEF Requeues, Typed
<1>11. \A x \in InHand' :
         (\E y \in InHand : x.seq = y.seq) \/ (Answered(t) /\ x.seq = Answer.state.seq)
  <2>1. (\E y \in InHand : kill'.seq = y.seq) \/ (Answered(t) /\ kill'.seq = Answer.state.seq)
    BY <1>1, <1>9 DEF InHand
  <2> QED BY <1>1, <1>3, <2>1, InHandMoves
<1>12. Orderly(t, pc)
  <2>1. unrecorded' # Off => kill'.width = unrecorded'
    BY <1>9 DEF WriteInv
  <2>2. at'["release"] # "idle" => asked' = Off
    BY <1>3, <1>10 DEF WriteInv
  <2>3. \A s \in Tasks : at[s] = "recording" => s = t
    BY <1>1 DEF WriteInv
  <2> QED BY <1>1, <1>3, <1>4, <1>11, <2>1, <2>2, <2>3 DEF Orderly
<1> QED BY <1>1, <1>3, <1>4, <1>8, <1>9, <1>12

\* A release by this process: on record first, and then in memory.
LEMMA StartReleaseMoves ==
  ASSUME IInv, WriteInv, StartRelease
  PROVE  /\ Orderly("release", "releasing") /\ asked' = Off
         /\ UNCHANGED <<kill, unrecorded, superseded, want, held, found, ready, binds>>
         /\ Landings = {} /\ Landings' = {} /\ Writings' \subseteq Writings
<1>1. "release" \in Tasks /\ Typed /\ CallInv /\ at["release"] = "idle"
  BY TaskNames DEF IInv, StartRelease
<1>2. Requeues("release", "releasing")
  BY <1>1, NoCallToWaitFor DEF StartRelease, Requeues, Waits, Widths
<1>3. /\ UNCHANGED <<journal, kill, unrecorded, superseded, want, held, found, ready, binds>>
      /\ asked' = Off
  BY DEF StartRelease, Forgets, memoryVars
<1>4. \A x \in InHand' : \E y \in InHand : x.seq = y.seq
  BY <1>3 DEF InHand
<1>5. Orderly("release", "releasing")
  BY <1>1, <1>2, <1>3, <1>4 DEF Orderly, WriteInv
<1>6. \A c \in Calls : at[c.task] \in Waits
  BY <1>1 DEF CallInv, Calls
<1>7. Landings = {}
  BY <1>1, <1>6 DEF Landings, Answers, Waits
<1>8. Landings' = {} /\ Writings' \subseteq Writings
  <2>1. /\ Landings' \subseteq Landings
        /\ \A c \in Writings' : /\ c \in Answers /\ at[c.task] = "recording" /\ c.ok /\ ~superseded'
    BY <1>1, <1>2, <1>3, StepMoves DEF Pcs
  <2> QED BY <1>3, <1>7, <2>1 DEF Writings
<1> QED BY <1>3, <1>5, <1>7, <1>8

LEMMA ReleaseKillMoves ==
  ASSUME IInv, WriteInv, ReleaseKill
  PROVE  /\ Orderly("release", "idle") /\ asked = Off /\ asked' = Off
         /\ UNCHANGED <<want, held, found, ready, binds>>
         /\ Landings' = {} /\ Writings' \subseteq Writings
         /\ \/ /\ Answer \in Landings /\ kill' = Answer.state /\ Answer.state.width = Off
               /\ Appended(Answer) /\ unrecorded' = Off /\ Writings' = {}
            \/ Landings = {} /\ UNCHANGED <<kill, unrecorded>>
<1>1. /\ "release" \in Tasks /\ Typed /\ CallInv /\ at["release"] = "releasing"
      /\ Answered("release")
  BY TaskNames DEF IInv, ReleaseKill
<1>2. /\ Without(Tail(calls), "release") /\ 1 \in DOMAIN calls /\ Answer = calls[1]
      /\ Answer.task = "release" /\ Answer.done /\ Answer \in CallSet
  BY <1>1, AnswerEndsCall
<1>3. Requeues("release", "idle")
  BY <1>1, <1>2 DEF ReleaseKill, Requeues, Waits
<1>4. UNCHANGED <<journal, want, held, found, ready, asked, binds>> /\ asked = Off
  BY <1>1 DEF ReleaseKill, historyVars, WriteInv
<1>5. \A c \in Landings : c = Answer
  BY <1>1, <1>2 DEF Landings, Answers, Calls, CallInv
<1>6. \/ /\ Answer \in Landings /\ kill' = Answer.state /\ Answer.state.width = Off
         /\ Appended(Answer) /\ unrecorded' = Off /\ superseded' = TRUE
      \/ Landings = {} /\ UNCHANGED <<kill, unrecorded, superseded>>
  <2>1. CASE Answer.ok
    <3>1. Answer.state.width = Off /\ Answer.state \in KillStates /\ Answer.op = "append"
      BY <1>1, <1>2, <2>1 DEF CallInv, CallSet
    <3>2. kill' = Answer.state
      BY <2>1, <3>1 DEF ReleaseKill, KillStates
    <3> QED BY <1>2, <2>1, <3>1, <3>2 DEF ReleaseKill, Landings, Answers, Calls, Appended
  <2>2. CASE ~Answer.ok
    BY <1>5, <2>2 DEF ReleaseKill, Landings
  <2> QED BY <2>1, <2>2
<1>7. /\ Landings' = {c \in Landings : c.task # "release"}
      /\ \A c \in Writings' : /\ c \in Answers /\ at[c.task] = "recording" /\ c.ok /\ ~superseded'
  BY <1>1, <1>3, <1>4, StepMoves DEF Pcs
<1>8. Landings' = {} /\ Writings' \subseteq Writings /\ (superseded' => Writings' = {})
  BY <1>6, <1>7 DEF Landings, Writings
<1>9. \A x \in InHand' :
        (\E y \in InHand : x.seq = y.seq) \/ (Answered("release") /\ x.seq = Answer.state.seq)
  <2>1. (\E y \in InHand : kill'.seq = y.seq) \/ kill'.seq = Answer.state.seq
    BY <1>6 DEF InHand
  <2> QED BY <1>1, <1>4, <2>1, InHandMoves
<1>10. Orderly("release", "idle")
  <2>1. at'["release"] = "idle"
    BY <1>1, <1>3 DEF Requeues, Typed
  <2>2. unrecorded' # Off => kill'.width = unrecorded'
    BY <1>6 DEF WriteInv
  <2> QED BY <1>1, <1>3, <1>4, <1>6, <1>9, <2>1, <2>2 DEF Orderly
<1> QED BY <1>4, <1>6, <1>8, <1>10

\* A check and the kill loop read the journal, verify a release, or adopt what they read.
LEMMA CheckCanTradeMoves ==
  ASSUME IInv, WriteInv, CheckCanTrade
  PROVE  /\ Orderly("check", "reading") /\ at["check"] = "idle"
         /\ UNCHANGED <<kill, unrecorded, want, held, found, ready, asked, binds>>
         /\ Writings' \subseteq Writings
<1>1. "check" \in Tasks /\ "check" # "release" /\ Typed /\ CallInv /\ at["check"] = "idle"
  BY TaskNames DEF IInv, CheckCanTrade
<1>2. Requeues("check", "reading")
  BY <1>1, NoCallToWaitFor DEF CheckCanTrade, Requeues, Waits, Widths
<1>3. UNCHANGED <<journal, kill, unrecorded, superseded, want, held, found, ready, asked, binds>>
  BY DEF CheckCanTrade, memoryVars
<1>4. \A x \in InHand' : \E y \in InHand : x.seq = y.seq
  BY <1>3 DEF InHand
<1>5. at'["release"] = at["release"]
  BY <1>1, <1>2, TaskNames DEF Requeues, Typed
<1>6. Orderly("check", "reading")
  BY <1>1, <1>2, <1>3, <1>4, <1>5 DEF Orderly, WriteInv
<1>7. Writings' \subseteq Writings
  <2>1. \A c \in Writings' : /\ c \in Answers /\ at[c.task] = "recording" /\ c.ok /\ ~superseded'
    BY <1>1, <1>2, <1>3, StepMoves DEF Pcs
  <2> QED BY <1>3, <2>1 DEF Writings
<1> QED BY <1>1, <1>3, <1>6, <1>7

LEMMA MergeMoves ==
  ASSUME IInv, WriteInv, NEW m \in Mergers, MergeStep(m)
  PROVE  /\ \E pc \in {"idle", "verifying"} :
              /\ Orderly(m, pc)
              /\ pc = "verifying" => found'[m] \in Told /\ UNCHANGED kill
         /\ at[m] \in {"reading", "verifying"} /\ m \notin Engagers
         /\ UNCHANGED <<unrecorded, want, ready, asked, binds>>
         /\ \A e \in Engagers : held'[e] = held[e]
         /\ Writings' \subseteq Writings
         /\ \/ UNCHANGED kill
            \/ /\ kill' \in Told /\ unrecorded = Off /\ ~(Engaging /\ kill'.width = Off)
               /\ ~NeedsVerify(kill, kill')
               /\ \/ kill'.seq > kill.seq
                  \/ kill'.seq = kill.seq /\ kill'.width = Sweeping /\ kill.width # Sweeping
            \/ /\ at[m] = "verifying" /\ kill = held[m] /\ kill' = found[m]
               /\ unrecorded = Off /\ ~Engaging
<1>1. m \in Tasks /\ m # "release" /\ m \notin Engagers /\ Typed /\ CallInv
  BY TaskNames DEF IInv, Mergers
<1>2. Answered(m) /\ at[m] \in {"reading", "verifying"}
  BY DEF MergeStep, MergeKill, MergeVerified
<1>3. /\ Without(Tail(calls), m) /\ 1 \in DOMAIN calls /\ Answer = calls[1]
      /\ Answer.task = m /\ Answer.done
  BY <1>1, <1>2, AnswerEndsCall
<1>4. Answer.state \in Told
  BY <1>3 DEF Told, Answers, Calls
<1>5. /\ UNCHANGED <<journal, unrecorded, superseded, want, ready, asked, binds>>
      /\ \A s \in Tasks : s # m => held'[s] = held[s] /\ found'[s] = found[s]
  BY <1>1 DEF MergeStep, MergeKill, MergeVerified, historyVars, Typed
<1>6. \/ /\ Requeues(m, "verifying") /\ kill' = kill /\ held'[m] = kill /\ found'[m] = Answer.state
         /\ NeedsVerify(kill, Answer.state)
      \/ /\ Requeues(m, "idle") /\ held' = held /\ found' = found
         /\ \/ UNCHANGED kill
            \/ /\ kill' = Answer.state /\ unrecorded = Off /\ ~(Engaging /\ kill'.width = Off)
               /\ ~NeedsVerify(kill, kill')
               /\ \/ kill'.seq > kill.seq
                  \/ kill'.seq = kill.seq /\ kill'.width = Sweeping /\ kill.width # Sweeping
            \/ /\ at[m] = "verifying" /\ kill = held[m] /\ kill' = found[m]
               /\ unrecorded = Off /\ ~Engaging
  <2>1. CASE MergeVerified(m)
    <3>1. Requeues(m, "idle")
      BY <1>1, <1>3, <2>1 DEF MergeVerified, Requeues, Waits
    <3> QED BY <2>1, <3>1 DEF MergeVerified
  <2>2. CASE MergeKill(m)
    <3> DEFINE believed == Answer.ok /\ unrecorded = Off /\ ~(Engaging /\ Answer.state.width = Off)
    <3>1. CASE believed /\ NeedsVerify(kill, Answer.state)
      <4>1. Requeues(m, "verifying")
        BY <1>1, <1>3, <2>2, <3>1 DEF MergeKill, Requeues, Waits, Widths
      <4> QED BY <1>1, <2>2, <3>1, <4>1 DEF MergeKill, Typed
    <3>2. CASE ~(believed /\ NeedsVerify(kill, Answer.state))
      <4>1. Requeues(m, "idle")
        BY <1>1, <1>3, <2>2, <3>2 DEF MergeKill, Requeues, Waits
      <4>2. /\ held' = held /\ found' = found
            /\ kill' = IF believed THEN Newer(kill, Answer.state) ELSE kill
        BY <2>2, <3>2 DEF MergeKill
      <4> QED BY <3>2, <4>1, <4>2 DEF Newer
    <3> QED BY <3>1, <3>2
  <2> QED BY <2>1, <2>2 DEF MergeStep
<1>7. PICK pc \in {"idle", "verifying"} :
        /\ Requeues(m, pc)
        /\ pc = "verifying" => /\ kill' = kill /\ held'[m] = kill /\ found'[m] = Answer.state
                               /\ NeedsVerify(kill, Answer.state)
        /\ pc = "idle" => held' = held /\ found' = found
  BY <1>6
<1>8. pc \in Pcs
  BY DEF Pcs
<1>9. \A x \in InHand' :
        (\E y \in InHand : x.seq = y.seq) \/ (Answered(m) /\ x.seq = Answer.state.seq)
  <2>1. (\E y \in InHand : kill'.seq = y.seq) \/ (Answered(m) /\ kill'.seq = Answer.state.seq)
    BY <1>1, <1>2, <1>6 DEF InHand
  <2>2. \A s \in Tasks : /\ held'[s] \in {held[s], kill}
                         /\ found'[s] = found[s] \/ (Answered(m) /\ found'[s] = Answer.state)
    BY <1>2, <1>5, <1>7
  <2> QED BY <1>1, <2>1, <2>2, InHandMoves
<1>10. at'["release"] = at["release"]
  BY <1>1, <1>7, TaskNames DEF Requeues, Typed
<1>11. Orderly(m, pc)
  <2>1. unrecorded' # Off => kill'.width = unrecorded'
    BY <1>5, <1>6 DEF WriteInv
  <2>2. at'["release"] # "idle" => asked' = Off
    BY <1>5, <1>10 DEF WriteInv
  <2> QED BY <1>1, <1>2, <1>5, <1>7, <1>9, <2>1, <2>2 DEF Orderly, NeedsVerify
<1>12. Writings' \subseteq Writings
  <2>1. \A c \in Writings' : /\ c \in Answers /\ at[c.task] = "recording" /\ c.ok /\ ~superseded'
    BY <1>1, <1>5, <1>7, <1>8, StepMoves
  <2> QED BY <1>5, <2>1 DEF Writings
<1>13. \A e \in Engagers : held'[e] = held[e]
  BY <1>1, <1>5, TaskNames
<1> QED BY <1>1, <1>2, <1>4, <1>5, <1>6, <1>7, <1>11, <1>12, <1>13

\* An engage reads the journal, verifies a release, or judges: against memory, against what
\* it set out from, or against what it was told.
JudgesFrom(e, current, pending) ==
  IF pending
  THEN /\ at[e] = "settling" /\ unrecorded # Off /\ current = held[e]
       /\ Head(ready) = e /\ ready' = Tail(ready)
  ELSE /\ at[e] \in {"reading", "verifying"} /\ Answered(e) /\ ready' = ready
       /\ \/ current = kill /\ (unrecorded # Off \/ held[e].seq < kill.seq)
          \/ /\ unrecorded = Off /\ kill.seq <= current.seq
             /\ \/ current = held[e]
                \/ at[e] = "verifying" /\ current = found[e]
                \/ /\ at[e] = "reading" /\ current = Answer.state
                   /\ ~NeedsVerify(held[e], current)
                   /\ \/ held[e].seq < current.seq
                      \/ /\ held[e].seq = current.seq
                         /\ current.width = Sweeping /\ held[e].width # Sweeping

\* What is there is enough, or the engage goes to be recorded.
Judges(e, current, pending) ==
  \/ /\ current.width >= want[e]
     /\ kill' = (IF pending THEN kill ELSE current) /\ UNCHANGED unrecorded
     /\ Writings' \subseteq Writings
  \/ /\ ~(current.width >= want[e])
     /\ kill' = [width |-> want[e], seq |-> current.seq] /\ unrecorded' = want[e]
     /\ Writings' = {}

LEMMA DecidesMoves ==
  ASSUME IInv, WriteInv, NEW e \in Engagers, NEW current, NEW pending \in BOOLEAN,
         JudgesFrom(e, current, pending), NEW rest \in {calls, Tail(calls)}, Without(rest, e),
         Decides(e, current, pending, rest), UNCHANGED found
  PROVE  /\ \E pc \in {"idle", "waiting", "recording"} : Orderly(e, pc)
         /\ Judges(e, current, pending)
         /\ UNCHANGED <<want, held, found, asked, binds>>
<1>1. /\ e \in Tasks /\ e # "release" /\ Typed /\ CallInv
      /\ at[e] \in {"settling", "reading", "verifying"}
  BY TaskNames DEF IInv, JudgesFrom
<1>2. UNCHANGED <<journal, want, held, found, asked, binds>>
  BY DEF Decides, historyVars
<1>3. (\E y \in InHand : current.seq = y.seq) \/ (Answered(e) /\ current.seq = Answer.state.seq)
  <2>1. kill \in InHand /\ held[e] \in InHand /\ found[e] \in InHand
    BY <1>1 DEF InHand
  <2> QED BY <2>1 DEF JudgesFrom
<1>4. want[e] # Off /\ want[e] \in Widths
  BY <1>1 DEF IInv, EngageInv, Typed
<1>5. CASE current.width >= want[e]
  <2>1. /\ kill' = (IF pending THEN kill ELSE current) /\ UNCHANGED <<unrecorded, superseded>>
        /\ at' = [at EXCEPT ![e] = "idle"] /\ calls' = rest
    BY <1>5 DEF Decides
  <2>2. Requeues(e, "idle")
    BY <2>1 DEF Requeues, Waits
  <2>3. unrecorded' # Off => kill'.width = unrecorded'
    BY <2>1 DEF WriteInv, JudgesFrom
  <2>4. (\E y \in InHand : kill'.seq = y.seq) \/ (Answered(e) /\ kill'.seq = Answer.state.seq)
    BY <1>3, <2>1 DEF InHand
  <2>5. \A x \in InHand' :
          (\E y \in InHand : x.seq = y.seq) \/ (Answered(e) /\ x.seq = Answer.state.seq)
    BY <1>1, <1>2, <2>4, InHandMoves
  <2>6. at'["release"] = at["release"]
    BY <1>1, <2>1, TaskNames DEF Typed
  <2>7. Orderly(e, "idle")
    BY <1>1, <1>2, <2>1, <2>2, <2>3, <2>5, <2>6 DEF Orderly, WriteInv
  <2>8. Writings' \subseteq Writings
    <3>1. \A c \in Writings' : /\ c \in Answers /\ at[c.task] = "recording" /\ c.ok /\ ~superseded'
      BY <1>1, <1>2, <2>2, StepMoves DEF Pcs
    <3> QED BY <2>1, <3>1 DEF Writings
  <2> QED BY <1>2, <1>5, <2>1, <2>7, <2>8 DEF Judges
<1>6. CASE ~(current.width >= want[e])
  <2>1. kill' = [width |-> want[e], seq |-> current.seq] /\ unrecorded' = want[e]
    BY <1>6 DEF Decides
  <2>2. PICK pc \in {"waiting", "recording"} :
          /\ Requeues(e, pc)
          /\ pc = "recording" => ~Recording
          /\ superseded' \/ ~Recording
    <3>1. CASE Recording
      BY <1>1, <1>6, <3>1 DEF Decides, Requeues, Waits
    <3>2. CASE ~Recording
      BY <1>4, <1>6, <2>1, <3>2, WritesRecordRequeues DEF Decides
    <3> QED BY <3>1, <3>2
  <2>3. (\E y \in InHand : kill'.seq = y.seq) \/ (Answered(e) /\ kill'.seq = Answer.state.seq)
    BY <1>3, <2>1
  <2>4. \A x \in InHand' :
          (\E y \in InHand : x.seq = y.seq) \/ (Answered(e) /\ x.seq = Answer.state.seq)
    BY <1>1, <1>2, <2>3, InHandMoves
  <2>5. at'["release"] = at["release"]
    BY <1>1, <2>2, TaskNames DEF Requeues, Typed
  <2>6. Orderly(e, pc)
    <3>1. superseded' \/ \A s \in Tasks : at[s] # "recording"
      BY <2>2 DEF Recording
    <3>2. at'["release"] # "idle" => asked' = Off
      BY <1>2, <2>5 DEF WriteInv
    <3> QED BY <1>1, <1>2, <2>1, <2>2, <2>4, <3>1, <3>2 DEF Orderly
  <2>7. Writings' = {}
    <3>1. /\ pc \in Pcs
          /\ \A c \in Answers : c.task \in Tasks
      BY <1>1, CallTypes DEF CallSet, Pcs
    <3>2. \A c \in Writings' : /\ c \in Answers /\ at[c.task] = "recording" /\ ~superseded'
      BY <1>1, <1>2, <2>2, <3>1, StepMoves
    <3> QED BY <2>2, <3>1, <3>2 DEF Recording
  <2> QED BY <1>2, <1>6, <2>1, <2>2, <2>6, <2>7 DEF Judges
<1> QED BY <1>5, <1>6

LEMMA EngageStepMoves ==
  ASSUME IInv, WriteInv, VerifyInv, NEW e \in Engagers, EngageStep(e)
  PROVE  /\ UNCHANGED <<want, held, asked, binds>>
         /\ \A m \in Mergers : found'[m] = found[m]
         /\ \/ /\ at[e] = "settling" /\ Orderly(e, "reading") /\ unrecorded = Off
               /\ Head(ready) = e /\ ready' = Tail(ready)
               /\ UNCHANGED <<kill, unrecorded>> /\ Writings' \subseteq Writings
            \/ /\ at[e] = "reading" /\ Orderly(e, "verifying") /\ ready' = ready
               /\ Answered(e) /\ NeedsVerify(held[e], Answer.state)
               /\ UNCHANGED <<kill, unrecorded>> /\ Writings' \subseteq Writings
            \/ \E pc \in {"idle", "waiting", "recording"}, pending \in BOOLEAN,
               current \in KillStates :
                 Orderly(e, pc) /\ JudgesFrom(e, current, pending) /\ Judges(e, current, pending)
<1>1. /\ e \in Tasks /\ e # "release" /\ Typed /\ CallInv /\ at["release"] \in {"idle", "releasing"}
      /\ kill \in KillStates /\ held[e] \in KillStates /\ found[e] \in KillStates
  BY TaskNames DEF IInv, Typed, WriteInv
<1>2. ASSUME NEW pc \in {"reading", "verifying"}, Requeues(e, pc), at[e] # "recording",
             UNCHANGED <<journal, memoryVars, want, held, asked, binds>>,
             \A s \in Tasks : s # e => found'[s] = found[s],
             found'[e] = found[e] \/ (Answered(e) /\ found'[e] = Answer.state),
             pc = "verifying" =>
               found'[e].width = Off /\ held[e].width # Off /\ found'[e].seq > held[e].seq
      PROVE  Orderly(e, pc) /\ Writings' \subseteq Writings
  <2>1. UNCHANGED <<journal, kill, unrecorded, superseded, want, held, asked, binds>>
    BY <1>2 DEF memoryVars
  <2>2. \A x \in InHand' :
          (\E y \in InHand : x.seq = y.seq) \/ (Answered(e) /\ x.seq = Answer.state.seq)
    <3>1. \E y \in InHand : kill'.seq = y.seq
      BY <2>1 DEF InHand
    <3> QED BY <1>1, <1>2, <2>1, <3>1, InHandMoves
  <2>3. at'["release"] = at["release"]
    BY <1>1, <1>2, TaskNames DEF Requeues, Typed
  <2>4. Orderly(e, pc)
    <3>1. unrecorded' # Off => kill'.width = unrecorded'
      BY <2>1 DEF WriteInv
    <3>2. at'["release"] # "idle" => asked' = Off
      BY <2>1, <2>3 DEF WriteInv
    <3>3. at[e] # "releasing"
      BY <1>1 DEF WriteInv
    <3> QED BY <1>1, <1>2, <2>1, <2>2, <3>1, <3>2, <3>3 DEF Orderly
  <2>5. Writings' \subseteq Writings
    <3>1. \A c \in Writings' : /\ c \in Answers /\ at[c.task] = "recording" /\ c.ok /\ ~superseded'
      BY <1>1, <1>2, <2>1, StepMoves DEF Pcs
    <3> QED BY <2>1, <3>1 DEF Writings
  <2> QED BY <2>4, <2>5
<1>3. ASSUME NEW current \in KillStates, NEW pending \in BOOLEAN,
             JudgesFrom(e, current, pending), NEW rest \in {calls, Tail(calls)}, Without(rest, e),
             Decides(e, current, pending, rest), UNCHANGED found
      PROVE  /\ UNCHANGED <<want, held, asked, binds, found>>
             /\ \E pc \in {"idle", "waiting", "recording"} :
                  Orderly(e, pc) /\ JudgesFrom(e, current, pending) /\ Judges(e, current, pending)
  BY <1>3, DecidesMoves
<1>4. \A m \in Mergers : m \in Tasks /\ m # e
  BY TaskNames, EngagersAreTasks DEF Mergers
<1>5. ASSUME Answered(e)
      PROVE  /\ Without(Tail(calls), e) /\ Answer.state \in KillStates
  <2>1. Answer \in CallSet
    BY <1>1, <1>5, AnswerEndsCall
  <2> QED BY <1>1, <1>5, <2>1, AnswerEndsCall DEF CallSet
<1>6. CASE SettleKill(e)
  <2>1. at[e] = "settling" /\ Without(calls, e) /\ UNCHANGED found
    BY <1>1, <1>6, NoCallToWaitFor DEF SettleKill, Waits
  <2>2. CASE unrecorded # Off
    <3>1. JudgesFrom(e, held[e], TRUE) /\ Decides(e, held[e], TRUE, calls)
      BY <1>6, <2>2 DEF SettleKill, JudgesFrom
    <3> QED BY <1>1, <1>3, <2>1, <3>1
  <2>3. CASE unrecorded = Off
    <3>1. Requeues(e, "reading")
      BY <1>1, <1>6, <2>1, <2>3 DEF SettleKill, Requeues, Waits, Widths
    <3>2. UNCHANGED <<journal, memoryVars, want, held, asked, binds>>
      BY <1>6, <2>3 DEF SettleKill, historyVars
    <3>3. Orderly(e, "reading") /\ Writings' \subseteq Writings
      BY <1>2, <2>1, <3>1, <3>2
    <3> QED BY <1>6, <2>1, <2>3, <3>2, <3>3 DEF SettleKill, memoryVars
  <2> QED BY <2>2, <2>3
<1>7. CASE SettleRead(e)
  <2>1. at[e] = "reading" /\ Answered(e)
    BY <1>7 DEF SettleRead
  <2>2. CASE Answer.ok /\ NeedsVerify(held[e], Answer.state)
    <3>1. Requeues(e, "verifying")
      BY <1>1, <1>5, <1>7, <2>1, <2>2 DEF SettleRead, Requeues, Waits, Widths
    <3>2. UNCHANGED <<journal, memoryVars, want, held, ready, asked, binds>>
      BY <1>7, <2>2 DEF SettleRead, historyVars
    <3>3. /\ found'[e] = Answer.state
          /\ \A s \in Tasks : s # e => found'[s] = found[s]
      BY <1>1, <1>7, <2>2 DEF SettleRead, Typed
    <3>4. found'[e].width = Off /\ held[e].width # Off /\ found'[e].seq > held[e].seq
      BY <2>2, <3>3 DEF NeedsVerify
    <3>5. Orderly(e, "verifying") /\ Writings' \subseteq Writings
      BY <1>2, <2>1, <3>1, <3>2, <3>3, <3>4
    <3> QED BY <1>4, <2>1, <2>2, <3>2, <3>3, <3>5 DEF memoryVars
  <2>3. CASE ~(Answer.ok /\ NeedsVerify(held[e], Answer.state))
    <3>1. PICK base \in KillStates :
            /\ base = IF Answer.ok THEN Newer(held[e], Answer.state) ELSE held[e]
      BY <1>1, <1>5, <2>1 DEF Newer
    <3>2. PICK current \in KillStates : current = Current(base)
      BY <1>1, <3>1 DEF Current
    <3>3. /\ Decides(e, current, FALSE, Tail(calls)) /\ UNCHANGED <<found, ready>>
      BY <1>7, <2>3, <3>1, <3>2 DEF SettleRead
    <3>4. \/ base = held[e]
          \/ /\ base = Answer.state /\ ~NeedsVerify(held[e], base)
             /\ \/ held[e].seq < base.seq
                \/ /\ held[e].seq = base.seq
                   /\ base.width = Sweeping /\ held[e].width # Sweeping
      BY <1>1, <1>5, <2>1, <2>3, <3>1 DEF Newer, KillStates
    <3>5. JudgesFrom(e, current, FALSE)
      <4>1. held[e].seq <= base.seq /\ kill.seq \in Nat /\ base.seq \in Nat /\ held[e].seq \in Nat
        BY <1>1, <3>1, <3>4 DEF KillStates
      <4>2. CASE unrecorded # Off \/ kill.seq > base.seq
        BY <2>1, <3>2, <3>3, <4>1, <4>2 DEF JudgesFrom, Current
      <4>3. CASE ~(unrecorded # Off \/ kill.seq > base.seq)
        BY <2>1, <3>2, <3>3, <3>4, <4>1, <4>3 DEF JudgesFrom, Current
      <4> QED BY <4>2, <4>3
    <3> QED BY <1>3, <1>5, <2>1, <3>3, <3>5
  <2> QED BY <2>2, <2>3
<1>8. CASE SettleVerified(e)
  <2>1. at[e] = "verifying" /\ Answered(e) /\ found[e].seq > held[e].seq
    BY <1>1, <1>8 DEF SettleVerified, VerifyInv
  <2>2. PICK base \in {held[e], found[e]} : base = IF Answer.ok THEN found[e] ELSE held[e]
    OBVIOUS
  <2>3. PICK current \in KillStates : current = Current(base)
    BY <1>1, <2>2 DEF Current
  <2>4. Decides(e, current, FALSE, Tail(calls)) /\ UNCHANGED <<found, ready>>
    BY <1>8, <2>2, <2>3 DEF SettleVerified
  <2>5. JudgesFrom(e, current, FALSE)
    <3>1. kill.seq \in Nat /\ base.seq \in Nat /\ held[e].seq \in Nat /\ held[e].seq <= base.seq
      BY <1>1, <2>1, <2>2 DEF KillStates
    <3>2. CASE unrecorded # Off \/ kill.seq > base.seq
      BY <2>1, <2>3, <2>4, <3>1, <3>2 DEF JudgesFrom, Current
    <3>3. CASE ~(unrecorded # Off \/ kill.seq > base.seq)
      BY <2>1, <2>2, <2>3, <2>4, <3>1, <3>3 DEF JudgesFrom, Current
    <3> QED BY <3>2, <3>3
  <2> QED BY <1>3, <1>5, <2>1, <2>4, <2>5
<1> QED BY <1>6, <1>7, <1>8 DEF EngageStep

-------------------------------------------------------------------------------
(***************************************************************************)
(* The engages that are under way, and the steps that leave them alone.    *)
(***************************************************************************)
\* The loop starts the engages in the order in which they came in.
ReadyInv ==
  /\ ready \in Seq(Engagers)
  /\ \A i, j \in DOMAIN ready : ready[i] = ready[j] => i = j
  /\ \A e \in Engagers : at[e] = "settling" <=> \E i \in DOMAIN ready : ready[i] = e

Undecided == {e \in Engagers : at[e] \in {"settling", "reading", "verifying"}}

\* What the journal says to anyone, or has said to a check or the kill loop that verifies it.
Heard == Told \cup {found[m] : m \in {k \in Mergers : at[k] = "verifying"}}

\* No other engage will read the journal before this one.
First(e) ==
  /\ at[e] = "settling" => Head(ready) = e /\ \A f \in Engagers : at[f] # "reading"
  /\ at[e] = "reading" => FirstCall(e)

\* A step that is nothing to the engages under way, save for one that begins to verify.
Still ==
  /\ UNCHANGED <<journal, kill, unrecorded, binds>> /\ asked' \in {asked, Off}
  /\ Told' \subseteq Told /\ Heard' \subseteq Heard
  /\ Landings' = Landings /\ Writings' \subseteq Writings
  /\ \A e \in Engagers : want'[e] = want[e] /\ held'[e] = held[e]
  /\ Undecided' = Undecided /\ (Engaging' => Engaging)
  /\ \A e \in Engagers : at'[e] = "verifying" /\ at[e] # "verifying" =>
       Answered(e) /\ NeedsVerify(held[e], Answer.state)
  /\ \A e \in Undecided : First(e) => First(e)'

\* What was answered was told.
LEMMA AnswerIsTold ==
  ASSUME Typed, CallInv, NEW t \in Tasks, Answered(t)
  PROVE  Answer \in Answers /\ Answer.state \in Told
<1>1. 1 \in DOMAIN calls /\ Answer = calls[1] /\ Answer.done
  BY AnswerEndsCall
<1> QED BY <1>1 DEF Answers, Calls, Told

LEMMA StepIsHeard ==
  ASSUME Typed, CallInv, NEW t \in Tasks, NEW pc \in Pcs, Orderly(t, pc),
         t \in Mergers /\ pc = "verifying" => found'[t] \in Told
  PROVE  Heard' \subseteq Heard
<1>1. Told' \subseteq Told /\ at'[t] = pc /\ \A s \in Tasks : s # t => at'[s] = at[s]
  BY StepMoves DEF Orderly
<1>2. \A s \in Tasks : s # t => found'[s] = found[s]
  BY DEF Orderly
<1>3. Mergers \subseteq Tasks
  BY TaskNames
<1> QED BY <1>1, <1>2, <1>3 DEF Heard

\* A step of one task that neither begins nor ends an engage.
LEMMA TaskIsStill ==
  ASSUME Typed, CallInv, NEW t \in Tasks, NEW pc \in Pcs, Orderly(t, pc),
         UNCHANGED <<kill, unrecorded, binds, want, ready>>, asked' \in {asked, Off},
         Writings' \subseteq Writings, \A e \in Engagers : held'[e] = held[e],
         t = "release" => Landings = {},
         t \in Mergers /\ pc = "verifying" => found'[t] \in Told,
         t \in Engagers =>
           /\ at[t] # "idle" /\ pc \notin {"settling", "reading"}
           /\ t \in Undecided <=> pc = "verifying"
           /\ pc = "verifying" => Answered(t) /\ NeedsVerify(held[t], Answer.state)
  PROVE  Still
<1>1. /\ Told' \subseteq Told /\ at'[t] = pc /\ \A s \in Tasks : s # t => at'[s] = at[s]
      /\ Landings' = {c \in Landings : c.task # t} /\ Requeues(t, pc) /\ journal' = journal
  BY StepMoves DEF Orderly
<1>2. Landings' = Landings
  BY <1>1 DEF Landings
<1>3. Heard' \subseteq Heard
  BY StepIsHeard
<1>4. \A e \in Engagers : e \in Tasks
  BY TaskNames
<1>5. Undecided' = Undecided
  BY <1>1, <1>4 DEF Undecided
<1>6. Engaging' => Engaging
  BY <1>1, <1>4 DEF Engaging
<1>7. \A e \in Engagers : at'[e] = "verifying" /\ at[e] # "verifying" =>
        Answered(e) /\ NeedsVerify(held[e], Answer.state)
  BY <1>1, <1>4
<1>8. ASSUME NEW e \in Undecided, First(e)
      PROVE  First(e)'
  <2>1. e \in Engagers /\ e \in Tasks
    BY <1>4 DEF Undecided
  <2>2. CASE e = t
    BY <1>1, <2>1, <2>2 DEF First
  <2>3. CASE e # t
    <3>1. at'[e] = at[e]
      BY <1>1, <2>1, <2>3
    <3>2. FirstCall(e) => FirstCall(e)'
      BY <1>1, <2>1, <2>3, StepMovesCalls
    <3>3. \A f \in Engagers : at'[f] = "reading" => at[f] = "reading"
      BY <1>1, <1>4
    <3> QED BY <1>8, <3>1, <3>2, <3>3 DEF First
  <2> QED BY <2>2, <2>3
<1> QED BY <1>1, <1>2, <1>3, <1>5, <1>6, <1>7, <1>8 DEF Still

\* An engage that begins to read is first if any is.
LEMMA ReadIsStill ==
  ASSUME Typed, CallInv, NEW e \in Engagers, at[e] = "settling", Orderly(e, "reading"),
         UNCHANGED <<kill, unrecorded, binds, want, held, asked>>, Writings' \subseteq Writings,
         Head(ready) = e
  PROVE  Still
<1>1. /\ e \in Tasks /\ e # "release" /\ e \notin Mergers /\ \A f \in Engagers : f \in Tasks
      /\ "reading" \in Pcs /\ "reading" \in Waits
  BY TaskNames DEF Mergers, Pcs, Waits
<1>2. /\ Told' \subseteq Told /\ at'[e] = "reading" /\ \A s \in Tasks : s # e => at'[s] = at[s]
      /\ Landings' = {c \in Landings : c.task # e}
      /\ Requeues(e, "reading") /\ journal' = journal
  BY <1>1, StepMoves DEF Orderly
<1>3. Landings' = Landings
  BY <1>1, <1>2 DEF Landings
<1>4. Heard' \subseteq Heard
  BY <1>1, StepIsHeard
<1>5. Undecided' = Undecided /\ (Engaging' => Engaging)
  BY <1>1, <1>2 DEF Undecided, Engaging
<1>6. \A f \in Engagers : at'[f] = "verifying" => at[f] = "verifying"
  BY <1>1, <1>2
<1>7. ASSUME NEW f \in Undecided, First(f)
      PROVE  First(f)'
  <2>1. f \in Tasks /\ f \in Engagers
    BY <1>1 DEF Undecided
  <2>2. CASE f = e
    <3>1. \A u \in Engagers : u # e => at[u] # "reading"
      BY <1>7, <2>2 DEF First
    <3>2. FirstCall(e)'
      BY <1>1, <1>2, <3>1, StepMovesCalls
    <3> QED BY <1>2, <2>2, <3>2 DEF First
  <2>3. CASE f # e
    <3>1. at'[f] = at[f] /\ at[f] # "settling"
      BY <1>2, <1>7, <2>1, <2>3 DEF First
    <3>2. FirstCall(f) => FirstCall(f)'
      BY <1>1, <1>2, <2>1, <2>3, StepMovesCalls
    <3> QED BY <1>7, <3>1, <3>2 DEF First
  <2> QED BY <2>2, <2>3
<1> QED BY <1>2, <1>3, <1>4, <1>5, <1>6, <1>7 DEF Still

\* Steps that leave alone who is settling.
LEMMA ReadyStays ==
  ASSUME ReadyInv, UNCHANGED ready,
         \A e \in Engagers : at'[e] = "settling" <=> at[e] = "settling"
  PROVE  ReadyInv'
  BY DEF ReadyInv

\* An engage that comes in is the last, and the only one if nobody is under way.
LEMMA ReadyGrows ==
  ASSUME ReadyInv, NEW e \in Engagers, at[e] = "idle", at'[e] = "settling",
         ready' = Append(ready, e), \A f \in Engagers : f # e => at'[f] = at[f]
  PROVE  /\ ReadyInv'
         /\ ~Engaging => Head(ready') = e
         /\ \A f \in Engagers : at[f] = "settling" => Head(ready') = Head(ready)
<1>1. /\ ready \in Seq(Engagers) /\ Len(ready) \in Nat /\ DOMAIN ready = 1..Len(ready)
      /\ \A i, j \in DOMAIN ready : ready[i] = ready[j] => i = j
      /\ \A f \in Engagers : at[f] = "settling" <=> \E i \in DOMAIN ready : ready[i] = f
  BY LenProperties DEF ReadyInv
<1>2. PICK n \in Nat : n = Len(ready) + 1
  BY <1>1
<1>3. /\ ready' \in Seq(Engagers) /\ DOMAIN ready' = (1..Len(ready)) \cup {n} /\ ready'[n] = e
      /\ \A i \in DOMAIN ready : ready'[i] = ready[i]
      /\ n \notin DOMAIN ready /\ Len(ready') = n
  BY <1>1, <1>2, AppendProperties, LenProperties
<1>4. \A i \in DOMAIN ready : ready[i] # e
  BY <1>1
<1>5. \A i, j \in DOMAIN ready' : ready'[i] = ready'[j] => i = j
  BY <1>1, <1>3, <1>4
<1>6. \A f \in Engagers : at'[f] = "settling" <=> \E i \in DOMAIN ready' : ready'[i] = f
  <2> TAKE f \in Engagers
  <2>1. CASE f = e
    BY <1>3, <2>1
  <2>2. CASE f # e
    <3>1. (\E i \in DOMAIN ready' : ready'[i] = f) <=> (\E i \in DOMAIN ready : ready[i] = f)
      BY <1>1, <1>3, <2>2
    <3> QED BY <1>1, <2>2, <3>1
  <2> QED BY <2>1, <2>2
<1>7. Head(ready') = ready'[1]
  BY <1>2, <1>3, HeadTailProperties, EmptySeq
<1>8. ASSUME ~Engaging PROVE Head(ready') = e
  <2>1. \A f \in Engagers : at[f] # "settling"
    BY <1>8 DEF Engaging
  <2>2. DOMAIN ready = {}
    BY <1>1, <2>1, ElementOfSeq
  <2>3. n = 1
    BY <1>1, <1>2, <2>2
  <2> QED BY <1>3, <1>7, <2>3
<1>9. ASSUME NEW f \in Engagers, at[f] = "settling" PROVE Head(ready') = Head(ready)
  <2>1. DOMAIN ready # {}
    BY <1>1, <1>9
  <2>2. 1 \in DOMAIN ready /\ ready # <<>>
    BY <1>1, <2>1, EmptySeq
  <2>3. Head(ready) = ready[1]
    BY <1>1, <2>2, HeadTailProperties
  <2> QED BY <1>3, <1>7, <2>2, <2>3
<1> QED BY <1>3, <1>5, <1>6, <1>8, <1>9 DEF ReadyInv

\* The first one leaves.
LEMMA ReadyShrinks ==
  ASSUME ReadyInv, NEW e \in Engagers, at[e] = "settling", at'[e] # "settling",
         Head(ready) = e, ready' = Tail(ready), \A f \in Engagers : f # e => at'[f] = at[f]
  PROVE  ReadyInv'
<1>1. /\ ready \in Seq(Engagers) /\ Len(ready) \in Nat /\ DOMAIN ready = 1..Len(ready)
      /\ \A i, j \in DOMAIN ready : ready[i] = ready[j] => i = j
      /\ \A f \in Engagers : at[f] = "settling" <=> \E i \in DOMAIN ready : ready[i] = f
  BY LenProperties DEF ReadyInv
<1>2. ready # <<>>
  BY <1>1, EmptySeq
<1>3. /\ ready' \in Seq(Engagers) /\ ready[1] = e /\ Len(ready') = Len(ready) - 1
      /\ \A i \in 1..Len(ready') : ready'[i] = ready[i + 1]
      /\ DOMAIN ready' = 1..Len(ready') /\ Len(ready') \in Nat
  BY <1>1, <1>2, HeadTailProperties, LenProperties
<1>4. \A i \in DOMAIN ready' : i + 1 \in DOMAIN ready /\ i + 1 # 1 /\ ready'[i] = ready[i + 1]
  BY <1>1, <1>3
<1>5. \A i, j \in DOMAIN ready' : ready'[i] = ready'[j] => i = j
  <2> TAKE i, j \in DOMAIN ready'
  <2>1. ready'[i] = ready'[j] => i + 1 = j + 1
    BY <1>1, <1>4
  <2> QED BY <1>3, <2>1
<1>6. \A f \in Engagers : at'[f] = "settling" <=> \E i \in DOMAIN ready' : ready'[i] = f
  <2> TAKE f \in Engagers
  <2>1. CASE f = e
    <3>1. 1 \in DOMAIN ready
      BY <1>1, <1>2, EmptySeq
    <3>2. \A i \in DOMAIN ready' : ready'[i] # e
      BY <1>1, <1>3, <1>4, <3>1
    <3> QED BY <2>1, <3>2
  <2>2. CASE f # e
    <3>1. ASSUME NEW i \in DOMAIN ready, ready[i] = f
          PROVE  \E j \in DOMAIN ready' : ready'[j] = f
      <4>1. i - 1 \in DOMAIN ready' /\ (i - 1) + 1 = i
        BY <1>1, <1>3, <2>2, <3>1
      <4> QED BY <1>4, <3>1, <4>1
    <3>2. (\E i \in DOMAIN ready' : ready'[i] = f) <=> (\E i \in DOMAIN ready : ready[i] = f)
      BY <1>4, <3>1
    <3> QED BY <1>1, <2>2, <3>2
  <2> QED BY <2>1, <2>2
<1> QED BY <1>3, <1>5, <1>6 DEF ReadyInv

-------------------------------------------------------------------------------
(***************************************************************************)
(* The journal's own steps, and those of other processes.                  *)
(***************************************************************************)
OrderInv == WriteInv /\ VerifyInv /\ TellInv /\ ReadyInv

\* What is in hand or being told is no newer than the journal.
LEMMA NothingIsNewer ==
  ASSUME IInv
  PROVE  /\ \A x \in InHand \cup Told : x \in KillStates /\ x.seq \in Nat /\ x.seq <= journal.seq
         /\ \A x \in InHand \cup Told : x.width = Off /\ journal.width # Off => x.seq < journal.seq
         /\ journal \in KillStates /\ journal.seq \in Nat
<1>1. Typed /\ KnownInv /\ journal \in KillStates
  BY DEF IInv, Typed
<1>2. \A x \in Told \cup InHand : x \in KillStates /\ (x \in Believed \/ x = journal)
  BY <1>1, CallTypes
<1> QED BY <1>1, <1>2 DEF KnownInv, Known, KillStates

\* The executor answers the oldest call that has no answer.
LEMMA AnsweringMoves ==
  ASSUME Typed, CallInv, at' = at, NEW i \in DOMAIN calls, ~calls[i].done,
         \A j \in 1..(i - 1) : calls[j].done,
         NEW ok \in BOOLEAN, NEW state \in KillStates, Answering(i, ok, state)
  PROVE  /\ \E c \in CallSet :
              /\ Answers' = Answers \cup {c} /\ c.done /\ c.ok = ok /\ c.state = state
              /\ c.task = calls[i].task /\ c.op = calls[i].op /\ c.width = calls[i].width
              /\ \A d \in Answers : d.task # c.task
              /\ \A d \in Calls' : d = c \/ d \in Calls
         /\ \A u \in Tasks : FirstCall(u) => FirstCall(u)'
         /\ \/ ~InTurn(calls) \/ InTurn(calls')
            \/ \E c \in Answers : ~(c.state.seq <= state.seq)
            \/ ok /\ calls[i].op = "append" /\ \E c \in Answers : ~(c.state.seq < state.seq)
<1>1. /\ calls \in Seq(CallSet) /\ calls[i] \in CallSet /\ Len(calls) \in Nat
      /\ DOMAIN calls = 1..Len(calls)
  BY ElementOfSeq, LenProperties DEF Typed
<1>2. PICK c : c = [calls[i] EXCEPT !.done = TRUE, !.ok = ok, !.state = state]
  OBVIOUS
<1>3. c \in CallSet /\ c.task = calls[i].task /\ c.op = calls[i].op
      /\ c.width = calls[i].width /\ c.ok = ok /\ c.state = state /\ c.done
  BY <1>1, <1>2 DEF CallSet
<1>4. calls' = [calls EXCEPT ![i] = c]
  BY <1>1, <1>2 DEF Answering
<1>5. /\ DOMAIN calls' = DOMAIN calls /\ calls'[i] = c
      /\ \A j \in DOMAIN calls : j # i => calls'[j] = calls[j]
  BY <1>1, <1>3, <1>4, ExceptSeq
<1>6. Answers' = Answers \cup {c}
  BY <1>3, <1>5 DEF Answers, Calls
<1>7. \A d \in Answers : d.task # c.task
  BY <1>3 DEF Answers, Calls, CallInv
<1>8. \A d \in Calls' : d = c \/ d \in Calls
  BY <1>5 DEF Calls
<1>9. \A j \in DOMAIN calls : calls'[j].task = calls[j].task
  BY <1>3, <1>5
<1>10. ASSUME NEW u \in Tasks, FirstCall(u) PROVE FirstCall(u)'
  <2>1. PICK k \in DOMAIN calls :
          /\ calls[k].task = u
          /\ \A j \in 1..(k - 1) : ~(calls[j].task \in Engagers /\ at[calls[j].task] = "reading")
    BY <1>10 DEF FirstCall
  <2>2. \A j \in 1..(k - 1) : j \in DOMAIN calls
    BY <1>1
  <2> QED BY <1>5, <1>9, <2>1, <2>2 DEF FirstCall
<1>11. ASSUME InTurn(calls), \A d \in Answers : d.state.seq <= state.seq,
              ok /\ calls[i].op = "append" => \A d \in Answers : d.state.seq < state.seq
       PROVE  InTurn(calls')
  <2> SUFFICES ASSUME NEW j \in DOMAIN calls', NEW k \in DOMAIN calls', j < k, calls'[k].done
               PROVE  /\ calls'[j].done /\ calls'[j].state.seq <= calls'[k].state.seq
                      /\ Appended(calls'[k]) => calls'[j].state.seq < calls'[k].state.seq
    BY DEF InTurn
  <2>1. CASE k = i
    <3>1. calls[j].done /\ calls'[j] = calls[j]
      BY <1>1, <1>5, <2>1
    <3>2. calls[j] \in Answers
      BY <1>5, <3>1 DEF Answers, Calls
    <3> QED BY <1>3, <1>5, <1>11, <2>1, <3>1, <3>2 DEF Appended
  <2>2. CASE k # i /\ j = i
    <3>1. calls[k].done /\ calls[i].done
      BY <1>5, <1>11, <2>2 DEF InTurn
    <3> QED BY <3>1
  <2>3. CASE k # i /\ j # i
    BY <1>5, <1>11, <2>3 DEF InTurn
  <2> QED BY <2>1, <2>2, <2>3
<1> QED BY <1>3, <1>6, <1>7, <1>8, <1>10, <1>11

\* The journal tells what it is, or takes a record first.
JournalTells(c) ==
  /\ c \in CallSet /\ Answers' = Answers \cup {c} /\ c.done /\ c.state = journal'
  /\ \A d \in Answers : d.task # c.task
  /\ c.op = "append" <=> at[c.task] \in {"recording", "releasing"}
  /\ at[c.task] = "recording" => c.width # Off /\ (~superseded => c.width = unrecorded)
  /\ c.task = "release" => at["release"] = "releasing" /\ c.width = Off
  /\ at[c.task] = "releasing" => c.task = "release"
  /\ \/ ~Appended(c) /\ UNCHANGED <<journal, asked, binds>>
     \/ /\ Appended(c) /\ journal' = AfterRecord(journal, c.width)
        /\ Forgets(c.width) /\ Overtakes(c.width)

LEMMA JournalWorksMoves ==
  ASSUME IInv, OrderInv, JournalWorks
  PROVE  /\ UNCHANGED <<memoryVars, taskVars>> /\ \E c \in CallSet : JournalTells(c)
         /\ \A u \in Tasks : FirstCall(u) => FirstCall(u)'
         /\ OrderInv'
<1>1. Typed /\ CallInv /\ KnownInv /\ journal \in KillStates
  BY DEF IInv, Typed
<1>2. UNCHANGED <<kill, unrecorded, superseded, failed, at, want, held, found, ready>>
      /\ UNCHANGED <<memoryVars, taskVars>>
  BY DEF JournalWorks, taskVars, memoryVars
<1>3. PICK i \in DOMAIN calls :
        /\ ~calls[i].done /\ \A j \in 1..(i - 1) : calls[j].done
        /\ \/ /\ calls[i].op # "append" /\ Answering(i, TRUE, journal)
              /\ UNCHANGED <<journal, asked, binds>>
           \/ /\ calls[i].op = "append" /\ journal' = AfterRecord(journal, calls[i].width)
              /\ Answering(i, TRUE, journal') /\ Forgets(calls[i].width)
              /\ Overtakes(calls[i].width)
           \/ Answering(i, FALSE, journal) /\ UNCHANGED <<journal, asked, binds>>
  BY DEF JournalWorks, historyVars
<1>4. calls[i] \in CallSet /\ calls[i] \in Calls /\ calls[i].width \in Widths
  <2>1. calls[i] \in CallSet
    BY <1>1, ElementOfSeq, LenProperties DEF Typed
  <2> QED BY <2>1 DEF CallSet, Calls
<1>5. PICK ok \in BOOLEAN :
        /\ Answering(i, ok, journal')
        /\ \/ ~(ok /\ calls[i].op = "append") /\ UNCHANGED <<journal, asked, binds>>
           \/ /\ ok /\ calls[i].op = "append" /\ journal' = AfterRecord(journal, calls[i].width)
              /\ Forgets(calls[i].width) /\ Overtakes(calls[i].width)
  BY <1>3
<1>6. /\ journal' \in KillStates /\ journal.seq \in Nat
      /\ journal' = journal \/ journal'.seq = journal.seq + 1
      /\ ok /\ calls[i].op = "append" => journal'.seq = journal.seq + 1
  BY <1>1, <1>4, <1>5, AfterRecordIsNewer DEF KillStates
<1>7. /\ \A x \in InHand \cup Told : x.seq \in Nat /\ x.seq <= journal.seq
      /\ \A c \in Answers : c.state \in Told
  BY NothingIsNewer DEF Told
<1>8. InTurn(calls)
  BY DEF OrderInv, TellInv
<1>9. /\ \A c \in Answers : c.state.seq <= journal'.seq
      /\ ok /\ calls[i].op = "append" => \A c \in Answers : c.state.seq < journal'.seq
  BY <1>6, <1>7
<1>10. /\ \E c \in CallSet :
             /\ Answers' = Answers \cup {c} /\ c.done /\ c.ok = ok /\ c.state = journal'
             /\ c.task = calls[i].task /\ c.op = calls[i].op /\ c.width = calls[i].width
             /\ \A d \in Answers : d.task # c.task
             /\ \A d \in Calls' : d = c \/ d \in Calls
       /\ \A u \in Tasks : FirstCall(u) => FirstCall(u)'
       /\ InTurn(calls')
  BY <1>1, <1>2, <1>3, <1>5, <1>6, <1>8, <1>9, AnsweringMoves
<1>11. PICK c \in CallSet :
         /\ Answers' = Answers \cup {c} /\ c.done /\ c.ok = ok /\ c.state = journal'
         /\ c.task = calls[i].task /\ c.op = calls[i].op /\ c.width = calls[i].width
         /\ \A d \in Answers : d.task # c.task
         /\ \A d \in Calls' : d = c \/ d \in Calls
  BY <1>10
<1>12. /\ c.op = "append" <=> at[c.task] \in {"recording", "releasing"}
       /\ at[c.task] = "recording" => c.width # Off /\ (~superseded => c.width = unrecorded)
       /\ c.task = "release" => at["release"] = "releasing" /\ c.width = Off
       /\ at[c.task] = "releasing" => c.task = "release"
  <2>1. /\ at[c.task] = "recording" => c.width # Off
        /\ c.task = "release" => c.op = "append" /\ c.width = Off
        /\ c.task \in Tasks
    BY <1>1, <1>11, <1>4 DEF CallInv, CallSet
  <2>2. /\ c.op = "append" <=> at[c.task] \in {"recording", "releasing"}
        /\ at[c.task] = "recording" /\ ~superseded => c.width = unrecorded
        /\ at["release"] \in {"idle", "releasing"}
        /\ at[c.task] = "releasing" => c.task = "release"
    BY <1>4, <1>11, <2>1 DEF OrderInv, WriteInv
  <2>3. c.task = "release" => at["release"] = "releasing"
    BY <2>1, <2>2
  <2> QED BY <2>1, <2>2, <2>3
<1>13. JournalTells(c)
  BY <1>5, <1>11, <1>12 DEF JournalTells, Appended
<1>14. WriteInv'
  <2>1. asked' \in {asked, Off}
    BY <1>5 DEF Forgets
  <2>2. /\ \A s, t \in Tasks : at[s] = "recording" /\ at[t] = "recording" => s = t
        /\ unrecorded # Off => kill.width = unrecorded
        /\ at["release"] \in {"idle", "releasing"}
        /\ at["release"] # "idle" => asked' = Off
        /\ \A t \in Tasks : at[t] = "releasing" => t = "release"
    BY <2>1 DEF OrderInv, WriteInv
  <2>3. \A d \in Calls' : /\ d.op = "append" <=> at[d.task] \in {"recording", "releasing"}
                          /\ at[d.task] = "recording" /\ ~superseded => d.width = unrecorded
    BY <1>11, <1>12 DEF OrderInv, WriteInv
  <2> QED BY <1>2, <2>2, <2>3 DEF WriteInv
<1>15. VerifyInv' /\ ReadyInv'
  BY <1>2 DEF OrderInv, VerifyInv, ReadyInv
<1>16. TellInv'
  <2>1. InHand' = InHand
    BY <1>2 DEF InHand
  <2>2. Told' \subseteq Told \cup {journal'}
    BY <1>11 DEF Told
  <2>3. \A x, y \in Told' : x.seq = y.seq => x = y
    <3>1. \A x, y \in Told : x.seq = y.seq => x = y
      BY DEF OrderInv, TellInv
    <3>2. CASE journal' = journal
      BY <2>2, <3>1, <3>2 DEF Told
    <3>3. CASE journal'.seq = journal.seq + 1
      BY <1>6, <1>7, <2>2, <3>1, <3>3
    <3> QED BY <1>6, <3>2, <3>3
  <2>4. ASSUME NEW x \in InHand', NEW d \in Answers'
        PROVE  x.seq <= d.state.seq /\ (Appended(d) => x.seq < d.state.seq)
    <3>1. CASE d \in Answers
      BY <2>1, <3>1 DEF OrderInv, TellInv
    <3>2. CASE d = c
      BY <1>6, <1>7, <1>11, <2>1, <3>2 DEF Appended
    <3> QED BY <1>11, <3>1, <3>2
  <2> QED BY <1>10, <2>3, <2>4 DEF TellInv
<1> QED BY <1>2, <1>10, <1>13, <1>14, <1>15, <1>16 DEF OrderInv

\* Another process records an engage or a release.
LEMMA ElsewhereMoves ==
  ASSUME IInv, OrderInv, EngageElsewhere \/ ReleaseElsewhere
  PROVE  /\ UNCHANGED <<memoryVars, taskVars, calls>>
         /\ \/ \E width \in {Halted, Sweeping} :
                 journal' = AfterRecord(journal, width) /\ UNCHANGED <<asked, binds>>
            \/ journal' = AfterRecord(journal, Off) /\ asked' = Off /\ binds' = Off
         /\ journal' \in KillStates /\ journal'.seq = journal.seq + 1
         /\ Answers' = Answers /\ OrderInv'
<1>1. /\ UNCHANGED <<memoryVars, taskVars, calls>>
      /\ UNCHANGED <<kill, unrecorded, superseded, failed, at, want, held, found, ready>>
  BY DEF EngageElsewhere, ReleaseElsewhere, memoryVars, taskVars
<1>2. \/ \E width \in {Halted, Sweeping} :
           journal' = AfterRecord(journal, width) /\ UNCHANGED <<asked, binds>>
      \/ journal' = AfterRecord(journal, Off) /\ asked' = Off /\ binds' = Off
  BY DEF EngageElsewhere, ReleaseElsewhere, historyVars, Forgets
<1>3. journal' \in KillStates /\ journal'.seq = journal.seq + 1 /\ journal.seq \in Nat
  BY <1>2, NothingIsNewer, AfterRecordIsNewer DEF Widths, KillStates
<1>4. Calls' = Calls /\ Answers' = Answers /\ InHand' = InHand
  BY <1>1 DEF Calls, Answers, InHand
<1>5. WriteInv'
  BY <1>1, <1>2, <1>4 DEF OrderInv, WriteInv
<1>6. VerifyInv' /\ ReadyInv'
  BY <1>1 DEF OrderInv, VerifyInv, ReadyInv
<1>7. TellInv'
  <2>1. Told' \subseteq Told \cup {journal'}
    BY <1>4 DEF Told
  <2>2. \A x \in Told : x.seq \in Nat /\ x.seq <= journal.seq
    BY NothingIsNewer
  <2>3. \A x, y \in Told' : x.seq = y.seq => x = y
    BY <1>3, <2>1, <2>2 DEF OrderInv, TellInv
  <2> QED BY <1>1, <1>4, <2>3 DEF OrderInv, TellInv
<1> QED BY <1>1, <1>2, <1>3, <1>4, <1>5, <1>6, <1>7 DEF OrderInv

\* A process that dies has nothing under way.
LEMMA CrashMoves ==
  ASSUME IInv, CrashAndRecover
  PROVE  /\ journal' = journal /\ kill' = journal /\ unrecorded' = Off /\ binds' = Sweeping
         /\ asked' = IF Engaging \/ unrecorded # Off THEN Off ELSE Promised
         /\ Answers' = {} /\ Told' = {journal} /\ Undecided' = {} /\ ~Engaging'
         /\ Heard' = {journal} /\ OrderInv'
<1>1. Typed
  BY DEF IInv
<1>2. /\ journal' = journal /\ kill' = journal /\ unrecorded' = Off /\ superseded' = FALSE
      /\ at' = [t \in Tasks |-> "idle"] /\ calls' = <<>> /\ ready' = <<>> /\ binds' = Sweeping
      /\ asked' = IF Engaging \/ unrecorded # Off THEN Off ELSE Promised
      /\ UNCHANGED <<held, found>>
  BY DEF CrashAndRecover
<1>3. calls' \in Seq(CallSet) /\ DOMAIN calls' = {}
  BY <1>2, EmptySeq, LenProperties
<1>4. Calls' = {} /\ Answers' = {} /\ Told' = {journal}
  BY <1>2, <1>3 DEF Calls, Answers, Told
<1>5. \A t \in Tasks : at'[t] = "idle"
  BY <1>2
<1>6. Undecided' = {} /\ ~Engaging' /\ Heard' = {journal}
  BY <1>4, <1>5, TaskNames DEF Undecided, Engaging, Heard
<1>7. WriteInv'
  BY <1>2, <1>4, <1>5, TaskNames DEF WriteInv
<1>8. VerifyInv'
  BY <1>5 DEF VerifyInv
<1>9. TellInv'
  BY <1>3, <1>4 DEF TellInv, InTurn
<1>10. ReadyInv'
  <2>1. ready' \in Seq(Engagers) /\ DOMAIN ready' = {}
    BY <1>2, EmptySeq, LenProperties
  <2> QED BY <1>5, <2>1, TaskNames DEF ReadyInv
<1> QED BY <1>2, <1>4, <1>6, <1>7, <1>8, <1>9, <1>10 DEF OrderInv

\* At the start nothing is under way either.
LEMMA OrderBegins ==
  ASSUME Init
  PROVE  /\ OrderInv /\ Answers = {} /\ Told = {journal} /\ Undecided = {} /\ ~Engaging
         /\ Heard = {journal} /\ kill = journal /\ unrecorded = Off /\ binds = Sweeping
         /\ asked = Off /\ journal.width = Off
<1>1. /\ journal = NoState /\ kill = journal /\ unrecorded = Off /\ superseded = FALSE
      /\ at = [t \in Tasks |-> "idle"] /\ calls = <<>> /\ ready = <<>>
      /\ asked = Off /\ binds = Sweeping /\ NoState.width = Off
  BY DEF Init, NoState
<1>2. calls \in Seq(CallSet) /\ DOMAIN calls = {}
  BY <1>1, EmptySeq, LenProperties
<1>3. Calls = {} /\ Answers = {} /\ Told = {journal}
  BY <1>2 DEF Calls, Answers, Told
<1>4. \A t \in Tasks : at[t] = "idle"
  BY <1>1
<1>5. Undecided = {} /\ ~Engaging /\ Heard = {journal}
  BY <1>3, <1>4, TaskNames DEF Undecided, Engaging, Heard
<1>6. WriteInv
  BY <1>1, <1>3, <1>4, TaskNames DEF WriteInv
<1>7. VerifyInv
  BY <1>4 DEF VerifyInv
<1>8. TellInv
  BY <1>2, <1>3 DEF TellInv, InTurn
<1>9. ReadyInv
  <2>1. ready \in Seq(Engagers) /\ DOMAIN ready = {}
    BY <1>1, EmptySeq, LenProperties
  <2> QED BY <1>4, <2>1, TaskNames DEF ReadyInv
<1> QED BY <1>1, <1>3, <1>5, <1>6, <1>7, <1>8, <1>9 DEF OrderInv

-------------------------------------------------------------------------------
(***************************************************************************)
(* Every step, by what it is to the engages: still, or one of a few moves. *)
(***************************************************************************)
\* A step of task t, as the others see it.
Leaves(t) ==
  /\ journal' = journal /\ Told' \subseteq Told /\ Heard' \subseteq Heard
  /\ \A s \in Tasks : s # t => at'[s] = at[s]
  /\ Landings' = {c \in Landings : c.task # t}
  /\ \A e \in Engagers : e # t => held'[e] = held[e] /\ want'[e] = want[e]
  /\ \A u \in Tasks : u # t /\ FirstCall(u) => FirstCall(u)'

\* An engage comes in.
Enters(e, width) ==
  /\ Leaves(e) /\ Landings' = Landings /\ Writings' \subseteq Writings
  /\ at[e] = "idle" /\ at'[e] = "settling" /\ width \in {Halted, Sweeping}
  /\ kill' = IF kill.width = Off THEN [width |-> width, seq |-> kill.seq] ELSE kill
  /\ want'[e] = width /\ held'[e] = kill /\ UNCHANGED unrecorded
  /\ ~Engaging => Head(ready') = e
  /\ \A f \in Engagers : at[f] = "settling" => Head(ready') = Head(ready)
  /\ IF at["release"] = "idle" THEN asked' = Wider(asked, width) /\ binds' = binds
                               ELSE binds' = Narrower(binds, Halted) /\ asked' = asked

\* An engage finds that what is there is enough, or goes to be recorded.
Settles(e, current, pending) ==
  /\ Leaves(e) /\ Landings' = Landings
  /\ at[e] \in {"settling", "reading", "verifying"} /\ at'[e] \in {"idle", "waiting", "recording"}
  /\ current \in KillStates /\ pending \in BOOLEAN
  /\ JudgesFrom(e, current, pending) /\ Judges(e, current, pending)
  /\ UNCHANGED <<want, held, asked, binds>>

\* Memory takes an engage that is on record.
Takes(t) ==
  /\ Leaves(t) /\ Landings' = Landings /\ UNCHANGED <<want, held, ready, asked, binds>>
  /\ at[t] = "recording" /\ at'[t] \in {"idle", "reading"} /\ (t \in Engagers => at'[t] = "idle")
  /\ Answer \in Writings /\ Writings' = {} /\ unrecorded' = Off
  /\ kill' = [width |-> Answer.width, seq |-> Answer.state.seq]
  /\ Answer.width = unrecorded /\ unrecorded # Off /\ Appended(Answer)

\* Memory takes a release that is on record.
Lands ==
  /\ Leaves("release") /\ UNCHANGED <<want, held, ready, binds>>
  /\ asked = Off /\ asked' = Off
  /\ Answer \in Landings /\ Landings' = {} /\ Writings' = {} /\ unrecorded' = Off
  /\ kill' = Answer.state /\ Answer.state.width = Off /\ Appended(Answer)

\* Memory takes what a check or the kill loop read, and verified if it is a release.
Adopts(m) ==
  /\ Leaves(m) /\ Landings' = Landings /\ Writings' \subseteq Writings
  /\ at[m] \in {"reading", "verifying"} /\ m \notin Engagers
  /\ UNCHANGED <<unrecorded, want, ready, asked, binds>> /\ unrecorded = Off
  /\ \A e \in Engagers : held'[e] = held[e]
  /\ \/ /\ kill' \in Told /\ ~(Engaging /\ kill'.width = Off) /\ ~NeedsVerify(kill, kill')
        /\ \/ kill'.seq > kill.seq
           \/ kill'.seq = kill.seq /\ kill'.width = Sweeping /\ kill.width # Sweeping
     \/ at[m] = "verifying" /\ kill = held[m] /\ kill' = found[m] /\ ~Engaging

LEMMA OrderlyLeaves ==
  ASSUME Typed, CallInv, NEW t \in Tasks, NEW pc \in Pcs, Orderly(t, pc),
         t \in Mergers /\ pc = "verifying" => found'[t] \in Told,
         \A e \in Engagers : e # t => want'[e] = want[e] /\ held'[e] = held[e]
  PROVE  Leaves(t) /\ at'[t] = pc /\ (t # "release" => Landings' = Landings)
<1>1. /\ Told' \subseteq Told /\ at'[t] = pc /\ \A s \in Tasks : s # t => at'[s] = at[s]
      /\ Landings' = {c \in Landings : c.task # t} /\ Requeues(t, pc) /\ journal' = journal
  BY StepMoves DEF Orderly
<1>2. \A u \in Tasks : u # t /\ FirstCall(u) => FirstCall(u)'
  BY <1>1, StepMovesCalls
<1>3. Heard' \subseteq Heard
  BY StepIsHeard
<1>4. t # "release" => Landings' = Landings
  BY <1>1 DEF Landings
<1> QED BY <1>1, <1>2, <1>3, <1>4 DEF Leaves

LEMMA LockStep ==
  ASSUME IInv, OrderInv, NEW t \in Engagers \cup {"loop"},
         TakesRecordLock(t) \/ (t = "loop" /\ KillLoop)
  PROVE  OrderInv' /\ Still
<1>1. /\ Typed /\ CallInv /\ t \in Tasks /\ t # "release"
      /\ WriteInv /\ VerifyInv /\ TellInv /\ ReadyInv
      /\ (t \in Mergers => t \notin Engagers) /\ ("loop" \notin Engagers)
  BY TaskNames DEF IInv, OrderInv, Mergers
<1>2. /\ \E pc \in {"idle", "reading", "recording", "waiting"} :
           Orderly(t, pc) /\ (pc = "reading" => t = "loop")
      /\ at[t] \in {"waiting", "idle"} /\ (t \in Engagers => at[t] = "waiting")
      /\ UNCHANGED <<kill, unrecorded, want, held, found, ready, asked, binds>>
      /\ Writings' \subseteq Writings
  BY <1>1, LockMoves
<1>3. PICK pc \in {"idle", "reading", "recording", "waiting"} :
        Orderly(t, pc) /\ (pc = "reading" => t = "loop")
  BY <1>2
<1>4. pc \in Pcs
  BY DEF Pcs
<1>5. WriteInv' /\ VerifyInv' /\ TellInv'
  BY <1>1, <1>3, <1>4, OrderlyKeepsWrites, OrderlyKeepsTelling
<1>6. ReadyInv'
  <2>1. at'[t] = pc /\ \A s \in Tasks : s # t => at'[s] = at[s]
    BY <1>1, <1>3, <1>4, StepMoves DEF Orderly
  <2>2. \A e \in Engagers : at'[e] = "settling" <=> at[e] = "settling"
    BY <1>2, <2>1, TaskNames
  <2> QED BY <1>1, <1>2, <2>2, ReadyStays
<1>7. Still
  <2>1. t \in Engagers => /\ at[t] # "idle" /\ pc \notin {"settling", "reading"}
                          /\ t \in Undecided <=> pc = "verifying"
                          /\ pc # "verifying"
    BY <1>1, <1>2, <1>3 DEF Undecided
  <2> QED BY <1>1, <1>2, <1>3, <1>4, <2>1, TaskIsStill
<1> QED BY <1>5, <1>6, <1>7 DEF OrderInv

LEMMA RecordedStep ==
  ASSUME IInv, OrderInv, NEW t \in Engagers \cup {"loop"}, Recorded(t)
  PROVE  OrderInv' /\ (Still \/ Takes(t))
<1>1. /\ Typed /\ CallInv /\ t \in Tasks /\ t # "release"
      /\ WriteInv /\ VerifyInv /\ TellInv /\ ReadyInv
      /\ (t \in Mergers => t \notin Engagers) /\ "loop" \notin Engagers
  BY TaskNames DEF IInv, OrderInv, Mergers
<1>2. /\ \E pc \in {"idle", "reading"} : Orderly(t, pc) /\ (pc = "reading" => t = "loop")
      /\ at[t] = "recording" /\ Writings' \subseteq Writings
      /\ UNCHANGED <<want, held, found, ready, asked, binds>>
      /\ \/ /\ Answer \in Writings /\ Writings' = {}
            /\ kill' = [width |-> Answer.width, seq |-> Answer.state.seq] /\ unrecorded' = Off
            /\ Answer.width = unrecorded
         \/ UNCHANGED <<kill, unrecorded>>
  BY <1>1, RecordedMoves
<1>3. PICK pc \in {"idle", "reading"} : Orderly(t, pc) /\ (pc = "reading" => t = "loop")
  BY <1>2
<1>4. pc \in Pcs
  BY DEF Pcs
<1>5. WriteInv' /\ VerifyInv' /\ TellInv'
  BY <1>1, <1>3, <1>4, OrderlyKeepsWrites, OrderlyKeepsTelling
<1>6. Leaves(t) /\ at'[t] = pc /\ Landings' = Landings
  BY <1>1, <1>2, <1>3, <1>4, OrderlyLeaves
<1>7. ReadyInv'
  <2>1. \A e \in Engagers : at'[e] = "settling" <=> at[e] = "settling"
    BY <1>2, <1>6, TaskNames DEF Leaves
  <2> QED BY <1>1, <1>2, <2>1, ReadyStays
<1>8. CASE UNCHANGED <<kill, unrecorded>>
  <2>1. t \in Engagers => /\ at[t] # "idle" /\ pc \notin {"settling", "reading"}
                          /\ t \in Undecided <=> pc = "verifying"
                          /\ pc # "verifying"
    BY <1>1, <1>2, <1>3 DEF Undecided
  <2>2. Still
    BY <1>1, <1>2, <1>3, <1>4, <1>8, <2>1, TaskIsStill
  <2> QED BY <1>5, <1>7, <2>2 DEF OrderInv
<1>9. CASE /\ Answer \in Writings /\ Writings' = {}
           /\ kill' = [width |-> Answer.width, seq |-> Answer.state.seq] /\ unrecorded' = Off
           /\ Answer.width = unrecorded
  <2>1. /\ Answered(t)
        /\ 1 \in DOMAIN calls /\ Answer = calls[1] /\ Answer.task = t
    BY <1>1, AnswerEndsCall DEF Recorded
  <2>2. Answer.width # Off /\ Answer.op = "append" /\ Answer.ok
    BY <1>1, <1>2, <1>9, <2>1 DEF CallInv, WriteInv, Calls, Writings
  <2>3. Takes(t)
    BY <1>1, <1>2, <1>3, <1>6, <1>9, <2>2 DEF Takes, Appended
  <2> QED BY <1>5, <1>7, <2>3 DEF OrderInv
<1> QED BY <1>2, <1>8, <1>9

LEMMA ReleaseStep ==
  ASSUME IInv, OrderInv, StartRelease \/ ReleaseKill
  PROVE  OrderInv' /\ (Still \/ Lands)
<1>1. /\ Typed /\ CallInv /\ WriteInv /\ VerifyInv /\ TellInv /\ ReadyInv
      /\ "release" \in Tasks /\ "release" \notin Engagers /\ "release" \notin Mergers
  BY TaskNames DEF IInv, OrderInv, Mergers
<1>2. PICK pc \in {"releasing", "idle"} :
        /\ Orderly("release", pc) /\ asked' = Off
        /\ UNCHANGED <<want, held, found, ready, binds>> /\ Writings' \subseteq Writings
        /\ \/ Landings = {} /\ UNCHANGED <<kill, unrecorded>>
           \/ /\ asked = Off /\ Answer \in Landings /\ Landings' = {} /\ Writings' = {}
              /\ kill' = Answer.state /\ Answer.state.width = Off /\ Appended(Answer)
              /\ unrecorded' = Off
  <2>1. CASE StartRelease
    BY <1>1, <2>1, StartReleaseMoves
  <2>2. CASE ReleaseKill
    BY <1>1, <2>2, ReleaseKillMoves
  <2> QED BY <2>1, <2>2
<1>3. pc \in Pcs
  BY DEF Pcs
<1>4. WriteInv' /\ VerifyInv' /\ TellInv'
  BY <1>1, <1>2, <1>3, OrderlyKeepsWrites, OrderlyKeepsTelling
<1>5. Leaves("release")
  BY <1>1, <1>2, <1>3, OrderlyLeaves
<1>6. ReadyInv'
  <2>1. \A e \in Engagers : at'[e] = "settling" <=> at[e] = "settling"
    BY <1>1, <1>5, TaskNames DEF Leaves
  <2> QED BY <1>1, <1>2, <2>1, ReadyStays
<1>7. CASE Landings = {} /\ UNCHANGED <<kill, unrecorded>>
  <2>1. Still
    BY <1>1, <1>2, <1>3, <1>7, TaskIsStill
  <2> QED BY <1>4, <1>6, <2>1 DEF OrderInv
<1>8. CASE /\ asked = Off /\ Answer \in Landings /\ Landings' = {} /\ Writings' = {}
           /\ kill' = Answer.state /\ Answer.state.width = Off /\ Appended(Answer)
           /\ unrecorded' = Off
  <2>1. Lands
    BY <1>2, <1>5, <1>8 DEF Lands
  <2> QED BY <1>4, <1>6, <2>1 DEF OrderInv
<1> QED BY <1>2, <1>7, <1>8

LEMMA CheckStep ==
  ASSUME IInv, OrderInv, CheckCanTrade
  PROVE  OrderInv' /\ Still
<1>1. /\ Typed /\ CallInv /\ WriteInv /\ VerifyInv /\ TellInv /\ ReadyInv
      /\ "check" \in Tasks /\ "check" \notin Engagers /\ "reading" \in Pcs
  BY TaskNames DEF IInv, OrderInv, Pcs
<1>2. /\ Orderly("check", "reading")
      /\ UNCHANGED <<kill, unrecorded, want, held, found, ready, asked, binds>>
      /\ Writings' \subseteq Writings
  BY <1>1, CheckCanTradeMoves
<1>3. WriteInv' /\ VerifyInv' /\ TellInv'
  BY <1>1, <1>2, OrderlyKeepsWrites, OrderlyKeepsTelling
<1>4. Leaves("check")
  BY <1>1, <1>2, OrderlyLeaves
<1>5. ReadyInv'
  <2>1. \A e \in Engagers : at'[e] = "settling" <=> at[e] = "settling"
    BY <1>1, <1>4, TaskNames DEF Leaves
  <2> QED BY <1>1, <1>2, <2>1, ReadyStays
<1>6. Still
  BY <1>1, <1>2, TaskIsStill
<1> QED BY <1>3, <1>5, <1>6 DEF OrderInv

LEMMA MergeOrderStep ==
  ASSUME IInv, OrderInv, NEW m \in Mergers, MergeStep(m)
  PROVE  OrderInv' /\ (Still \/ Adopts(m))
<1>1. /\ Typed /\ CallInv /\ WriteInv /\ VerifyInv /\ TellInv /\ ReadyInv
      /\ m \in Tasks /\ m # "release"
  BY TaskNames DEF IInv, OrderInv, Mergers
<1>2. /\ \E pc \in {"idle", "verifying"} :
           /\ Orderly(m, pc)
           /\ pc = "verifying" => found'[m] \in Told /\ UNCHANGED kill
      /\ at[m] \in {"reading", "verifying"} /\ m \notin Engagers
      /\ UNCHANGED <<unrecorded, want, ready, asked, binds>>
      /\ \A e \in Engagers : held'[e] = held[e]
      /\ Writings' \subseteq Writings
      /\ \/ UNCHANGED kill
         \/ /\ kill' \in Told /\ unrecorded = Off /\ ~(Engaging /\ kill'.width = Off)
            /\ ~NeedsVerify(kill, kill')
            /\ \/ kill'.seq > kill.seq
               \/ kill'.seq = kill.seq /\ kill'.width = Sweeping /\ kill.width # Sweeping
         \/ /\ at[m] = "verifying" /\ kill = held[m] /\ kill' = found[m]
            /\ unrecorded = Off /\ ~Engaging
  BY <1>1, MergeMoves
<1>3. PICK pc \in {"idle", "verifying"} :
        Orderly(m, pc) /\ (pc = "verifying" => found'[m] \in Told /\ UNCHANGED kill)
  BY <1>2
<1>4. pc \in Pcs
  BY DEF Pcs
<1>5. WriteInv' /\ VerifyInv' /\ TellInv'
  BY <1>1, <1>3, <1>4, OrderlyKeepsWrites, OrderlyKeepsTelling
<1>6. Leaves(m) /\ Landings' = Landings
  BY <1>1, <1>2, <1>3, <1>4, OrderlyLeaves
<1>7. ReadyInv'
  <2>1. \A e \in Engagers : at'[e] = "settling" <=> at[e] = "settling"
    BY <1>2, <1>6, TaskNames DEF Leaves
  <2> QED BY <1>1, <1>2, <2>1, ReadyStays
<1>8. CASE UNCHANGED kill
  <2>1. Still
    BY <1>1, <1>2, <1>3, <1>4, <1>8, TaskIsStill
  <2> QED BY <1>5, <1>7, <2>1 DEF OrderInv
<1>9. CASE ~UNCHANGED kill
  <2>1. Adopts(m)
    BY <1>2, <1>6, <1>9 DEF Adopts
  <2> QED BY <1>5, <1>7, <2>1 DEF OrderInv
<1> QED BY <1>8, <1>9

LEMMA EngageKillStep ==
  ASSUME IInv, OrderInv, NEW e \in Engagers, NEW width \in {Halted, Sweeping}, EngageKill(e, width)
  PROVE  OrderInv' /\ Enters(e, width)
<1>1. /\ Typed /\ CallInv /\ WriteInv /\ VerifyInv /\ TellInv /\ ReadyInv
      /\ e \in Tasks /\ e # "release" /\ e \notin Mergers /\ "settling" \in Pcs
  BY TaskNames DEF IInv, OrderInv, Mergers, Pcs
<1>2. /\ Orderly(e, "settling") /\ at[e] = "idle"
      /\ kill' = IF kill.width = Off THEN [width |-> width, seq |-> kill.seq] ELSE kill
      /\ \A f \in Engagers : f # e => want'[f] = want[f] /\ held'[f] = held[f]
      /\ want'[e] = width /\ held'[e] = kill /\ ready' = Append(ready, e)
      /\ UNCHANGED <<unrecorded, superseded, found>>
      /\ IF at["release"] = "idle" THEN asked' = Wider(asked, width) /\ binds' = binds
                                   ELSE binds' = Narrower(binds, Halted) /\ asked' = asked
  BY <1>1, EngageKillMoves
<1>3. WriteInv' /\ VerifyInv' /\ TellInv'
  BY <1>1, <1>2, OrderlyKeepsWrites, OrderlyKeepsTelling
<1>4. Leaves(e) /\ Landings' = Landings /\ at'[e] = "settling"
  BY <1>1, <1>2, OrderlyLeaves
<1>5. /\ ReadyInv' /\ (~Engaging => Head(ready') = e)
      /\ \A f \in Engagers : at[f] = "settling" => Head(ready') = Head(ready)
  <2>1. \A f \in Engagers : f # e => at'[f] = at[f]
    BY <1>4, TaskNames DEF Leaves
  <2> QED BY <1>1, <1>2, <1>4, <2>1, ReadyGrows
<1>6. Writings' \subseteq Writings
  <2>1. \A c \in Writings' : /\ c \in Answers /\ at[c.task] = "recording" /\ c.ok /\ ~superseded'
    BY <1>1, <1>2, StepMoves DEF Orderly
  <2> QED BY <1>2, <2>1 DEF Writings
<1>7. Enters(e, width)
  BY <1>2, <1>4, <1>5, <1>6 DEF Enters
<1> QED BY <1>3, <1>5, <1>7 DEF OrderInv

LEMMA EngageOrderStep ==
  ASSUME IInv, OrderInv, NEW e \in Engagers, EngageStep(e)
  PROVE  /\ OrderInv'
         /\ Still \/ \E current \in KillStates, pending \in BOOLEAN : Settles(e, current, pending)
<1>1. /\ Typed /\ CallInv /\ WriteInv /\ VerifyInv /\ TellInv /\ ReadyInv
      /\ e \in Tasks /\ e # "release" /\ e \notin Mergers
      /\ {"reading", "verifying", "idle", "waiting", "recording"} \subseteq Pcs
  BY TaskNames DEF IInv, OrderInv, Mergers, Pcs
<1>2. /\ UNCHANGED <<want, held, asked, binds>>
      /\ \/ /\ at[e] = "settling" /\ Orderly(e, "reading") /\ unrecorded = Off
            /\ Head(ready) = e /\ ready' = Tail(ready)
            /\ UNCHANGED <<kill, unrecorded>> /\ Writings' \subseteq Writings
         \/ /\ at[e] = "reading" /\ Orderly(e, "verifying") /\ ready' = ready
            /\ Answered(e) /\ NeedsVerify(held[e], Answer.state)
            /\ UNCHANGED <<kill, unrecorded>> /\ Writings' \subseteq Writings
         \/ \E pc \in {"idle", "waiting", "recording"}, pending \in BOOLEAN,
               current \in KillStates :
              Orderly(e, pc) /\ JudgesFrom(e, current, pending) /\ Judges(e, current, pending)
  BY <1>1, EngageStepMoves
<1>3. ASSUME NEW pc \in {"reading", "verifying", "idle", "waiting", "recording"}, Orderly(e, pc),
             at[e] # "settling" => ready' = ready,
             at[e] = "settling" => Head(ready) = e /\ ready' = Tail(ready)
      PROVE  OrderInv' /\ Leaves(e) /\ Landings' = Landings /\ at'[e] = pc
  <2>1. WriteInv' /\ VerifyInv' /\ TellInv'
    BY <1>1, <1>3, OrderlyKeepsWrites, OrderlyKeepsTelling
  <2>2. Leaves(e) /\ Landings' = Landings /\ at'[e] = pc
    BY <1>1, <1>2, <1>3, OrderlyLeaves
  <2>3. \A f \in Engagers : f # e => at'[f] = at[f]
    BY <2>2, TaskNames DEF Leaves
  <2>4. ReadyInv'
    <3>1. CASE at[e] = "settling"
      BY <1>1, <1>3, <2>2, <2>3, <3>1, ReadyShrinks
    <3>2. CASE at[e] # "settling"
      BY <1>1, <1>3, <2>2, <2>3, <3>2, ReadyStays
    <3> QED BY <3>1, <3>2
  <2> QED BY <2>1, <2>2, <2>4 DEF OrderInv
<1>4. CASE /\ at[e] = "settling" /\ Orderly(e, "reading") /\ unrecorded = Off
           /\ Head(ready) = e /\ ready' = Tail(ready)
           /\ UNCHANGED <<kill, unrecorded>> /\ Writings' \subseteq Writings
  <2>1. Still
    BY <1>1, <1>2, <1>4, ReadIsStill
  <2> QED BY <1>3, <1>4, <2>1
<1>5. CASE /\ at[e] = "reading" /\ Orderly(e, "verifying") /\ ready' = ready
           /\ Answered(e) /\ NeedsVerify(held[e], Answer.state)
           /\ UNCHANGED <<kill, unrecorded>> /\ Writings' \subseteq Writings
  <2>1. e \in Undecided
    BY <1>5 DEF Undecided
  <2>2. Still
    BY <1>1, <1>2, <1>5, <2>1, TaskIsStill
  <2> QED BY <1>3, <1>5, <2>2
<1>6. ASSUME NEW pc \in {"idle", "waiting", "recording"}, NEW pending \in BOOLEAN,
             NEW current \in KillStates,
             Orderly(e, pc), JudgesFrom(e, current, pending), Judges(e, current, pending)
      PROVE  OrderInv' /\ Settles(e, current, pending)
  <2>1. /\ at[e] \in {"settling", "reading", "verifying"}
        /\ at[e] # "settling" => ready' = ready
        /\ at[e] = "settling" => Head(ready) = e /\ ready' = Tail(ready)
    BY <1>6 DEF JudgesFrom
  <2>2. OrderInv' /\ Leaves(e) /\ Landings' = Landings /\ at'[e] = pc
    BY <1>3, <1>6, <2>1
  <2> QED BY <1>2, <1>6, <2>1, <2>2 DEF Settles
<1> QED BY <1>2, <1>4, <1>5, <1>6

\* The journal takes the record c.
Records(c) ==
  /\ JournalTells(c) /\ Appended(c) /\ UNCHANGED <<memoryVars, taskVars>>
  /\ \A u \in Tasks : FirstCall(u) => FirstCall(u)'

LEMMA JournalOrderStep ==
  ASSUME IInv, OrderInv, JournalWorks
  PROVE  OrderInv' /\ (Still \/ \E c \in CallSet : Records(c))
<1>1. /\ UNCHANGED <<memoryVars, taskVars>> /\ \E c \in CallSet : JournalTells(c)
      /\ \A u \in Tasks : FirstCall(u) => FirstCall(u)'
      /\ OrderInv'
  BY JournalWorksMoves
<1>2. PICK c \in CallSet : JournalTells(c)
  BY <1>1
<1>3. CASE Appended(c)
  BY <1>1, <1>2, <1>3 DEF Records
<1>4. CASE ~Appended(c)
  <2>1. UNCHANGED <<journal, kill, unrecorded, superseded, at, want, held, found, ready, asked,
                    binds>>
    BY <1>1, <1>2, <1>4 DEF memoryVars, taskVars, JournalTells
  <2>2. Answers' = Answers \cup {c} /\ c.state = journal
        /\ (c.task = "release" => ~c.ok) /\ (at[c.task] = "recording" => ~c.ok)
    BY <1>2, <1>4, <2>1 DEF JournalTells, Appended
  <2>3. Told' \subseteq Told
    BY <2>1, <2>2 DEF Told
  <2>4. Heard' \subseteq Heard
    BY <2>1, <2>3 DEF Heard
  <2>5. Landings' = Landings /\ Writings' \subseteq Writings
    BY <2>1, <2>2 DEF Landings, Writings
  <2>6. Undecided' = Undecided /\ (Engaging' => Engaging)
    BY <2>1 DEF Undecided, Engaging
  <2>7. \A e \in Undecided : First(e) => First(e)'
    <3>1. \A e \in Undecided : e \in Tasks
      BY TaskNames DEF Undecided
    <3> QED BY <1>1, <2>1, <3>1 DEF First
  <2>8. Still
    BY <2>1, <2>3, <2>4, <2>5, <2>6, <2>7 DEF Still
  <2> QED BY <1>1, <2>8
<1> QED BY <1>3, <1>4

LEMMA StutterIsStill ==
  ASSUME OrderInv, UNCHANGED vars
  PROVE  OrderInv' /\ Still
<1>1. UNCHANGED <<journal, kill, unrecorded, superseded, at, want, held, found, ready, calls,
                  asked, binds>>
  BY DEF vars, memoryVars, taskVars, historyVars
<1>2. Answers' = Answers /\ Calls' = Calls
  BY <1>1 DEF Answers, Calls
<1>3. Told' = Told /\ Landings' = Landings /\ Writings' = Writings
  BY <1>1, <1>2 DEF Told, Landings, Writings
<1>4. Heard' = Heard /\ Undecided' = Undecided /\ Engaging' = Engaging
  BY <1>1, <1>3 DEF Heard, Undecided, Engaging
<1>5. \A e \in Undecided : First(e)' <=> First(e)
  BY <1>1 DEF First, FirstCall
<1>6. OrderInv'
  <2>1. WriteInv'
    BY <1>1, <1>2 DEF OrderInv, WriteInv
  <2>2. VerifyInv' /\ ReadyInv'
    BY <1>1 DEF OrderInv, VerifyInv, ReadyInv
  <2>3. TellInv'
    BY <1>1, <1>2, <1>3 DEF OrderInv, TellInv, InHand
  <2> QED BY <2>1, <2>2, <2>3 DEF OrderInv
<1> QED BY <1>1, <1>3, <1>4, <1>5, <1>6 DEF Still

-------------------------------------------------------------------------------
(***************************************************************************)
(* An engage stops new orders: memory is not switched off by what is told. *)
(***************************************************************************)
\* No release from elsewhere since the last one of this process, and none of this one on its
\* way to memory.
Bound == binds # Off /\ Landings = {}

\* Every release that anyone may be told of is older than what memory has, or will have.
StopInv ==
  /\ Bound /\ asked # Off => kill.width # Off
  /\ binds # Off => \A y \in Heard, c \in Landings : y.width = Off => y.seq <= c.state.seq
  /\ Bound /\ unrecorded = Off => \A y \in Heard : y.width = Off => y.seq <= kill.seq
  /\ Bound => \A y \in Heard, c \in Writings : y.width = Off => y.seq <= c.state.seq
  /\ Bound /\ Writings # {} => journal.width # Off
  \* What is in memory and not in the journal is an engage that has not been judged yet.
  /\ Bound /\ unrecorded = Off /\ journal.width = Off /\ kill.width # Off
       => \E e \in Engagers : at[e] \in {"settling", "reading"} /\ held[e] = journal
  /\ Bound /\ unrecorded = Off /\ kill.width = Off
       => \A e \in Undecided : held[e].width # Off => held[e].seq < kill.seq

LEMMA StillStops ==
  ASSUME StopInv, Still
  PROVE  StopInv'
<1>1. /\ UNCHANGED <<journal, kill, unrecorded, binds>> /\ asked' \in {asked, Off}
      /\ Heard' \subseteq Heard /\ Landings' = Landings /\ Writings' \subseteq Writings
      /\ \A e \in Engagers : held'[e] = held[e]
      /\ Undecided' = Undecided
      /\ \A e \in Engagers : at'[e] = "verifying" /\ at[e] # "verifying" =>
           held[e].width # Off
  BY DEF Still, NeedsVerify
<1>2. Bound' = Bound
  BY <1>1 DEF Bound
<1>3. Bound' /\ unrecorded' = Off /\ journal'.width = Off /\ kill'.width # Off
        => \E e \in Engagers : at'[e] \in {"settling", "reading"} /\ held'[e] = journal'
  <2> SUFFICES ASSUME Bound, unrecorded = Off, journal.width = Off, kill.width # Off
               PROVE  \E e \in Engagers : at'[e] \in {"settling", "reading"} /\ held[e] = journal
    BY <1>1, <1>2
  <2>1. PICK e \in Engagers : at[e] \in {"settling", "reading"} /\ held[e] = journal
    BY DEF StopInv
  <2>2. e \in Undecided'
    BY <1>1, <2>1 DEF Undecided
  <2> QED BY <1>1, <2>1, <2>2 DEF Undecided
<1>4. Bound' /\ unrecorded' = Off /\ kill'.width = Off
        => \A e \in Undecided' : held'[e].width # Off => held'[e].seq < kill'.seq
  <2>1. \A e \in Undecided : e \in Engagers
    BY DEF Undecided
  <2> QED BY <1>1, <1>2, <2>1 DEF StopInv
<1> QED BY <1>1, <1>2, <1>3, <1>4 DEF StopInv

LEMMA EnteringStops ==
  ASSUME IInv, OrderInv, StopInv, NEW e \in Engagers, NEW width, Enters(e, width)
  PROVE  StopInv'
<1>1. /\ journal' = journal /\ Heard' \subseteq Heard /\ Landings' = Landings
      /\ Writings' \subseteq Writings /\ UNCHANGED unrecorded
      /\ \A f \in Engagers : f # e => at'[f] = at[f] /\ held'[f] = held[f]
      /\ at[e] = "idle" /\ at'[e] = "settling" /\ held'[e] = kill
  BY TaskNames DEF Enters, Leaves
<1>2. width # Off /\ kill.seq \in Nat /\ kill \in KillStates /\ journal \in KillStates
  BY DEF IInv, Typed, KillStates, Enters, Halted, Sweeping, Off
<1>3. kill'.width # Off /\ kill'.seq = kill.seq
  <2>1. CASE kill.width = Off
    <3>1. kill' = [width |-> width, seq |-> kill.seq]
      BY <2>1 DEF Enters
    <3> QED BY <1>2, <3>1
  <2>2. CASE kill.width # Off
    BY <2>2 DEF Enters
  <2> QED BY <2>1, <2>2
<1>4. binds' # Off => binds # Off
  BY DEF Enters, Narrower, Halted, Off
<1>5. Bound' => Bound
  BY <1>1, <1>4 DEF Bound
<1>6. ASSUME Bound', unrecorded' = Off, journal'.width = Off, kill'.width # Off
      PROVE  \E f \in Engagers : at'[f] \in {"settling", "reading"} /\ held'[f] = journal'
  <2>1. CASE kill.width # Off
    <3>1. PICK f \in Engagers : at[f] \in {"settling", "reading"} /\ held[f] = journal
      BY <1>1, <1>5, <1>6, <2>1 DEF StopInv
    <3> QED BY <1>1, <3>1
  <2>2. CASE kill.width = Off
    <3>1. journal.seq <= kill.seq
      BY <1>1, <1>5, <1>6 DEF StopInv, Heard, Told
    <3>2. kill.seq <= journal.seq /\ journal.seq \in Nat
      BY NothingIsNewer DEF InHand
    <3>3. kill.seq = journal.seq /\ kill.width = journal.width
      BY <1>1, <1>2, <1>6, <2>2, <3>1, <3>2
    <3>4. kill = journal
      BY <1>2, <3>3 DEF KillStates
    <3> QED BY <1>1, <3>4
  <2> QED BY <2>1, <2>2
<1> QED BY <1>1, <1>3, <1>4, <1>5, <1>6 DEF StopInv

LEMMA SettlingStops ==
  ASSUME IInv, OrderInv, StopInv, NEW e \in Engagers, NEW current, NEW pending,
         Settles(e, current, pending)
  PROVE  StopInv'
<1>1. /\ UNCHANGED <<journal, held, asked, binds>> /\ Heard' \subseteq Heard /\ Landings' = Landings
      /\ \A f \in Engagers : f # e => at'[f] = at[f]
      /\ e \in Undecided /\ at'[e] \notin {"settling", "reading", "verifying"}
      /\ JudgesFrom(e, current, pending) /\ Judges(e, current, pending)
      /\ current \in KillStates /\ pending \in BOOLEAN
  BY TaskNames DEF Settles, Leaves, Undecided
<1>2. /\ want[e] # Off /\ want[e] \in Widths /\ kill \in KillStates /\ held[e] \in KillStates
      /\ kill.seq \in Nat /\ current.seq \in Nat /\ held[e].seq \in Nat
      /\ Typed /\ CallInv /\ e \in Tasks
  BY <1>1, TaskNames DEF IInv, EngageInv, Typed, KillStates, Undecided
<1>3. Bound' = Bound
  BY <1>1 DEF Bound
<1>4. CASE /\ ~(current.width >= want[e])
           /\ kill' = [width |-> want[e], seq |-> current.seq] /\ unrecorded' = want[e]
           /\ Writings' = {}
  <2>1. kill'.width # Off /\ unrecorded' # Off
    BY <1>2, <1>4
  <2> QED BY <1>1, <1>3, <1>4, <2>1 DEF StopInv
<1>5. CASE /\ current.width >= want[e]
           /\ kill' = (IF pending THEN kill ELSE current) /\ UNCHANGED unrecorded
           /\ Writings' \subseteq Writings
  <2>1. current.width # Off
    BY <1>1, <1>2, <1>5 DEF KillStates, Widths, Off, Halted, Sweeping
  <2>2. CASE unrecorded # Off
    <3>1. kill'.width # Off
      BY <1>1, <1>5, <2>1, <2>2 DEF IInv, EngageInv
    <3> QED BY <1>1, <1>3, <1>5, <2>2, <3>1 DEF StopInv
  <2>3. CASE unrecorded = Off
    <3>1. ~pending /\ kill' = current /\ at[e] \in {"reading", "verifying"} /\ Answered(e)
          /\ \/ current = kill /\ held[e].seq < kill.seq
             \/ /\ kill.seq <= current.seq
                /\ \/ current = held[e]
                   \/ at[e] = "verifying" /\ current = found[e]
                   \/ at[e] = "reading" /\ current = Answer.state
      BY <1>1, <1>5, <2>3 DEF JudgesFrom
    <3>2. kill.seq <= kill'.seq
      BY <1>2, <3>1
    <3>3. ASSUME Bound, NEW y \in Heard', y.width = Off
          PROVE  y.seq <= kill'.seq
      <4>1. y.seq <= kill.seq /\ y.seq \in Nat
        <5>1. y \in Heard /\ (y \in Told \/ y \in InHand)
          BY <1>1, TaskNames DEF Heard, InHand
        <5> QED BY <2>3, <3>3, <5>1, NothingIsNewer DEF StopInv
      <4> QED BY <1>2, <3>1, <3>2, <4>1
    <3>4. ASSUME Bound, journal.width = Off
          PROVE  \E f \in Engagers : at'[f] \in {"settling", "reading"} /\ held[f] = journal
      <4>1. journal.seq <= kill.seq /\ journal.seq \in Nat
        BY <2>3, <3>4, NothingIsNewer DEF StopInv, Heard, Told
      <4>2. SUFFICES \E f \in Engagers : f # e /\ at[f] \in {"settling", "reading"}
                                        /\ held[f] = journal
        BY <1>1
      <4>3. CASE current = kill /\ held[e].seq < kill.seq
        <5>1. PICK f \in Engagers : at[f] \in {"settling", "reading"} /\ held[f] = journal
          BY <2>1, <2>3, <3>4, <4>3 DEF StopInv
        <5>2. kill.seq <= journal.seq
          BY NothingIsNewer DEF InHand
        <5>3. f # e
          BY <1>2, <4>1, <4>3, <5>1, <5>2
        <5> QED BY <5>1, <5>3
      <4>4. CASE kill.seq <= current.seq /\ current = held[e]
        <5>1. kill.width # Off
          BY <1>1, <1>2, <2>1, <2>3, <3>4, <4>4 DEF StopInv
        <5>2. PICK f \in Engagers : at[f] \in {"settling", "reading"} /\ held[f] = journal
          BY <2>3, <3>4, <5>1 DEF StopInv
        <5>3. f # e
          BY <2>1, <3>4, <4>4, <5>2
        <5> QED BY <5>2, <5>3
      <4>5. CASE at[e] = "verifying" /\ current = found[e]
        BY <1>2, <2>1, <4>5 DEF OrderInv, VerifyInv
      <4>6. CASE kill.seq <= current.seq /\ current = Answer.state
        <5>1. current \in Told /\ journal \in Told
          BY <1>2, <3>1, <4>6, AnswerIsTold DEF Told
        <5>2. current.seq <= journal.seq
          BY <5>1, NothingIsNewer
        <5>3. current.seq = journal.seq
          BY <1>2, <4>1, <4>6, <5>2
        <5>4. current = journal
          BY <5>1, <5>3 DEF OrderInv, TellInv
        <5> QED BY <2>1, <3>4, <5>4
      <4> QED BY <3>1, <4>3, <4>4, <4>5, <4>6
    <3>5. Bound' /\ unrecorded' = Off => \A y \in Heard' : y.width = Off => y.seq <= kill'.seq
      BY <1>3, <3>3
    <3>6. Bound' /\ unrecorded' = Off /\ journal'.width = Off /\ kill'.width # Off
            => \E f \in Engagers : at'[f] \in {"settling", "reading"} /\ held'[f] = journal'
      BY <1>1, <1>3, <3>4
    <3>7. kill'.width # Off
      BY <2>1, <3>1
    <3>8. /\ binds' # Off =>
               \A y \in Heard', c \in Landings' : y.width = Off => y.seq <= c.state.seq
          /\ Bound' => \A y \in Heard', c \in Writings' : y.width = Off => y.seq <= c.state.seq
          /\ Bound' /\ Writings' # {} => journal'.width # Off
      BY <1>1, <1>3, <1>5 DEF StopInv
    <3> QED BY <3>5, <3>6, <3>7, <3>8 DEF StopInv
  <2> QED BY <2>2, <2>3
<1> QED BY <1>1, <1>4, <1>5 DEF Judges

LEMMA TakingStops ==
  ASSUME IInv, OrderInv, StopInv, NEW t \in Tasks, Takes(t)
  PROVE  StopInv'
<1>1. /\ UNCHANGED <<journal, held, asked, binds>> /\ Heard' \subseteq Heard
      /\ Landings' = Landings /\ Answer \in Writings /\ Writings' = {} /\ unrecorded' = Off
      /\ kill' = [width |-> Answer.width, seq |-> Answer.state.seq] /\ Answer.width # Off
  BY DEF Takes, Leaves
<1>2. Bound' = Bound
  BY <1>1 DEF Bound
<1>3. kill'.width # Off /\ kill'.seq = Answer.state.seq
  BY <1>1
<1>4. Bound => journal.width # Off
  BY <1>1 DEF StopInv
<1> QED BY <1>1, <1>2, <1>3, <1>4 DEF StopInv

LEMMA LandingStops ==
  ASSUME IInv, OrderInv, StopInv, Lands
  PROVE  StopInv'
<1>1. /\ UNCHANGED <<journal, held, binds>> /\ asked' = Off /\ Heard' \subseteq Heard
      /\ Answer \in Landings /\ Landings' = {} /\ Writings' = {} /\ unrecorded' = Off
      /\ kill' = Answer.state /\ Answer.state.width = Off /\ Appended(Answer)
      /\ \A e \in Engagers : at'[e] = at[e]
  BY TaskNames DEF Lands, Leaves
<1>2. \A e \in Undecided' : held[e].seq < kill'.seq
  <2>1. \A e \in Undecided' : held[e] \in InHand
    BY TaskNames DEF Undecided, InHand
  <2>2. Answer \in Answers
    BY <1>1 DEF Landings
  <2> QED BY <1>1, <2>1, <2>2 DEF OrderInv, TellInv
<1>3. binds # Off => \A y \in Heard' : y.width = Off => y.seq <= kill'.seq
  BY <1>1 DEF StopInv
<1> QED BY <1>1, <1>2, <1>3 DEF StopInv, Bound

LEMMA AdoptingStops ==
  ASSUME IInv, OrderInv, StopInv, NEW m \in Mergers, Adopts(m)
  PROVE  StopInv'
<1>1. /\ UNCHANGED <<journal, unrecorded, asked, binds>> /\ unrecorded = Off
      /\ Heard' \subseteq Heard /\ Landings' = Landings /\ Writings' \subseteq Writings
      /\ \A e \in Engagers : at'[e] = at[e] /\ held'[e] = held[e]
      /\ \/ /\ kill' \in Told /\ ~(Engaging /\ kill'.width = Off) /\ ~NeedsVerify(kill, kill')
            /\ \/ kill'.seq > kill.seq
               \/ kill'.seq = kill.seq /\ kill'.width = Sweeping /\ kill.width # Sweeping
         \/ at[m] = "verifying" /\ kill = held[m] /\ kill' = found[m]
  BY TaskNames DEF Adopts, Leaves
<1>2. Bound' = Bound /\ m \in Tasks /\ kill.seq \in Nat /\ journal \in Told /\ Told \subseteq Heard
  BY <1>1, TaskNames DEF Bound, IInv, Typed, KillStates, Told, Heard
<1>3. binds' # Off => \A y \in Heard', c \in Landings' : y.width = Off => y.seq <= c.state.seq
  BY <1>1 DEF StopInv
<1>4. CASE at[m] = "verifying" /\ kill = held[m] /\ kill' = found[m]
  <2>1. found[m] \in Heard /\ found[m].seq \in Nat
    BY <1>2, <1>4 DEF Heard, IInv, Typed, KillStates
  <2>2. found[m].width = Off /\ found[m].seq > kill.seq
    BY <1>2, <1>4 DEF OrderInv, VerifyInv
  <2>3. ~Bound
    BY <1>1, <1>2, <2>1, <2>2 DEF StopInv
  <2> QED BY <1>2, <1>3, <2>3 DEF StopInv
<1>5. CASE /\ kill' \in Told /\ ~(Engaging /\ kill'.width = Off) /\ ~NeedsVerify(kill, kill')
           /\ \/ kill'.seq > kill.seq
              \/ kill'.seq = kill.seq /\ kill'.width = Sweeping /\ kill.width # Sweeping
  <2>1. /\ kill'.seq \in Nat /\ kill.seq <= kill'.seq /\ kill'.seq <= journal.seq
        /\ journal.seq \in Nat
    BY <1>2, <1>5, NothingIsNewer
  <2>2. kill'.width = Off => kill.width = Off
    BY <1>5 DEF NeedsVerify, Sweeping, Off
  <2>3. ASSUME Bound, NEW y \in Heard', y.width = Off
        PROVE  y.seq <= kill'.seq
    <3>1. y.seq <= kill.seq /\ y.seq \in Nat
      <4>1. y \in Heard /\ (y \in Told \/ y \in InHand)
        BY <1>1, TaskNames DEF Heard, InHand
      <4> QED BY <1>1, <2>3, <4>1, NothingIsNewer DEF StopInv
    <3> QED BY <1>2, <2>1, <3>1
  <2>4. Bound /\ journal.width = Off => kill'.width = Off
    <3>1. SUFFICES ASSUME Bound, journal.width = Off PROVE kill' = journal
      OBVIOUS
    <3>2. journal.seq <= kill.seq
      BY <1>1, <1>2, <3>1 DEF StopInv
    <3>3. journal.seq = kill'.seq
      BY <1>2, <2>1, <3>2
    <3> QED BY <1>2, <1>5, <3>3 DEF OrderInv, TellInv
  <2>5. kill'.width = Off => Undecided' = {}
    BY <1>1, <1>5 DEF Undecided, Engaging
  <2>6. /\ Bound' /\ asked' # Off => kill'.width # Off
        /\ Bound' => \A y \in Heard', c \in Writings' : y.width = Off => y.seq <= c.state.seq
        /\ Bound' /\ Writings' # {} => journal'.width # Off
    BY <1>1, <1>2, <2>2 DEF StopInv
  <2>7. Bound' /\ unrecorded' = Off => \A y \in Heard' : y.width = Off => y.seq <= kill'.seq
    BY <1>2, <2>3
  <2>8. ~(Bound' /\ unrecorded' = Off /\ journal'.width = Off /\ kill'.width # Off)
    BY <1>1, <1>2, <2>4
  <2> QED BY <1>3, <2>5, <2>6, <2>7, <2>8 DEF StopInv
<1> QED BY <1>1, <1>4, <1>5

\* A record is newer than all that was heard; a release leaves nobody bound.
LEMMA RecordingStops ==
  ASSUME IInv, OrderInv, StopInv, NEW c \in CallSet, Records(c)
  PROVE  StopInv'
<1>1. /\ UNCHANGED <<kill, unrecorded, superseded, at, want, held, found, ready>>
      /\ Answers' = Answers \cup {c} /\ c.done /\ c.state = journal' /\ c.ok
      /\ journal' = AfterRecord(journal, c.width) /\ Forgets(c.width) /\ Overtakes(c.width)
      /\ \A d \in Answers : d.task # c.task
      /\ at[c.task] \in {"recording", "releasing"}
      /\ at[c.task] = "releasing" => c.task = "release"
      /\ at[c.task] = "recording" => c.width # Off
      /\ c.task = "release" => c.width = Off
  BY DEF Records, JournalTells, Appended, memoryVars, taskVars
<1>2. /\ journal.seq \in Nat /\ journal'.seq = journal.seq + 1 /\ c.width \in Widths
      /\ journal'.width = Off <=> c.width = Off
  BY NothingIsNewer, AfterRecordIsNewer, <1>1 DEF CallSet
<1>3. /\ Heard' \subseteq Heard \cup {journal'}
      /\ \A y \in Heard : y.seq \in Nat /\ y.seq <= journal.seq
  <2>1. Heard' \subseteq Heard \cup {journal'}
    BY <1>1 DEF Heard, Told
  <2>2. \A y \in Heard : y \in Told \/ y \in InHand
    BY TaskNames DEF Heard, InHand
  <2> QED BY <2>1, <2>2, NothingIsNewer
<1>4. CASE c.width = Off
  <2>1. c.task = "release" /\ Landings = {}
    BY <1>1, <1>4 DEF Landings
  <2>2. Landings' = {c}
    BY <1>1, <2>1 DEF Landings
  <2>3. \A y \in Heard' : y.seq <= journal'.seq
    BY <1>2, <1>3
  <2> QED BY <1>1, <2>2, <2>3 DEF StopInv, Bound
<1>5. CASE c.width # Off
  <2>1. Landings' = Landings /\ Writings' \subseteq Writings \cup {c}
    BY <1>1, <1>5 DEF Landings, Writings
  <2>2. asked' = asked /\ (binds' # Off => binds # Off)
    BY <1>1, <1>5 DEF Forgets, Overtakes, Narrower, Halted, Off
  <2>3. Bound' => Bound
    BY <2>1, <2>2 DEF Bound
  <2>4. journal'.width # Off /\ \A y \in Heard' : y.width = Off => y \in Heard
    BY <1>2, <1>3, <1>5
  <2>5. \A y \in Heard' : y.width = Off => y.seq <= c.state.seq
    BY <1>1, <1>2, <1>3, <2>4
  <2>6. Undecided' = Undecided
    BY <1>1 DEF Undecided
  <2> QED BY <1>1, <2>1, <2>2, <2>3, <2>4, <2>5, <2>6 DEF StopInv
<1> QED BY <1>4, <1>5

LEMMA ElsewhereStops ==
  ASSUME IInv, OrderInv, StopInv, EngageElsewhere \/ ReleaseElsewhere
  PROVE  StopInv'
<1>1. /\ UNCHANGED <<memoryVars, taskVars, calls>> /\ Answers' = Answers
      /\ \/ \E width \in {Halted, Sweeping} :
              journal' = AfterRecord(journal, width) /\ UNCHANGED <<asked, binds>>
         \/ binds' = Off
  BY ElsewhereMoves
<1>2. UNCHANGED <<kill, unrecorded, superseded, at, held, found>>
  BY <1>1 DEF memoryVars, taskVars
<1>3. Landings' = Landings /\ Writings' = Writings /\ Undecided' = Undecided
  BY <1>1, <1>2 DEF Landings, Writings, Undecided
<1>4. CASE binds' = Off
  BY <1>4 DEF StopInv, Bound
<1>5. ASSUME NEW width \in {Halted, Sweeping}, journal' = AfterRecord(journal, width),
             UNCHANGED <<asked, binds>>
      PROVE  StopInv'
  <2>1. journal'.width # Off
    BY <1>5, NothingIsNewer, AfterRecordIsNewer DEF Widths, Halted, Sweeping, Off
  <2>2. \A y \in Heard' : y.width = Off => y \in Heard
    BY <1>1, <1>2, <2>1 DEF Heard, Told
  <2>3. Bound' = Bound
    BY <1>3, <1>5 DEF Bound
  <2> QED BY <1>2, <1>3, <1>5, <2>1, <2>2, <2>3 DEF StopInv
<1> QED BY <1>1, <1>4, <1>5

\* An engage that is in memory is asked about before the journal is, or is on record.
LEMMA NothingOnItsWay ==
  ASSUME IInv, OrderInv, asked # Off
  PROVE  Landings = {}
<1>1. at["release"] = "idle" /\ Typed /\ CallInv
  BY DEF OrderInv, WriteInv, IInv
<1>2. \A c \in Calls : at[c.task] \in Waits
  BY <1>1 DEF CallInv, Calls
<1> QED BY <1>1, <1>2 DEF Landings, Answers, Waits

LEMMA CrashStops ==
  ASSUME IInv, OrderInv, StopInv, CrashAndRecover
  PROVE  StopInv'
<1>1. /\ journal' = journal /\ kill' = journal /\ unrecorded' = Off
      /\ asked' = IF Engaging \/ unrecorded # Off THEN Off ELSE Promised
      /\ Answers' = {} /\ Undecided' = {} /\ Heard' = {journal}
  BY CrashMoves
<1>2. Landings' = {} /\ Writings' = {} /\ journal.seq \in Nat
  BY <1>1, NothingIsNewer DEF Landings, Writings
<1>3. asked' # Off => journal.width # Off
  <2>1. SUFFICES ASSUME asked' # Off PROVE journal.width # Off
    OBVIOUS
  <2>2. ~Engaging /\ unrecorded = Off /\ Promised # Off
    BY <1>1, <2>1
  <2>3. asked # Off /\ binds # Off
    BY <2>2 DEF Promised, Narrower, IInv, Typed, Widths, Halted, Sweeping, Off
  <2>4. Bound /\ kill.width # Off
    BY <2>3, NothingOnItsWay DEF Bound, StopInv
  <2> QED BY <2>2, <2>4 DEF StopInv, Engaging
<1> QED BY <1>1, <1>2, <1>3 DEF StopInv

LEMMA StopBegins ==
  ASSUME Init
  PROVE  StopInv
<1>1. /\ Answers = {} /\ Undecided = {} /\ Heard = {journal}
      /\ kill = journal /\ asked = Off /\ journal.width = Off
  BY OrderBegins
<1>2. Landings = {} /\ Writings = {} /\ journal.seq \in Nat
  BY <1>1 DEF Landings, Writings, Init
<1> QED BY <1>1, <1>2 DEF StopInv

-------------------------------------------------------------------------------
(***************************************************************************)
(* A sweep stays a sweep.                                                  *)
(***************************************************************************)
\* As Bound, and no engage has undone another.
Sweeps == binds = Sweeping /\ Landings = {}

\* What engages judge against: memory, and what each of them set out from.
Bases == {kill} \cup {held[e] : e \in Undecided}

\* Whoever is told that the journal fell from a sweep has something newer than the sweep.
Falls(z) ==
  \A x, y \in Told : x.width = Sweeping /\ y.width # Sweeping /\ x.seq <= y.seq => x.seq < z.seq

\* A sweep is being asked for by an engage that set out from a switch that was off.
Wide == \E f \in Undecided : want[f] = Sweeping /\ held[f].width = Off

\* A sweep in memory is the journal's, and all that is as new is one, or it is yet to be
\* judged.
SweepIsTold ==
  /\ journal.width = Sweeping
  /\ \A e \in Undecided : held[e].seq < kill.seq \/ held[e].width = Sweeping
  /\ \A y \in Told : y.seq < kill.seq \/ y.width = Sweeping
SweepIsAsked ==
  \E f \in Undecided : want[f] = Sweeping /\ held[f].width = Off /\ held[f].seq = kill.seq

SweepInv ==
  /\ binds = Sweeping /\ Landings # {} => ~Engaging
  /\ binds = Sweeping => \A c \in Landings : Falls(c.state)
  /\ Sweeps =>
     /\ kill.width = Off => ~Engaging
     \* Only the engage that is judged next can have set out from a switch that was off.
     /\ \A e \in Undecided : held[e].width = Off => unrecorded = Off /\ First(e)
     /\ \A e \in Engagers : at[e] # "verifying"
     /\ \A z \in Bases, y \in Told : y.width = Off => y.seq <= z.seq
     /\ \A z \in Bases : Falls(z)
     /\ \A z \in Bases, x \in Told : x.width = Sweeping /\ x.seq = z.seq => z.width = Sweeping
     /\ unrecorded = Off => \A e \in Undecided : held[e].seq <= kill.seq
     /\ \A e \in Undecided : held[e].width = Sweeping => kill.width = Sweeping \/ Wide
     /\ unrecorded = Off /\ kill.width = Sweeping => SweepIsTold \/ SweepIsAsked
     /\ asked = Sweeping => \/ kill.width = Sweeping
                            \/ \E e \in Undecided : want[e] = Sweeping
     /\ \A c \in Writings : c.state.width = c.width

LEMMA SweepTypes ==
  ASSUME IInv
  PROVE  /\ \A z \in Bases :
              z \in InHand /\ z \in KillStates /\ z.seq \in Nat /\ z.seq <= journal.seq
         /\ \A e \in Undecided : e \in Engagers /\ e \in Tasks /\ held[e] \in Bases
         /\ Told \subseteq Heard /\ journal \in Told /\ kill \in Bases
<1>1. \A e \in Undecided : e \in Engagers /\ e \in Tasks /\ held[e] \in Bases
  BY TaskNames DEF Undecided, Bases
<1>2. \A z \in Bases : z \in InHand
  BY <1>1 DEF Bases, InHand
<1> QED BY <1>1, <1>2, NothingIsNewer DEF Heard, Told, Bases

LEMMA StillSweeps ==
  ASSUME IInv, SweepInv, Still
  PROVE  SweepInv'
<1>1. /\ UNCHANGED <<journal, kill, unrecorded, binds>> /\ asked' \in {asked, Off}
      /\ Told' \subseteq Told /\ Landings' = Landings /\ Writings' \subseteq Writings
      /\ \A e \in Engagers : want'[e] = want[e] /\ held'[e] = held[e]
      /\ Undecided' = Undecided /\ (Engaging' => Engaging)
      /\ \A e \in Engagers : at'[e] = "verifying" /\ at[e] # "verifying" =>
           Answered(e) /\ NeedsVerify(held[e], Answer.state)
      /\ \A e \in Undecided : First(e) => First(e)'
  BY DEF Still
<1>2. \A e \in Undecided : e \in Engagers /\ held'[e] = held[e] /\ want'[e] = want[e]
  BY <1>1 DEF Undecided
<1>3. Bases' = Bases
  BY <1>1, <1>2 DEF Bases
<1>4. Sweeps' = Sweeps
  BY <1>1 DEF Sweeps
<1>5. \A z : Falls(z) => Falls(z)'
  BY <1>1 DEF Falls
<1>6. ASSUME Sweeps PROVE \A e \in Engagers : at'[e] # "verifying"
  <2>1. SUFFICES ASSUME NEW e \in Engagers, at'[e] = "verifying" PROVE FALSE
    OBVIOUS
  <2>2. at[e] # "verifying" /\ e \in Undecided /\ e \in Tasks
    <3>1. e \in Undecided'
      BY <2>1 DEF Undecided
    <3> QED BY <1>1, <1>6, <3>1, TaskNames DEF SweepInv
  <2>3. Answered(e) /\ Answer.state.seq > held[e].seq /\ Answer.state.width = Off
    BY <1>1, <2>1, <2>2 DEF NeedsVerify
  <2>4. Answer.state \in Told
    BY <2>2, <2>3, AnswerIsTold DEF IInv
  <2>5. Answer.state.seq <= held[e].seq /\ held[e].seq \in Nat /\ Answer.state.seq \in Nat
    BY <1>6, <2>2, <2>3, <2>4, SweepTypes, NothingIsNewer DEF SweepInv
  <2> QED BY <2>3, <2>5
<1>7. Wide => Wide'
  BY <1>1, <1>2 DEF Wide
<1>8. (SweepIsTold => SweepIsTold') /\ (SweepIsAsked => SweepIsAsked')
  BY <1>1, <1>2 DEF SweepIsTold, SweepIsAsked
<1>9. asked' = Sweeping => asked = Sweeping
  BY <1>1 DEF Sweeping, Off
<1> QED BY <1>1, <1>2, <1>3, <1>4, <1>5, <1>6, <1>7, <1>8, <1>9 DEF SweepInv

LEMMA EnteringSweeps ==
  ASSUME IInv, OrderInv, SweepInv, NEW e \in Engagers, NEW width, Enters(e, width)
  PROVE  SweepInv'
<1>1. /\ journal' = journal /\ Told' \subseteq Told /\ Landings' = Landings
      /\ Writings' \subseteq Writings /\ UNCHANGED unrecorded
      /\ \A f \in Engagers : f # e => at'[f] = at[f] /\ held'[f] = held[f] /\ want'[f] = want[f]
      /\ at[e] = "idle" /\ at'[e] = "settling" /\ held'[e] = kill /\ want'[e] = width
      /\ \A u \in Tasks : u # e /\ FirstCall(u) => FirstCall(u)'
      /\ width \in {Halted, Sweeping}
      /\ ~Engaging => Head(ready') = e
      /\ \A f \in Engagers : at[f] = "settling" => Head(ready') = Head(ready)
      /\ e \in Tasks
  BY TaskNames DEF Enters, Leaves
<1>2. /\ kill.width # Off => kill' = kill
      /\ kill.width = Off => kill'.width = width
      /\ kill'.width # Off /\ kill'.seq = kill.seq
  <2>1. CASE kill.width = Off
    <3>1. kill' = [width |-> width, seq |-> kill.seq]
      BY <2>1 DEF Enters
    <3> QED BY <1>1, <2>1, <3>1 DEF Halted, Sweeping, Off
  <2>2. CASE kill.width # Off
    BY <2>2 DEF Enters
  <2> QED BY <2>1, <2>2
<1>3. binds' = Sweeping => /\ binds = Sweeping /\ Landings = {}
                           /\ asked' = Sweeping => asked = Sweeping \/ width = Sweeping
  <2>1. SUFFICES ASSUME binds' = Sweeping
                 PROVE  /\ binds = Sweeping /\ Landings = {}
                        /\ asked' = Sweeping => asked = Sweeping \/ width = Sweeping
    OBVIOUS
  <2>2. at["release"] = "idle"
    BY <2>1 DEF Enters, Narrower, Halted, Sweeping, Off, IInv, Typed, Widths
  <2>3. \A c \in Calls : at[c.task] \in Waits
    BY DEF IInv, CallInv, Calls
  <2>4. Landings = {}
    BY <2>2, <2>3 DEF Landings, Answers, Waits
  <2>5. binds' = binds /\ asked' \in {asked, width}
    BY <2>2 DEF Enters, Wider
  <2> QED BY <2>1, <2>4, <2>5
<1>4. SUFFICES ASSUME binds' = Sweeping, Sweeps PROVE SweepInv'
  <2>1. CASE binds' # Sweeping
    BY <2>1 DEF SweepInv, Sweeps
  <2> QED BY <1>3, <2>1 DEF Sweeps
<1>5. /\ Undecided' = Undecided \cup {e} /\ e \notin Undecided /\ Landings' = {}
      /\ \A f \in Undecided : f \in Engagers /\ f # e /\ held'[f] = held[f] /\ want'[f] = want[f]
  <2>1. Undecided' = Undecided \cup {e} /\ e \notin Undecided
    BY <1>1 DEF Undecided
  <2>2. \A f \in Undecided : f \in Engagers /\ f # e
    BY <2>1 DEF Undecided
  <2> QED BY <1>1, <1>4, <2>1, <2>2 DEF Sweeps
<1>6. \A z \in Bases' : z \in Bases \/ z = kill'
  BY <1>1, <1>5 DEF Bases
<1>7. kill.seq \in Nat /\ kill \in Bases
  BY SweepTypes
<1>8. ASSUME NEW f \in Undecided', held'[f].width = Off
      PROVE  unrecorded = Off /\ First(f)'
  <2>1. CASE f = e
    <3>1. kill.width = Off /\ unrecorded = Off
      BY <1>1, <1>8, <2>1 DEF OrderInv, WriteInv
    <3>2. ~Engaging
      BY <1>4, <3>1 DEF SweepInv
    <3>3. \A u \in Engagers : at'[u] # "reading"
      BY <1>1, <3>2 DEF Engaging
    <3> QED BY <1>1, <2>1, <3>1, <3>2, <3>3 DEF First
  <2>2. CASE f # e
    <3>1. /\ f \in Undecided /\ f \in Engagers /\ f \in Tasks /\ held[f].width = Off
          /\ at'[f] = at[f]
      BY <1>1, <1>5, <1>8, <2>2, TaskNames
    <3>2. unrecorded = Off /\ First(f)
      BY <1>4, <3>1 DEF SweepInv
    <3>3. (\A u \in Engagers : at[u] # "reading") => \A u \in Engagers : at'[u] # "reading"
      BY <1>1
    <3> QED BY <1>1, <2>2, <3>1, <3>2, <3>3 DEF First
  <2> QED BY <2>1, <2>2
<1>9. \A z \in Bases', y \in Told' : y.width = Off => y.seq <= z.seq
  BY <1>1, <1>2, <1>4, <1>6, <1>7 DEF SweepInv
<1>10. \A z \in Bases' : Falls(z)'
  <2>1. \A z \in Bases : Falls(z)
    BY <1>4 DEF SweepInv
  <2>2. \A z \in Bases' : \E w \in Bases : w.seq = z.seq
    BY <1>2, <1>6, <1>7
  <2> QED BY <1>1, <2>1, <2>2 DEF Falls
<1>11. \A z \in Bases', x \in Told' : x.width = Sweeping /\ x.seq = z.seq => z.width = Sweeping
  <2>1. ASSUME NEW x \in Told, x.width = Sweeping, x.seq = kill'.seq
        PROVE  kill'.width = Sweeping
    <3>1. kill.width = Sweeping
      BY <1>2, <1>4, <1>7, <2>1 DEF SweepInv
    <3> QED BY <1>2, <3>1 DEF Sweeping, Off
  <2> QED BY <1>1, <1>4, <1>6, <2>1 DEF SweepInv
<1>12. unrecorded' = Off => \A f \in Undecided' : held'[f].seq <= kill'.seq
  BY <1>1, <1>2, <1>4, <1>5, <1>7 DEF SweepInv
<1>13. kill.width = Sweeping => kill'.width = Sweeping /\ kill' = kill
  BY <1>2 DEF Sweeping, Off
<1>14. \A f \in Undecided' : held'[f].width = Sweeping => kill'.width = Sweeping \/ Wide'
  <2>1. Wide => Wide'
    BY <1>5 DEF Wide
  <2> QED BY <1>1, <1>4, <1>5, <1>13, <2>1 DEF SweepInv
<1>15. unrecorded' = Off /\ kill'.width = Sweeping => SweepIsTold' \/ SweepIsAsked'
  <2>1. SUFFICES ASSUME unrecorded = Off, kill'.width = Sweeping
                 PROVE  SweepIsTold' \/ SweepIsAsked'
    BY <1>1
  <2>2. CASE kill.width = Off
    <3>1. want'[e] = Sweeping /\ held'[e].width = Off /\ held'[e].seq = kill'.seq
      BY <1>1, <1>2, <2>1, <2>2
    <3> QED BY <1>5, <3>1 DEF SweepIsAsked
  <2>3. CASE kill.width # Off
    <3>1. kill' = kill /\ kill.width = Sweeping
      BY <1>2, <2>1, <2>3
    <3>2. SweepIsTold \/ SweepIsAsked
      BY <1>4, <2>1, <3>1 DEF SweepInv
    <3>3. SweepIsAsked => SweepIsAsked'
      BY <1>5, <3>1 DEF SweepIsAsked
    <3>4. SweepIsTold => SweepIsTold'
      BY <1>1, <1>5, <3>1 DEF SweepIsTold
    <3> QED BY <3>2, <3>3, <3>4
  <2> QED BY <2>2, <2>3
<1>16. asked' = Sweeping => kill'.width = Sweeping \/ \E f \in Undecided' : want'[f] = Sweeping
  BY <1>1, <1>3, <1>4, <1>5, <1>13 DEF SweepInv
<1>17. \A f \in Engagers : at'[f] # "verifying"
  BY <1>1, <1>4 DEF SweepInv
<1>18. \A c \in Writings' : c.state.width = c.width
  BY <1>1, <1>4 DEF SweepInv
<1>19. kill'.width # Off
  BY <1>2
<1> QED BY <1>1, <1>5, <1>8, <1>9, <1>10, <1>11, <1>12, <1>14, <1>15, <1>16, <1>17, <1>18, <1>19
       DEF SweepInv

LEMMA SettlingSweeps ==
  ASSUME IInv, OrderInv, SweepInv, NEW e \in Engagers, NEW current, NEW pending,
         Settles(e, current, pending)
  PROVE  SweepInv'
<1>1. /\ UNCHANGED <<journal, want, held, asked, binds>> /\ Told' \subseteq Told
      /\ Landings' = Landings /\ \A f \in Engagers : f # e => at'[f] = at[f]
      /\ e \in Undecided /\ e \in Tasks /\ at'[e] \notin {"settling", "reading", "verifying"}
      /\ at[e] # "idle" /\ current \in KillStates /\ pending \in BOOLEAN
      /\ JudgesFrom(e, current, pending) /\ Judges(e, current, pending)
  BY TaskNames DEF Settles, Leaves, Undecided
<1>2. /\ want[e] \in {Halted, Sweeping} /\ kill \in KillStates /\ held[e] \in KillStates
      /\ kill.seq \in Nat /\ current.seq \in Nat /\ held[e].seq \in Nat
      /\ kill.width \in Widths /\ current.width \in Widths /\ held[e].width \in Widths
      /\ Typed /\ CallInv /\ WriteInv
  BY <1>1, TaskNames DEF IInv, EngageInv, Typed, KillStates, Widths, OrderInv
<1>3. /\ \A f \in Undecided' : f \in Undecided /\ f # e /\ held'[f] = held[f] /\ want'[f] = want[f]
                               /\ at'[f] = at[f]
      /\ \A f \in Undecided : f = e \/ f \in Undecided'
      /\ Engaging' => Engaging
  BY <1>1 DEF Undecided, Engaging
<1>4. \A z \in Bases' : z = kill' \/ z \in Bases
  BY <1>3 DEF Bases
<1>5. CASE ~Sweeps
  <2>1. ~Sweeps'
    BY <1>1, <1>5 DEF Sweeps
  <2>2. \A z : Falls(z) => Falls(z)'
    BY <1>1 DEF Falls
  <2> QED BY <1>1, <1>3, <2>1, <2>2 DEF SweepInv
<1>6. ASSUME Sweeps PROVE SweepInv'
  <2>1. at[e] \in {"settling", "reading"} /\ (pending => at[e] = "settling" /\ unrecorded # Off)
        /\ (~pending => at[e] = "reading" /\ Answered(e))
    BY <1>1, <1>6 DEF SweepInv, JudgesFrom, Undecided
  <2>2. ASSUME ~pending PROVE Answer.state \in Told
    BY <1>1, <1>2, <2>1, <2>2, AnswerIsTold
  \* The others set out from a switch that was on.
  <2>3. ASSUME NEW f \in Undecided, held[f].width = Off
        PROVE  f = e /\ unrecorded = Off /\ ~pending
    <3>1. unrecorded = Off /\ First(f) /\ f \in Engagers /\ at[f] # "verifying"
      BY <1>6, <2>3 DEF SweepInv, Undecided
    <3>2. ~pending /\ at[e] = "reading" /\ Answered(e)
      BY <1>1, <2>1, <3>1
    <3>3. FirstCall(f)
      BY <2>3, <3>1, <3>2 DEF First, Undecided
    <3>4. f \in Tasks
      BY <3>1, TaskNames
    <3> QED BY <1>2, <3>1, <3>2, <3>3, <3>4, FirstIsAnswered
  <2>4. \/ pending /\ current = held[e]
        \/ ~pending /\ current = kill /\ (unrecorded # Off \/ held[e].seq < kill.seq)
        \/ ~pending /\ unrecorded = Off /\ kill.seq <= current.seq /\ current = held[e]
        \/ /\ ~pending /\ unrecorded = Off /\ kill.seq <= current.seq /\ current = Answer.state
           /\ held[e].seq <= current.seq
    BY <1>1, <1>2, <2>1 DEF JudgesFrom
  <2>5. \/ /\ current.width >= want[e] /\ unrecorded' = unrecorded
           /\ kill' = IF pending THEN kill ELSE current
        \/ /\ current.width = Off \/ (current.width = Halted /\ want[e] = Sweeping)
           /\ kill' = [width |-> want[e], seq |-> current.seq] /\ unrecorded' # Off
    BY <1>1, <1>2 DEF Judges, Widths, Off, Halted, Sweeping
  <2>6. unrecorded' = Off => unrecorded = Off /\ ~pending /\ kill' = current
    BY <2>1, <2>5
  \* A sweep in memory, or asked for, is in memory still.
  <2>7. ASSUME unrecorded = Off, kill.width = Sweeping, kill.seq <= current.seq,
               current = held[e] \/ (~pending /\ current = Answer.state)
        PROVE  current.width = Sweeping \/ want[e] = Sweeping
    <3>1. CASE SweepIsTold
      BY <1>1, <1>2, <2>2, <2>7, <3>1 DEF SweepIsTold
    <3>2. CASE SweepIsAsked
      BY <2>3, <3>2 DEF SweepIsAsked
    <3> QED BY <1>6, <2>7, <3>1, <3>2 DEF SweepInv
  <2>8. ASSUME kill.width = Sweeping \/ want[e] = Sweeping PROVE kill'.width = Sweeping
    <3>1. CASE /\ current.width >= want[e] /\ kill' = IF pending THEN kill ELSE current
      <4>1. CASE want[e] = Sweeping
        <5>1. current.width = Sweeping
          BY <1>2, <3>1, <4>1 DEF Widths, Off, Halted, Sweeping
        <5>2. CASE pending
          <6>1. held[e].width = Sweeping /\ ~Wide
            BY <2>3, <2>4, <5>1, <5>2 DEF Wide
          <6> QED BY <1>1, <1>6, <3>1, <5>2, <6>1 DEF SweepInv
        <5> QED BY <3>1, <5>1, <5>2
      <4>2. CASE want[e] # Sweeping
        BY <2>4, <2>7, <2>8, <3>1, <4>2, <1>6, <2>3
      <4> QED BY <4>1, <4>2
    <3>2. CASE /\ current.width = Off \/ (current.width = Halted /\ want[e] = Sweeping)
               /\ kill' = [width |-> want[e], seq |-> current.seq]
      <4>1. SUFFICES ASSUME want[e] # Sweeping PROVE FALSE
        BY <3>2
      <4>2. current.width = Off /\ kill.width = Sweeping
        BY <2>8, <3>2, <4>1
      <4>3. ~pending /\ current # kill
        BY <1>1, <2>3, <2>4, <4>2 DEF Off, Sweeping
      <4> QED BY <2>4, <2>7, <4>1, <4>2, <4>3 DEF Off, Sweeping
    <3> QED BY <2>5, <3>1, <3>2
  <2>9. kill'.width # Off
    <3>1. pending => kill.width # Off
      BY <1>2, <2>1 DEF WriteInv
    <3>2. current.width >= want[e] => current.width # Off
      BY <1>2 DEF Widths, Off, Halted, Sweeping
    <3>3. want[e] # Off
      BY <1>2 DEF Off, Halted, Sweeping
    <3> QED BY <2>5, <3>1, <3>2, <3>3
  <2>10. kill'.seq \in Nat /\ \E z \in Bases : z.seq \in Nat /\ z.seq <= kill'.seq
    <3>1. kill \in Bases /\ held[e] \in Bases
      BY <1>1 DEF Bases
    <3>2. kill'.seq = current.seq \/ (kill' = kill)
      BY <2>5
    <3>3. current = held[e] \/ current = kill \/ kill.seq <= current.seq
      BY <2>4
    <3> QED BY <1>2, <3>1, <3>2, <3>3
  <2>11. \A z \in Bases', y \in Told' : y.width = Off => y.seq <= z.seq
    <3>1. \A z \in Bases, y \in Told : y.width = Off => y.seq <= z.seq
      BY <1>6 DEF SweepInv
    <3>2. \A y \in Told : y.seq \in Nat
      BY NothingIsNewer
    <3>3. \A y \in Told : y.width = Off => y.seq <= kill'.seq
      BY <2>10, <3>1, <3>2
    <3> QED BY <1>1, <1>4, <3>1, <3>3
  <2>12. \A z \in Bases' : Falls(z)'
    <3>1. \A z \in Bases : Falls(z)
      BY <1>6 DEF SweepInv
    <3>2. \A y \in Told : y.seq \in Nat
      BY NothingIsNewer
    <3>3. Falls(kill')
      BY <2>10, <3>1, <3>2 DEF Falls
    <3> QED BY <1>1, <1>4, <3>1, <3>3 DEF Falls
  <2>13. \A z \in Bases', x \in Told' : x.width = Sweeping /\ x.seq = z.seq => z.width = Sweeping
    <3>1. \A z \in Bases, x \in Told : x.width = Sweeping /\ x.seq = z.seq => z.width = Sweeping
      BY <1>6 DEF SweepInv
    <3>2. kill \in Bases /\ held[e] \in Bases
      BY <1>1 DEF Bases
    <3>3. ASSUME NEW x \in Told, x.width = Sweeping, x.seq = current.seq
          PROVE  current.width = Sweeping
      <4>1. CASE current \in Bases
        BY <3>1, <3>3, <4>1
      <4>2. CASE ~pending /\ current = Answer.state
        BY <2>2, <3>3, <4>2 DEF OrderInv, TellInv
      <4> QED BY <2>4, <3>2, <4>1, <4>2
    <3>4. ASSUME NEW x \in Told, x.width = Sweeping, x.seq = kill'.seq
          PROVE  kill'.width = Sweeping
      <4>1. CASE kill' = kill
        BY <3>1, <3>2, <3>4, <4>1
      <4>2. CASE kill' = current
        BY <3>3, <3>4, <4>2
      <4>3. CASE kill' = [width |-> want[e], seq |-> current.seq]
        <5>1. current.width = Sweeping
          BY <3>3, <3>4, <4>3
        <5> QED BY <2>5, <4>1, <4>2, <5>1 DEF Off, Halted, Sweeping
      <4> QED BY <2>5, <4>1, <4>2, <4>3
    <3> QED BY <1>1, <1>4, <3>1, <3>4
  <2>14. ASSUME unrecorded' = Off, NEW f \in Undecided'
         PROVE  held'[f].seq <= kill.seq /\ kill.seq <= kill'.seq
                /\ held'[f].seq \in Nat /\ held'[f] \in Bases
    <3>1. held[f].seq <= kill.seq /\ f \in Undecided
      BY <1>3, <1>6, <2>6, <2>14 DEF SweepInv
    <3>2. kill.seq <= kill'.seq
      BY <1>2, <2>4, <2>6, <2>14
    <3> QED BY <1>3, <2>14, <3>1, <3>2, SweepTypes
  <2>15. unrecorded' = Off => \A f \in Undecided' : held'[f].seq <= kill'.seq
    BY <1>2, <2>10, <2>14
  <2>16. \A f \in Undecided' : held'[f].width = Sweeping => kill'.width = Sweeping \/ Wide'
    <3>1. Wide => want[e] = Sweeping
      BY <2>3 DEF Wide
    <3> QED BY <1>3, <1>6, <2>8, <3>1 DEF SweepInv
  <2>17. unrecorded' = Off /\ kill'.width = Sweeping => SweepIsTold' \/ SweepIsAsked'
    <3>1. SUFFICES ASSUME unrecorded' = Off, kill'.width = Sweeping PROVE SweepIsTold'
      OBVIOUS
    <3>2. unrecorded = Off /\ ~pending /\ kill' = current /\ current.width = Sweeping
      BY <2>6, <3>1
    <3>3. kill.width = Sweeping => SweepIsTold \/ SweepIsAsked
      BY <1>6, <3>2 DEF SweepInv
    <3>4. SweepIsAsked => held[e].width = Off /\ held[e].seq = kill.seq
      BY <2>3 DEF SweepIsAsked
    <3>5. CASE current = kill /\ held[e].seq < kill.seq
      <4>1. SweepIsTold
        BY <1>2, <3>2, <3>3, <3>4, <3>5
      <4> QED BY <1>1, <1>3, <3>2, <3>5, <4>1 DEF SweepIsTold
    <3>6. CASE kill.seq <= current.seq /\ current = held[e]
      <4>1. held[e].seq <= kill.seq
        BY <1>1, <1>6, <3>2 DEF SweepInv
      <4>2. kill.width = Sweeping
        <5>1. ~Wide
          BY <2>3, <3>2, <3>6 DEF Wide, Off, Sweeping
        <5> QED BY <1>1, <1>6, <3>2, <3>6, <5>1 DEF SweepInv
      <4>3. SweepIsTold
        BY <3>2, <3>3, <3>4, <3>6, <4>2 DEF Off, Sweeping
      <4>4. kill'.seq = kill.seq
        BY <1>2, <3>2, <3>6, <4>1
      <4> QED BY <1>1, <1>3, <4>3, <4>4 DEF SweepIsTold
    <3>7. CASE /\ kill.seq <= current.seq /\ current = Answer.state /\ held[e].seq <= current.seq
      <4>1. current \in Told /\ Falls(held[e]) /\ journal \in Told /\ current.seq <= journal.seq
        <5>1. current \in Told
          BY <2>2, <3>2, <3>7
        <5>2. held[e] \in Bases
          BY <1>1 DEF Bases
        <5> QED BY <1>6, <5>1, <5>2, NothingIsNewer DEF SweepInv, Told
      <4>2. \A y \in Told : y.seq < current.seq \/ y.width = Sweeping
        <5>1. \A y \in Told : y.seq \in Nat
          BY NothingIsNewer
        <5> QED BY <1>2, <3>2, <3>7, <4>1, <5>1 DEF Falls
      <4>3. journal.width = Sweeping
        BY <1>2, <4>1, <4>2, NothingIsNewer
      <4>4. \A f \in Undecided' : held'[f].seq < kill'.seq \/ held'[f].width = Sweeping
        <5>1. SUFFICES ASSUME NEW f \in Undecided', ~(held'[f].seq < kill'.seq)
                       PROVE  held'[f].width = Sweeping
          OBVIOUS
        <5>2. held'[f].seq = current.seq /\ held'[f] \in Bases
          BY <1>2, <2>14, <3>1, <3>2, <5>1
        <5> QED BY <1>6, <3>2, <4>1, <5>2 DEF SweepInv
      <4> QED BY <1>1, <3>2, <4>2, <4>3, <4>4 DEF SweepIsTold
    <3> QED BY <2>4, <3>2, <3>5, <3>6, <3>7
  <2>18. asked' = Sweeping => kill'.width = Sweeping \/ \E f \in Undecided' : want'[f] = Sweeping
    <3>1. asked = Sweeping => kill.width = Sweeping \/ \E f \in Undecided : want[f] = Sweeping
      BY <1>6 DEF SweepInv
    <3> QED BY <1>1, <1>3, <2>8, <3>1
  <2>19. \A f \in Undecided' : held'[f].width # Off
    BY <1>3, <2>3
  <2>20. \A f \in Engagers : at'[f] # "verifying"
    BY <1>1, <1>6 DEF SweepInv
  <2>21. \A c \in Writings' : c.state.width = c.width
    BY <1>1, <1>6 DEF SweepInv, Judges
  <2>22. Landings' = {}
    BY <1>1, <1>6 DEF Sweeps
  <2> QED BY <2>9, <2>11, <2>12, <2>13, <2>15, <2>16, <2>17, <2>18, <2>19, <2>20, <2>21, <2>22
          DEF SweepInv
<1> QED BY <1>5, <1>6

LEMMA TakingSweeps ==
  ASSUME IInv, OrderInv, SweepInv, NEW t \in Tasks, Takes(t)
  PROVE  SweepInv'
<1>1. /\ UNCHANGED <<journal, want, held, asked, binds>> /\ Told' \subseteq Told
      /\ Landings' = Landings /\ \A f \in Engagers : f # t => at'[f] = at[f]
      /\ at[t] = "recording" /\ (t \in Engagers => at'[t] = "idle")
      /\ Answer \in Writings /\ Writings' = {} /\ unrecorded' = Off /\ unrecorded # Off
      /\ kill' = [width |-> Answer.width, seq |-> Answer.state.seq]
      /\ Answer.width = unrecorded /\ Appended(Answer)
  BY TaskNames DEF Takes, Leaves
<1>2. Undecided' = Undecided /\ (Engaging' => Engaging)
  BY <1>1 DEF Undecided, Engaging
<1>3. \A z \in Bases' : z = kill' \/ z \in Bases
  BY <1>1, <1>2 DEF Bases
<1>4. CASE ~Sweeps
  <2>1. ~Sweeps'
    BY <1>1, <1>4 DEF Sweeps
  <2>2. \A z : Falls(z) => Falls(z)'
    BY <1>1 DEF Falls
  <2> QED BY <1>1, <1>2, <2>1, <2>2 DEF SweepInv
<1>5. ASSUME Sweeps PROVE SweepInv'
  <2>1. kill'.width = kill.width /\ kill.width # Off
    BY <1>1 DEF OrderInv, WriteInv
  <2>2. kill' = Answer.state /\ kill' \in Told
    <3>1. Answer.state \in KillStates /\ Answer.state \in Told
      <4>1. Answer.state \in Told
        BY <1>1 DEF Writings, Told
      <4> QED BY <4>1, NothingIsNewer
    <3>2. Answer.state.width = Answer.width
      BY <1>1, <1>5 DEF SweepInv
    <3> QED BY <1>1, <3>1, <3>2 DEF KillStates
  <2>3. \A f \in Undecided : held[f].width # Off
    BY <1>1, <1>5 DEF SweepInv
  <2>4. \A z \in Bases : z.seq < kill'.seq
    <3>1. Answer \in Answers
      BY <1>1 DEF Writings
    <3> QED BY <1>1, <2>2, <3>1, SweepTypes DEF OrderInv, TellInv
  <2>5. /\ kill'.seq \in Nat /\ kill.seq \in Nat /\ kill \in Bases /\ journal \in Told
        /\ \A x \in Told : x.seq \in Nat /\ x.seq <= journal.seq
        /\ \A z \in Bases : z.seq \in Nat
        /\ \A f \in Undecided : held[f] \in Bases
    BY <2>2, SweepTypes, NothingIsNewer
  <2>6. \A z \in Bases', y \in Told' : y.width = Off => y.seq <= z.seq
    <3>1. \A z \in Bases, y \in Told : y.width = Off => y.seq <= z.seq
      BY <1>5 DEF SweepInv
    <3> QED BY <1>1, <1>3, <2>4, <2>5, <3>1
  <2>7. Falls(kill) /\ \A z \in Bases' : Falls(z)'
    <3>1. \A z \in Bases : Falls(z)
      BY <1>5 DEF SweepInv
    <3>2. Falls(kill')
      BY <2>4, <2>5, <3>1 DEF Falls
    <3> QED BY <1>1, <1>3, <2>5, <3>1, <3>2 DEF Falls
  <2>8. \A z \in Bases', x \in Told' : x.width = Sweeping /\ x.seq = z.seq => z.width = Sweeping
    <3>1. \A z \in Bases, x \in Told : x.width = Sweeping /\ x.seq = z.seq => z.width = Sweeping
      BY <1>5 DEF SweepInv
    <3>2. \A x \in Told : x.seq = kill'.seq => x = kill'
      BY <2>2 DEF OrderInv, TellInv
    <3> QED BY <1>1, <1>3, <3>1, <3>2
  <2>9. \A f \in Undecided' : held'[f].seq < kill'.seq /\ held'[f].seq <= kill'.seq
    BY <1>1, <1>2, <2>4, <2>5
  <2>10. \A f \in Undecided' : held'[f].width = Sweeping => kill'.width = Sweeping
    <3>1. ~Wide
      BY <2>3 DEF Wide
    <3> QED BY <1>1, <1>2, <1>5, <2>1, <3>1 DEF SweepInv
  <2>11. kill'.width = Sweeping => SweepIsTold'
    <3>1. SUFFICES ASSUME kill'.width = Sweeping PROVE SweepIsTold'
      OBVIOUS
    <3>2. \A y \in Told : y.seq < kill'.seq \/ y.width = Sweeping
      BY <2>2, <2>4, <2>5, <2>7, <3>1 DEF Falls
    <3>3. journal.width = Sweeping
      BY <2>2, <2>5, <3>2
    <3> QED BY <1>1, <2>9, <3>2, <3>3 DEF SweepIsTold
  <2>12. asked' = Sweeping => kill'.width = Sweeping \/ \E f \in Undecided' : want'[f] = Sweeping
    BY <1>1, <1>2, <1>5, <2>1 DEF SweepInv
  <2>13. \A f \in Undecided' : held'[f].width # Off
    BY <1>1, <1>2, <2>3
  <2>14. \A f \in Engagers : at'[f] # "verifying"
    BY <1>1, <1>5 DEF SweepInv
  <2>15. Landings' = {}
    BY <1>1, <1>5 DEF Sweeps
  <2> QED BY <1>1, <2>1, <2>6, <2>7, <2>8, <2>9, <2>10, <2>11, <2>12, <2>13, <2>14,
          <2>15 DEF SweepInv
<1> QED BY <1>4, <1>5

LEMMA LandingSweeps ==
  ASSUME IInv, OrderInv, StopInv, SweepInv, Lands
  PROVE  SweepInv'
<1>1. /\ UNCHANGED <<journal, binds>> /\ asked' = Off /\ Told' \subseteq Told
      /\ Answer \in Landings /\ Landings' = {} /\ Writings' = {}
      /\ kill' = Answer.state /\ Answer.state.width = Off
      /\ \A e \in Engagers : at'[e] = at[e]
  BY TaskNames DEF Lands, Leaves
<1>2. CASE binds' # Sweeping
  BY <1>1, <1>2 DEF SweepInv, Sweeps
<1>3. ASSUME binds = Sweeping PROVE SweepInv'
  <2>1. ~Engaging /\ ~Engaging' /\ Undecided' = {} /\ Falls(kill')
    BY <1>1, <1>3 DEF SweepInv, Undecided, Engaging
  <2>2. Bases' = {kill'} /\ kill' \in Told
    BY <1>1, <2>1 DEF Bases, Landings, Told
  <2>3. \A y \in Told' : y.width = Off => y.seq <= kill'.seq
    BY <1>1, <1>3 DEF StopInv, Heard, Off, Sweeping
  <2>4. \A z \in Bases' : Falls(z)'
    BY <1>1, <2>1, <2>2 DEF Falls
  <2>5. \A x \in Told' : x.seq = kill'.seq => x = kill'
    BY <1>1, <2>2 DEF OrderInv, TellInv
  <2>6. kill'.width # Sweeping /\ asked' # Sweeping
    BY <1>1 DEF Off, Sweeping
  <2>7. \A e \in Engagers : at'[e] # "verifying"
    BY <2>1 DEF Engaging
  <2> QED BY <1>1, <2>1, <2>2, <2>3, <2>4, <2>5, <2>6, <2>7 DEF SweepInv
<1> QED BY <1>1, <1>2, <1>3

LEMMA AdoptingSweeps ==
  ASSUME IInv, OrderInv, StopInv, SweepInv, NEW m \in Mergers, Adopts(m)
  PROVE  SweepInv'
<1>1. /\ UNCHANGED <<journal, unrecorded, want, ready, asked, binds>> /\ unrecorded = Off
      /\ Told' \subseteq Told /\ Landings' = Landings /\ Writings' \subseteq Writings
      /\ \A e \in Engagers : at'[e] = at[e] /\ held'[e] = held[e]
      /\ m \in Tasks /\ m \notin Engagers
      /\ \A u \in Tasks : u # m /\ FirstCall(u) => FirstCall(u)'
      /\ \/ /\ kill' \in Told
            /\ \/ kill'.seq > kill.seq
               \/ kill'.seq = kill.seq /\ kill'.width = Sweeping /\ kill.width # Sweeping
         \/ at[m] = "verifying" /\ kill = held[m] /\ kill' = found[m]
  BY TaskNames DEF Adopts, Leaves
<1>2. /\ Undecided' = Undecided /\ Engaging' = Engaging /\ Sweeps' = Sweeps
      /\ \A e \in Undecided : e \in Engagers /\ e \in Tasks /\ e # m
  BY <1>1, TaskNames DEF Undecided, Engaging, Sweeps
<1>3. \A z \in Bases' : z = kill' \/ z \in Bases
  BY <1>1, <1>2 DEF Bases
<1>4. CASE ~Sweeps
  <2>1. \A z : Falls(z) => Falls(z)'
    BY <1>1 DEF Falls
  <2> QED BY <1>1, <1>2, <1>4, <2>1 DEF SweepInv
<1>5. ASSUME Sweeps PROVE SweepInv'
  <2>1. /\ kill' \in Told
        /\ \/ kill'.seq > kill.seq
           \/ kill'.seq = kill.seq /\ kill'.width = Sweeping /\ kill.width # Sweeping
    <3>1. SUFFICES ASSUME at[m] = "verifying", kill = held[m], kill' = found[m] PROVE FALSE
      BY <1>1
    <3>2. found[m] \in Heard
      BY <3>1 DEF Heard
    <3>3. found[m].width = Off /\ found[m].seq > kill.seq
      BY <1>1, <3>1 DEF OrderInv, VerifyInv
    <3>4. Bound
      BY <1>5 DEF Bound, Sweeps, Off, Sweeping
    <3>5. found[m].seq <= kill.seq /\ kill.seq \in Nat /\ found[m].seq \in Nat
      BY <1>1, <3>2, <3>3, <3>4 DEF StopInv, IInv, Typed, KillStates
    <3> QED BY <3>3, <3>5
  <2>2. /\ kill'.seq \in Nat /\ kill.seq \in Nat /\ kill \in Bases /\ journal \in Told
        /\ \A x \in Told : x.seq \in Nat /\ x.seq <= journal.seq
        /\ \A z \in Bases : z.seq \in Nat
        /\ \A f \in Undecided : held[f] \in Bases
    BY <2>1, SweepTypes, NothingIsNewer
  <2>3. kill.seq <= kill'.seq
    BY <2>1, <2>2
  <2>4. kill'.width # Off
    BY <1>5, <2>1, <2>2 DEF SweepInv, Off, Sweeping
  <2>5. ASSUME NEW e \in Undecided', held'[e].width = Off
        PROVE  unrecorded' = Off /\ First(e)'
    <3>1. First(e)
      BY <1>1, <1>2, <1>5, <2>5 DEF SweepInv
    <3> QED BY <1>1, <1>2, <3>1 DEF First
  <2>6. \A z \in Bases', y \in Told' : y.width = Off => y.seq <= z.seq
    <3>1. \A z \in Bases, y \in Told : y.width = Off => y.seq <= z.seq
      BY <1>5 DEF SweepInv
    <3> QED BY <1>1, <1>3, <2>2, <2>3, <3>1
  <2>7. Falls(kill) /\ \A z \in Bases' : Falls(z)'
    <3>1. \A z \in Bases : Falls(z)
      BY <1>5 DEF SweepInv
    <3>2. Falls(kill')
      BY <2>2, <2>3, <3>1 DEF Falls
    <3> QED BY <1>1, <1>3, <2>2, <3>1, <3>2 DEF Falls
  <2>8. \A z \in Bases, x \in Told : x.width = Sweeping /\ x.seq = z.seq => z.width = Sweeping
    BY <1>5 DEF SweepInv
  <2>9. \A z \in Bases', x \in Told' : x.width = Sweeping /\ x.seq = z.seq => z.width = Sweeping
    <3>1. \A x \in Told : x.seq = kill'.seq => x = kill'
      BY <2>1 DEF OrderInv, TellInv
    <3> QED BY <1>1, <1>3, <2>8, <3>1
  <2>10. \A f \in Undecided : held[f].seq <= kill.seq /\ held[f].seq <= kill'.seq
    <3>1. \A f \in Undecided : held[f].seq <= kill.seq
      BY <1>1, <1>5 DEF SweepInv
    <3> QED BY <2>2, <2>3, <3>1
  <2>11. kill.width = Sweeping => kill'.width = Sweeping \/ Wide
    <3>1. SweepIsTold => kill'.width = Sweeping
      BY <2>1, <2>2, <2>3 DEF SweepIsTold
    <3>2. SweepIsAsked => Wide
      BY DEF SweepIsAsked, Wide
    <3> QED BY <1>1, <1>5, <3>1, <3>2 DEF SweepInv
  <2>12. Wide' = Wide
    BY <1>1, <1>2 DEF Wide
  <2>13. \A f \in Undecided' : held'[f].width = Sweeping => kill'.width = Sweeping \/ Wide'
    BY <1>1, <1>2, <1>5, <2>11, <2>12 DEF SweepInv
  <2>14. kill'.width = Sweeping => SweepIsTold'
    <3>1. SUFFICES ASSUME kill'.width = Sweeping PROVE SweepIsTold'
      OBVIOUS
    <3>2. \A y \in Told : y.seq < kill'.seq \/ y.width = Sweeping
      BY <2>1, <2>2, <2>3, <2>7, <3>1 DEF Falls
    <3>3. journal.width = Sweeping
      BY <2>1, <2>2, <3>2
    <3>4. \A f \in Undecided : held[f].seq < kill'.seq \/ held[f].width = Sweeping
      BY <2>1, <2>2, <2>8, <2>10, <3>1
    <3> QED BY <1>1, <1>2, <3>2, <3>3, <3>4 DEF SweepIsTold
  <2>15. asked' = Sweeping => kill'.width = Sweeping \/ \E f \in Undecided' : want'[f] = Sweeping
    <3>1. Wide => \E f \in Undecided : want[f] = Sweeping
      BY DEF Wide
    <3> QED BY <1>1, <1>2, <1>5, <2>11, <3>1 DEF SweepInv
  <2>16. \A f \in Engagers : at'[f] # "verifying"
    BY <1>1, <1>5 DEF SweepInv
  <2>17. Landings' = {} /\ \A c \in Writings' : c.state.width = c.width
    BY <1>1, <1>5 DEF Sweeps, SweepInv
  <2>18. \A f \in Undecided' : held'[f].seq <= kill'.seq
    BY <1>1, <1>2, <2>10
  <2> QED BY <2>4, <2>5, <2>6, <2>7, <2>9, <2>13, <2>14, <2>15, <2>16, <2>17, <2>18 DEF SweepInv
<1> QED BY <1>4, <1>5

\* The journal takes something newer than all that was told, and no sweep of it ends.
LEMMA FallsStay ==
  ASSUME IInv, journal' \in KillStates, journal'.seq = journal.seq + 1,
         Told' \subseteq Told \cup {journal'},
         journal'.width = Sweeping \/ journal.width # Sweeping
  PROVE  \A z : Falls(z) => Falls(z)'
<1> SUFFICES ASSUME NEW z, Falls(z), NEW x \in Told', NEW y \in Told',
                    x.width = Sweeping, y.width # Sweeping, x.seq <= y.seq
             PROVE  x.seq < z.seq
  BY DEF Falls
<1>1. /\ \A w \in Told : w.seq \in Nat /\ w.seq <= journal.seq
      /\ journal.seq \in Nat /\ journal'.seq \in Nat /\ journal \in Told
  BY NothingIsNewer DEF KillStates, Told
<1>2. CASE y \in Told
  <2>1. x \in Told
    BY <1>1, <1>2
  <2> QED BY <1>2, <2>1 DEF Falls
<1>3. CASE y = journal'
  <2>1. x \in Told /\ journal.width # Sweeping
    BY <1>3
  <2> QED BY <1>1, <2>1 DEF Falls
<1> QED BY <1>2, <1>3

LEMMA NewerSweeps ==
  ASSUME IInv, SweepInv, UNCHANGED <<kill, unrecorded, at, want, held, ready, asked>>,
         journal' \in KillStates, journal'.seq = journal.seq + 1, journal'.width # Off,
         Told' \subseteq Told \cup {journal'}, Landings' = Landings,
         \A u \in Tasks : FirstCall(u) => FirstCall(u)',
         \A c \in Writings' : c \in Writings \/ (binds' = Sweeping => c.state.width = c.width),
         binds' = Sweeping =>
           binds = Sweeping /\ (journal'.width = Sweeping \/ journal.width # Sweeping)
  PROVE  SweepInv'
<1>1. Undecided' = Undecided /\ Engaging' = Engaging /\ Bases' = Bases
  BY DEF Undecided, Engaging, Bases
<1>2. CASE binds' # Sweeping
  BY <1>2 DEF SweepInv, Sweeps
<1>3. ASSUME binds' = Sweeping PROVE SweepInv'
  <2>1. binds = Sweeping /\ (journal'.width = Sweeping \/ journal.width # Sweeping)
    BY <1>3
  <2>2. \A z : Falls(z) => Falls(z)'
    BY <2>1, FallsStay
  <2>3. CASE Landings # {}
    BY <1>1, <2>1, <2>2, <2>3 DEF SweepInv, Sweeps
  <2>4. ASSUME Sweeps PROVE SweepInv'
    <3>1. /\ \A z \in Bases : z.seq \in Nat /\ z.seq <= journal.seq
          /\ journal.seq \in Nat /\ journal'.seq \in Nat
          /\ \A e \in Undecided : e \in Engagers /\ e \in Tasks
      BY SweepTypes, NothingIsNewer DEF KillStates
    <3>2. \A e \in Undecided : First(e) => First(e)'
      BY <3>1 DEF First
    <3>3. \A z \in Bases', y \in Told' : y.width = Off => y.seq <= z.seq
      BY <1>1, <2>4 DEF SweepInv
    <3>4. \A z \in Bases', x \in Told' : x.width = Sweeping /\ x.seq = z.seq => z.width = Sweeping
      <4>1. \A z \in Bases : journal'.seq # z.seq
        BY <3>1
      <4> QED BY <1>1, <2>4, <4>1 DEF SweepInv
    <3>5. Wide' = Wide
      BY <1>1 DEF Wide
    <3>6. (SweepIsTold => SweepIsTold') /\ (SweepIsAsked => SweepIsAsked')
      BY <1>1, <2>1 DEF SweepIsTold, SweepIsAsked
    <3>7. \A c \in Writings' : c.state.width = c.width
      BY <1>3, <2>4 DEF SweepInv
    <3>8. Landings' = {} /\ \A z \in Bases' : Falls(z)'
      BY <1>1, <2>2, <2>4 DEF SweepInv, Sweeps
    <3> QED BY <1>1, <2>4, <3>2, <3>3, <3>4, <3>5, <3>6, <3>7, <3>8 DEF SweepInv
  <2> QED BY <2>1, <2>3, <2>4 DEF Sweeps
<1> QED BY <1>2, <1>3

LEMMA RecordingSweeps ==
  ASSUME IInv, OrderInv, SweepInv, NEW c \in CallSet, Records(c)
  PROVE  SweepInv'
<1>1. /\ UNCHANGED <<kill, unrecorded, superseded, at, want, held, found, ready>>
      /\ Answers' = Answers \cup {c} /\ c.done /\ c.state = journal' /\ c.ok
      /\ journal' = AfterRecord(journal, c.width) /\ Forgets(c.width) /\ Overtakes(c.width)
      /\ \A d \in Answers : d.task # c.task
      /\ at[c.task] \in {"recording", "releasing"}
      /\ at[c.task] = "releasing" => c.task = "release"
      /\ at[c.task] = "recording" => c.width # Off
      /\ c.task = "release" => c.width = Off
      /\ \A u \in Tasks : FirstCall(u) => FirstCall(u)'
  BY DEF Records, JournalTells, Appended, memoryVars, taskVars
<1>2. /\ journal.seq \in Nat /\ journal'.seq = journal.seq + 1 /\ c.width \in Widths
      /\ journal' \in KillStates /\ journal.width \in Widths
      /\ journal'.width = Off <=> c.width = Off
  BY NothingIsNewer, AfterRecordIsNewer, <1>1 DEF CallSet, KillStates
<1>3. Told' \subseteq Told \cup {journal'}
  BY <1>1 DEF Told
<1>4. CASE c.width = Off
  <2>1. c.task = "release" /\ Landings = {}
    BY <1>1, <1>4 DEF Landings
  <2>2. Landings' = {c}
    BY <1>1, <2>1 DEF Landings
  <2>3. binds' = Sweeping => ~Engaging'
    BY <1>1, <1>4 DEF Overtakes, Engaging, Halted, Sweeping
  <2>4. Falls(c.state)'
    <3>1. \A x \in Told : x.seq \in Nat /\ x.seq <= journal.seq
      BY NothingIsNewer
    <3>2. journal'.width # Sweeping
      BY <1>2, <1>4 DEF Off, Sweeping
    <3>3. \A x \in Told' : x.width = Sweeping => x.seq < journal'.seq
      BY <1>2, <1>3, <3>1, <3>2
    <3> QED BY <1>1, <3>3 DEF Falls
  <2> QED BY <2>2, <2>3, <2>4 DEF SweepInv, Sweeps
<1>5. CASE c.width # Off
  <2>1. Landings' = Landings /\ \A d \in Writings' : d \in Writings \/ d = c
    BY <1>1, <1>5 DEF Landings, Writings
  <2>2. asked' = asked
    BY <1>1, <1>5 DEF Forgets
  <2>3. ASSUME binds' = Sweeping
        PROVE  binds = Sweeping /\ ~(c.width < journal.width)
    BY <1>1, <1>5, <2>3 DEF Overtakes, Narrower, IInv, Typed, Widths, Off, Halted, Sweeping
  <2>4. journal'.width = Wider(c.width, journal.width)
    BY <1>1, <1>5 DEF AfterRecord
  <2>5. ASSUME binds' = Sweeping
        PROVE  /\ binds = Sweeping /\ c.state.width = c.width
               /\ journal'.width = Sweeping \/ journal.width # Sweeping
    BY <1>1, <1>2, <2>3, <2>4, <2>5 DEF Wider, Widths, Off, Halted, Sweeping
  <2>6. journal'.width # Off
    BY <1>2, <1>5
  <2> QED BY <1>1, <1>2, <1>3, <2>1, <2>2, <2>5, <2>6, NewerSweeps
<1> QED BY <1>4, <1>5

LEMMA ElsewhereSweeps ==
  ASSUME IInv, OrderInv, SweepInv, EngageElsewhere \/ ReleaseElsewhere
  PROVE  SweepInv'
<1>1. /\ UNCHANGED <<memoryVars, taskVars, calls>> /\ Answers' = Answers
      /\ journal' \in KillStates /\ journal'.seq = journal.seq + 1
      /\ \/ \E width \in {Halted, Sweeping} :
              journal' = AfterRecord(journal, width) /\ UNCHANGED <<asked, binds>>
         \/ binds' = Off
  BY ElsewhereMoves
<1>2. UNCHANGED <<kill, unrecorded, superseded, at, want, held, ready>>
  BY <1>1 DEF memoryVars, taskVars
<1>3. Landings' = Landings /\ Writings' = Writings /\ Told' \subseteq Told \cup {journal'}
  BY <1>1, <1>2 DEF Landings, Writings, Told
<1>4. CASE binds' = Off
  BY <1>4 DEF SweepInv, Sweeps, Off, Sweeping
<1>5. ASSUME NEW width \in {Halted, Sweeping}, journal' = AfterRecord(journal, width),
             UNCHANGED <<asked, binds>>
      PROVE  SweepInv'
  <2>1. journal.width \in Widths
    BY NothingIsNewer DEF KillStates
  <2>2. journal'.width = Wider(width, journal.width)
    BY <1>5 DEF AfterRecord, Off, Halted, Sweeping
  <2>3. journal'.width # Off /\ (journal'.width = Sweeping \/ journal.width # Sweeping)
    BY <1>5, <2>1, <2>2 DEF Wider, Widths, Off, Halted, Sweeping
  <2>4. \A u \in Tasks : FirstCall(u) => FirstCall(u)'
    BY <1>1, <1>2 DEF FirstCall
  <2> QED BY <1>1, <1>2, <1>3, <1>5, <2>3, <2>4, NewerSweeps
<1> QED BY <1>1, <1>4, <1>5

\* With nothing on its way, memory and the journal are the only kill states there are.
LEMMA CrashSweeps ==
  ASSUME IInv, OrderInv, SweepInv, CrashAndRecover
  PROVE  SweepInv'
<1>1. /\ journal' = journal /\ kill' = journal
      /\ asked' = IF Engaging \/ unrecorded # Off THEN Off ELSE Promised
      /\ Answers' = {} /\ Told' = {journal} /\ Undecided' = {} /\ ~Engaging'
  BY CrashMoves
<1>2. Landings' = {} /\ Writings' = {} /\ journal.seq \in Nat
  BY <1>1, NothingIsNewer DEF Landings, Writings
<1>3. ASSUME asked' = Sweeping PROVE journal.width = Sweeping
  <2>1. ~Engaging /\ unrecorded = Off /\ Promised = Sweeping
    BY <1>1, <1>3 DEF Off, Sweeping
  <2>2. asked = Sweeping /\ binds = Sweeping
    BY <2>1 DEF Promised, Narrower, IInv, Typed, Widths, Off, Halted, Sweeping
  <2>3. Sweeps
    BY <2>2, NothingOnItsWay DEF Sweeps, Off, Sweeping
  <2>4. Undecided = {}
    BY <2>1 DEF Undecided, Engaging
  <2>5. kill.width = Sweeping
    BY <2>2, <2>3, <2>4 DEF SweepInv
  <2> QED BY <2>1, <2>3, <2>4, <2>5 DEF SweepInv, SweepIsTold, SweepIsAsked
<1>4. kill' = journal' /\ journal'.seq \in Nat /\ Told' = {journal'}
      /\ (asked' = Sweeping => kill'.width = Sweeping)
  BY <1>1, <1>2, <1>3
<1>5. Bases' = {journal'}
  BY <1>1 DEF Bases
<1>6. \A z \in Bases' : Falls(z)'
  BY <1>4, <1>5 DEF Falls
<1>7. kill'.width = Sweeping => SweepIsTold'
  BY <1>1, <1>4 DEF SweepIsTold
<1>8. \A e \in Engagers : at'[e] # "verifying"
  BY <1>1 DEF Engaging
<1> QED BY <1>1, <1>2, <1>4, <1>5, <1>6, <1>7, <1>8 DEF SweepInv

LEMMA SweepBegins ==
  ASSUME Init
  PROVE  SweepInv
<1>1. /\ Answers = {} /\ Told = {journal} /\ Undecided = {} /\ ~Engaging
      /\ kill = journal /\ asked = Off
  BY OrderBegins
<1>2. Landings = {} /\ Writings = {} /\ journal.seq \in Nat /\ asked # Sweeping
  BY <1>1 DEF Landings, Writings, Init, Off, Sweeping
<1>3. Bases = {journal}
  BY <1>1 DEF Bases
<1>4. \A z \in Bases : Falls(z)
  BY <1>1, <1>3 DEF Falls
<1>5. kill.width = Sweeping => SweepIsTold
  BY <1>1 DEF SweepIsTold
<1>6. \A e \in Engagers : at[e] # "verifying"
  BY <1>1 DEF Engaging
<1> QED BY <1>1, <1>2, <1>3, <1>4, <1>5, <1>6 DEF SweepInv

-------------------------------------------------------------------------------
(***************************************************************************)
(* What was asked for stays.                                               *)
(***************************************************************************)
StayInv == OrderInv /\ StopInv /\ SweepInv

LEMMA StillStays ==
  ASSUME IInv, StayInv, OrderInv', Still
  PROVE  StayInv'
  BY StillStops, StillSweeps DEF StayInv

LEMMA StayInvariance == Spec => []StayInv
<1>1. Init => StayInv
  BY OrderBegins, StopBegins, SweepBegins DEF StayInv
<1>2. IInv /\ StayInv /\ [Next]_vars => StayInv'
  <2> SUFFICES ASSUME IInv, StayInv, [Next]_vars PROVE StayInv'
    OBVIOUS
  <2>0. OrderInv /\ StopInv /\ SweepInv
    BY DEF StayInv
  <2>1. ASSUME NEW e \in Engagers, NEW width \in {Halted, Sweeping}, EngageKill(e, width)
        PROVE  StayInv'
    BY <2>0, <2>1, EngageKillStep, EnteringStops, EnteringSweeps DEF StayInv
  <2>2. ASSUME NEW e \in Engagers, EngageStep(e)
        PROVE  StayInv'
    <3>1. OrderInv' /\ (Still \/ \E current \in KillStates, pending \in BOOLEAN :
                                   Settles(e, current, pending))
      BY <2>0, <2>2, EngageOrderStep
    <3>2. ASSUME NEW current \in KillStates, NEW pending \in BOOLEAN, Settles(e, current, pending)
          PROVE  StayInv'
      BY <2>0, <3>1, <3>2, SettlingStops, SettlingSweeps DEF StayInv
    <3> QED BY <3>1, <3>2, StillStays
  <2>3. ASSUME NEW t \in Engagers \cup {"loop"}, RecordStep(t)
        PROVE  StayInv'
    <3>1. CASE TakesRecordLock(t)
      BY <2>0, <3>1, LockStep, StillStays
    <3>2. CASE Recorded(t)
      <4>1. OrderInv' /\ (Still \/ Takes(t)) /\ t \in Tasks
        BY <2>0, <3>2, RecordedStep, TaskNames
      <4> QED BY <2>0, <4>1, StillStays, TakingStops, TakingSweeps DEF StayInv
    <3> QED BY <2>3, <3>1, <3>2 DEF RecordStep
  <2>4. CASE KillLoop
    <3>1. OrderInv' /\ Still
      BY <2>0, <2>4, LockStep
    <3> QED BY <3>1, StillStays
  <2>5. CASE StartRelease \/ ReleaseKill
    BY <2>0, <2>5, ReleaseStep, StillStays, LandingStops, LandingSweeps DEF StayInv
  <2>6. CASE CheckCanTrade
    BY <2>0, <2>6, CheckStep, StillStays
  <2>7. ASSUME NEW m \in Mergers, MergeStep(m)
        PROVE  StayInv'
    BY <2>0, <2>7, MergeOrderStep, StillStays, AdoptingStops, AdoptingSweeps DEF StayInv
  <2>8. CASE JournalWorks
    BY <2>0, <2>8, JournalOrderStep, StillStays, RecordingStops, RecordingSweeps DEF StayInv
  <2>9. CASE EngageElsewhere \/ ReleaseElsewhere
    BY <2>0, <2>9, ElsewhereMoves, ElsewhereStops, ElsewhereSweeps DEF StayInv
  <2>10. CASE CrashAndRecover
    BY <2>0, <2>10, CrashMoves, CrashStops, CrashSweeps DEF StayInv
  <2>11. CASE UNCHANGED vars
    BY <2>0, <2>11, StutterIsStill, StillStays
  <2> QED BY <2>1, <2>2, <2>3, <2>4, <2>5, <2>6, <2>7, <2>8, <2>9, <2>10, <2>11 DEF Next
<1> QED BY <1>1, <1>2, Invariance, PTL DEF Spec

\* What was asked for and binds the process is in memory, and in the journal once nothing
\* is under way and nothing waits to be written.
LEMMA PromiseIsKept ==
  ASSUME IInv, StayInv
  PROVE  EngageStays
<1>0. /\ OrderInv /\ StopInv /\ SweepInv
      /\ asked \in Widths /\ binds \in Widths /\ kill.width \in Widths /\ journal.width \in Widths
  BY DEF StayInv, IInv, Typed, KillStates
<1>1. /\ Promised # Off => asked # Off /\ binds # Off
      /\ Promised = Sweeping => asked = Sweeping /\ binds = Sweeping
      /\ Promised \in Widths
  BY <1>0 DEF Promised, Narrower, Widths, Off, Halted, Sweeping
<1>2. Promised # Off => Bound
  BY <1>0, <1>1, NothingOnItsWay DEF Bound
<1>3. Promised = Sweeping => Sweeps
  BY <1>0, <1>1, NothingOnItsWay DEF Sweeps, Off, Sweeping
<1>4. ~Engaging => Undecided = {}
  BY DEF Undecided, Engaging
<1>5. StaysStopped
  BY <1>0, <1>1, <1>2 DEF StaysStopped, StopInv
<1>6. ~Engaging /\ Promised = Sweeping => kill.width = Sweeping
  BY <1>0, <1>1, <1>3, <1>4 DEF SweepInv
<1>7. StaysSweeping
  BY <1>0, <1>1, <1>5, <1>6 DEF StaysStopped, StaysSweeping, Widths, Off, Halted, Sweeping
<1>8. ASSUME ~Engaging, unrecorded = Off PROVE journal.width >= Promised
  <2>1. Promised # Off => journal.width # Off
    BY <1>0, <1>2, <1>5, <1>8 DEF StopInv, StaysStopped, Engaging
  <2>2. Promised = Sweeping => journal.width = Sweeping
    BY <1>0, <1>3, <1>4, <1>6, <1>8 DEF SweepInv, SweepIsTold, SweepIsAsked
  <2> QED BY <1>0, <1>1, <2>1, <2>2 DEF Widths, Off, Halted, Sweeping
<1>9. SettledEngageIsDurable
  BY <1>8 DEF SettledEngageIsDurable
<1> QED BY <1>5, <1>7, <1>9 DEF EngageStays

\* A kill that was asked for is neither switched off, narrowed nor lost, by whatever
\* races it, until a release is asked for (engage_kill, _settle_kill, _record_kill).
THEOREM EngagesStay == Spec => []EngageStays
<1>1. IInv /\ StayInv => EngageStays
  BY PromiseIsKept
<1> QED BY <1>1, Invariance, StayInvariance, PTL

-------------------------------------------------------------------------------
(***************************************************************************)
(* What the journal's rows say, for a journal of any length.               *)
(***************************************************************************)
Reading == INSTANCE KillRecords

LEMMA RowGives ==
  ASSUME NEW state \in Reading!KillStates, NEW seq \in Nat, NEW kind \in Reading!Kinds
  PROVE  LET after == Reading!AfterRow(state, seq, kind)
         IN  /\ after \in Reading!KillStates
             /\ kind \in {"other", "unnamed"} => after = state
             /\ kind \notin {"other", "unnamed"} =>
                  /\ after.seq = seq
                  /\ after.engaged <=> kind # "release"
                  /\ after.cancel_open <=>
                       \/ kind = "sweep"
                       \/ kind = "unreadable" /\ state.cancel_open
                       \/ kind = "halt" /\ state.engaged /\ state.cancel_open
<1> DEFINE after == Reading!AfterRow(state, seq, kind)
<1>1. CASE kind \in {"other", "unnamed"}
  <2>1. after = state
    BY <1>1 DEF Reading!AfterRow
  <2> QED BY <1>1, <2>1
<1>2. CASE kind = "unreadable"
  <2>1. after = [engaged |-> TRUE, seq |-> seq, cancel_open |-> state.cancel_open]
    BY <1>2 DEF Reading!AfterRow, Reading!KillState
  <2>2. after \in Reading!KillStates /\ after.seq = seq
    BY <2>1 DEF Reading!KillStates
  <2>3. after.engaged = TRUE /\ after.cancel_open = state.cancel_open
    BY <2>1
  <2> QED BY <1>2, <2>2, <2>3
<1>3. CASE kind = "release"
  <2>1. after = [engaged |-> FALSE, seq |-> seq, cancel_open |-> FALSE]
    BY <1>3 DEF Reading!AfterRow, Reading!KillState
  <2>2. after \in Reading!KillStates /\ after.seq = seq
    BY <2>1 DEF Reading!KillStates
  <2>3. after.engaged = FALSE /\ after.cancel_open = FALSE
    BY <2>1
  <2> QED BY <1>3, <2>2, <2>3
<1>4. CASE kind \in {"sweep", "halt"}
  <2>1. after = [engaged |-> TRUE, seq |-> seq,
                 cancel_open |-> kind = "sweep" \/ (state.engaged /\ state.cancel_open)]
    BY <1>4 DEF Reading!AfterRow, Reading!KillState
  <2>2. after \in Reading!KillStates /\ after.seq = seq
    BY <2>1 DEF Reading!KillStates
  <2>3. /\ after.engaged = TRUE
        /\ after.cancel_open = (kind = "sweep" \/ (state.engaged /\ state.cancel_open))
    BY <2>1
  <2> QED BY <1>4, <2>2, <2>3
<1> QED BY <1>1, <1>2, <1>3, <1>4 DEF Reading!Kinds

\* Each further row leaves the state that the rows so far asked for (_kill_state_from).
LEMMA RowIsRead ==
  ASSUME NEW rows, NEW n \in Nat, NEW kind \in Reading!Kinds, rows[n + 1] = kind,
         NEW state \in Reading!KillStates, Reading!AskedFor(rows, n, state)
  PROVE  /\ Reading!AfterRow(state, n + 1, kind) \in Reading!KillStates
         /\ Reading!AskedFor(rows, n + 1, Reading!AfterRow(state, n + 1, kind))
<1> DEFINE after == Reading!AfterRow(state, n + 1, kind)
           deciding(seq) == Reading!Deciding(rows, n, seq)
           since(seq) == Reading!SinceRelease(rows, n, seq)
<1>1. \A seq \in 1..n : /\ Reading!Deciding(rows, n + 1, seq) <=> deciding(seq)
                        /\ Reading!SinceRelease(rows, n + 1, seq)
                             <=> since(seq) /\ kind # "release"
  BY DEF Reading!Deciding, Reading!SinceRelease
<1>2. /\ Reading!Deciding(rows, n + 1, n + 1) <=> kind \notin {"other", "unnamed"}
      /\ Reading!SinceRelease(rows, n + 1, n + 1) <=> kind # "release"
  BY DEF Reading!Deciding, Reading!SinceRelease
<1>3. \A seq \in 1..(n + 1) : seq \in 1..n \/ seq = n + 1
  OBVIOUS
<1>4. /\ state.engaged <=> \E seq \in 1..n : deciding(seq) /\ since(seq)
      /\ state.cancel_open <=> \E seq \in 1..n : rows[seq] = "sweep" /\ since(seq)
      /\ \A seq \in 1..n : deciding(seq) => seq <= state.seq
      /\ state.seq = 0 \/ deciding(state.seq)
  BY DEF Reading!AskedFor
<1>5. state.cancel_open => state.engaged
  BY <1>4 DEF Reading!Deciding
<1>g. /\ n + 1 \in Nat
      /\ kind \in {"sweep", "halt", "release", "unnamed", "unreadable", "other"}
  BY DEF Reading!Kinds
<1>r. /\ after \in Reading!KillStates
      /\ kind \in {"other", "unnamed"} => after = state
      /\ kind \notin {"other", "unnamed"} =>
           /\ after.seq = n + 1
           /\ after.engaged <=> kind # "release"
           /\ after.cancel_open <=>
                kind = "sweep" \/ (kind # "release" /\ state.cancel_open)
  BY <1>5, <1>g, RowGives
<1> SUFFICES Reading!AskedFor(rows, n + 1, after)
  BY <1>r
<1> HIDE DEF after, deciding, since
<1>6. CASE kind \in {"other", "unnamed"}
  <2>1. after = state
    BY <1>6, <1>r
  <2>2. state.seq = 0 \/ Reading!Deciding(rows, n + 1, state.seq)
    <3>1. deciding(state.seq) => state.seq \in 1..n
      BY DEF deciding, Reading!Deciding
    <3> QED BY <1>1, <1>4, <3>1
  <2> QED BY <1>1, <1>2, <1>3, <1>4, <1>6, <2>1, <2>2 DEF Reading!AskedFor
<1>7. CASE kind \in {"sweep", "halt", "unreadable"}
  <2>1. /\ after \in Reading!KillStates /\ after.engaged /\ after.seq = n + 1
        /\ after.cancel_open <=> kind = "sweep" \/ state.cancel_open
    BY <1>7, <1>r
  <2>2. Reading!Deciding(rows, n + 1, n + 1) /\ Reading!SinceRelease(rows, n + 1, n + 1)
    BY <1>2, <1>7
  <2>3. n + 1 \in 1..(n + 1) /\ \A seq \in 1..n : seq \in 1..(n + 1) /\ seq <= n + 1
    OBVIOUS
  <2>4. after.cancel_open <=> \E seq \in 1..(n + 1) :
                                rows[seq] = "sweep" /\ Reading!SinceRelease(rows, n + 1, seq)
    BY <1>1, <1>2, <1>3, <1>4, <1>7, <2>1, <2>3
  <2> QED BY <1>3, <2>1, <2>2, <2>3, <2>4 DEF Reading!AskedFor
<1>8. CASE kind = "release"
  <2>1. /\ after \in Reading!KillStates /\ ~after.engaged /\ after.seq = n + 1
        /\ ~after.cancel_open
    BY <1>5, <1>8, <1>r
  <2>2. \A seq \in 1..(n + 1) : seq <= n + 1 /\ ~Reading!SinceRelease(rows, n + 1, seq)
    BY <1>1, <1>2, <1>3, <1>8
  <2>3. Reading!Deciding(rows, n + 1, n + 1)
    BY <1>2, <1>8
  <2> QED BY <2>1, <2>2, <2>3 DEF Reading!AskedFor
<1> QED BY <1>6, <1>7, <1>8 DEF Reading!Kinds

\* The loop of _kill_state_from computes what its docstring says, for any rows: engaged
\* from a record that engages the switch until a named release, and sweeping if any
\* engage since then asked for it.
THEOREM KillReadsWhatWasAsked ==
  \A rows \in Seq(Reading!Kinds) :
    Reading!AskedFor(rows, Len(rows), Reading!KillStateFrom(rows))
<1> TAKE rows \in Seq(Reading!Kinds)
<1> DEFINE Step == [p \in (1..Len(rows)) \X Reading!KillStates |->
                      Reading!AfterRow(p[2], p[1], rows[p[1]])]
           read == CHOOSE g : g = [n \in 0..Len(rows) |->
                     IF n = 0 THEN Reading!Unset ELSE Reading!AfterRow(g[n - 1], n, rows[n])]
<1>1. Len(rows) \in Nat /\ \A n \in 1..Len(rows) : rows[n] \in Reading!Kinds
  BY ElementOfSeq, LenProperties
<1>2. Reading!Unset \in Reading!KillStates
  BY DEF Reading!Unset, Reading!KillState, Reading!KillStates
<1>3. \A i \in 1..Len(rows), s \in Reading!KillStates :
        Step[<<i, s>>] = Reading!AfterRow(s, i, rows[i])
  OBVIOUS
<1>t. Step \in [(1..Len(rows)) \X Reading!KillStates -> Reading!KillStates]
  <2> SUFFICES ASSUME NEW p \in (1..Len(rows)) \X Reading!KillStates
               PROVE  Reading!AfterRow(p[2], p[1], rows[p[1]]) \in Reading!KillStates
    OBVIOUS
  <2> QED BY <1>1, RowGives
<1>4. PICK g \in [0..Len(rows) -> Reading!KillStates] :
        g[0] = Reading!Unset /\ \A i \in 1..Len(rows) : g[i] = Step[<<i, g[i - 1]>>]
  <2> HIDE DEF Step
  <2>1. \E g : g \in Traces(Reading!KillStates, Reading!Unset, Len(rows), Step)
    BY <1>1, <1>2, <1>t, TraceExists
  <2> QED BY <2>1 DEF Traces
<1>5. g = [n \in 0..Len(rows) |->
             IF n = 0 THEN Reading!Unset ELSE Reading!AfterRow(g[n - 1], n, rows[n])]
  <2> HIDE DEF Step
  <2>1. \A n \in 1..Len(rows) : g[n] = Reading!AfterRow(g[n - 1], n, rows[n])
    <3> TAKE n \in 1..Len(rows)
    <3>1. n - 1 \in 0..Len(rows) /\ g[n - 1] \in Reading!KillStates
      BY <1>1, <1>4
    <3> QED BY <1>3, <1>4, <3>1
  <2> QED BY <1>1, <1>4, <2>1
<1>6. read = [n \in 0..Len(rows) |->
                IF n = 0 THEN Reading!Unset ELSE Reading!AfterRow(read[n - 1], n, rows[n])]
  BY <1>5
<1> HIDE DEF read, Step
<1> DEFINE Good == {n \in Nat : /\ read[n] \in Reading!KillStates
                                /\ Reading!AskedFor(rows, n, read[n])}
<1>7. 0 \in Good
  <2>1. read[0] = Reading!Unset
    BY <1>1, <1>6
  <2> QED BY <1>2, <2>1 DEF Reading!AskedFor, Reading!Unset, Reading!KillState
<1>8. ASSUME NEW n \in 0..(Len(rows) - 1), n \in Good PROVE n + 1 \in Good
  <2>1. n \in Nat /\ n + 1 \in 1..Len(rows) /\ rows[n + 1] \in Reading!Kinds
    BY <1>1
  <2>2. read[n + 1] = Reading!AfterRow(read[n], n + 1, rows[n + 1])
    BY <1>1, <1>6, <2>1
  <2>3. read[n] \in Reading!KillStates /\ Reading!AskedFor(rows, n, read[n])
    BY <1>8
  <2> QED BY <2>1, <2>2, <2>3, RowIsRead
<1>9. \A n \in 0..Len(rows) : n \in Good
  <2> HIDE DEF Good
  <2> QED BY <1>1, <1>7, <1>8, UpTo
<1>10. Reading!KillStateFrom(rows) = read[Len(rows)]
  BY DEF Reading!KillStateFrom, read
<1> QED BY <1>1, <1>9, <1>10
===============================================================================
