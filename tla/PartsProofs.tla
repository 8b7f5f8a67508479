----------------------------- MODULE PartsProofs -----------------------------
(***************************************************************************)
(* Proofs about the parts that Parts puts side by side, each by itself and *)
(* for every value of its constants: HttpTransport, SyncBridge, Book,      *)
(* BarStore, RateLimits and Feed.                                          *)
(*                                                                         *)
(* HttpTransport.  TypeOK alone is not inductive: a call that waits before *)
(* a retry must have attempts left, which RetriesLeft states.              *)
(* SentOnceAndKnown rests on OnceInv: until its only attempt is judged, a  *)
(* request that is sent once has no answer, and what the server did is     *)
(* known to that attempt.  ProbeIsHeld is inductive as it stands.          *)
(*                                                                         *)
(* The longest proof is Feed's.  Its invariant is about a lane: the queue  *)
(* and the wire, as the consumer will meet them.                           *)
(***************************************************************************)
EXTENDS Parts, SequenceTheorems, FiniteSetTheorems, Induction, TLAPS

\* A call in its pause before a retry has an attempt left (retry in backoff.py).
RetriesLeft == \A c \in Calls : at[c] = "backoff" => attempt[c] < MaxAttempts

\* A call under way has no answer yet, and one that is sent once is on its first
\* attempt, not acted on before it is sent and never retried.
OnceInv ==
  \A c \in Calls :
    /\ at[c] # "idle" => answer[c] = "none"
    /\ kind[c] = "once" =>
         /\ attempt[c] = 1 /\ at[c] # "backoff"
         /\ at[c] \in {"trying", "limited"} => ~acted[c]
         /\ at[c] = "sent" /\ acted[c] => reached[c]
         /\ answer[c] \in Errors \ {"ambiguous"} => ~acted[c]

-------------------------------------------------------------------------------
\* The number of attempts a call has is a positive number up to MaxAttempts.
LEMMA AttemptsAreBounded ==
  ASSUME NEW c \in Calls PROVE Attempts(c) \in Nat /\ Attempts(c) <= MaxAttempts
  BY PolicyIsValid DEF Attempts, Repeatable

\* What an outcome is mapped to is an answer, and of a request sent once an error other
\* than AmbiguousOutcome is told only where the server cannot have acted.
LEMMA MappedOutcome ==
  ASSUME NEW c \in Calls, NEW outcome \in Outcomes
  PROVE  /\ Mapped(c, outcome) \in Answers
         /\ kind[c] = "once" /\ Mapped(c, outcome) \in Errors \ {"ambiguous"}
              => outcome \in {"not_sent", "throttled", "refused"}
<1> USE DEF Mapped, Told, Undone, Answers, Errors
<1>1. CASE outcome = "success"
  BY <1>1, Zenon
<1>2. CASE outcome = "refused"
  BY <1>2, Zenon
<1>3. CASE outcome = "throttled"
  BY <1>3, Zenon
<1>4. CASE outcome = "not_sent"
  BY <1>4, Zenon
<1>5. CASE outcome \in {"broken", "server_error", "redirect"}
  <2>1. CASE kind[c] = "read"
    BY <1>5, <2>1, Zenon
  <2>2. CASE kind[c] # "read"
    BY <1>5, <2>2, Zenon
  <2> QED BY <2>1, <2>2
<1> QED BY <1>1, <1>2, <1>3, <1>4, <1>5 DEF Outcomes

\* What a judged attempt does to the call: it waits to retry with an attempt left, or
\* it returns with the answer its outcome is mapped to.
LEMMA JudgedCall ==
  ASSUME TypeOK, NEW c \in Calls, NEW outcome \in Outcomes, Judges(c, outcome)
  PROVE  /\ attempt' = attempt
         /\ \/ /\ at' = [at EXCEPT ![c] = "backoff"] /\ answer' = answer
               /\ attempt[c] < MaxAttempts /\ attempt[c] < Attempts(c)
            \/ /\ at' = [at EXCEPT ![c] = "idle"]
               /\ answer' = [answer EXCEPT ![c] = Mapped(c, outcome)]
  BY AttemptsAreBounded, PolicyIsValid DEF Judges, Retries, Returns, TypeOK

\* What the breaker's part of a judged attempt leaves: the probe is always given up.
LEMMA JudgedBreaker ==
  ASSUME TypeOK, ProbeIsHeld, NEW c \in Calls, NEW outcome \in Outcomes,
         AttemptEnds(c, outcome)
  PROVE  /\ state' \in {"closed", "open", "half_open"} /\ failures' \in 0..Threshold
         /\ ~probing' /\ probing' \in BOOLEAN /\ elapsed' \in BOOLEAN /\ probes' \subseteq Calls
         /\ state' # "closed" => failures' = Threshold
<1>1. probing => state = "half_open"
  BY DEF ProbeIsHeld
<1>2. CASE RecordSuccess
  <2>1. state' = "closed" /\ failures' = 0 /\ probes' = {}
    BY <1>2 DEF RecordSuccess
  <2>2. ~probing' /\ probing' \in BOOLEAN /\ elapsed' \in BOOLEAN
    BY <1>2, Zenon DEF RecordSuccess, TypeOK
  <2> QED BY <2>1, <2>2, PolicyIsValid
<1>3. CASE ReleaseProbe
  BY <1>1, <1>3 DEF ReleaseProbe, TypeOK
<1>4. CASE RecordFailure
  <2> DEFINE count == IF failures < Threshold THEN failures + 1 ELSE failures
  <2>1. count \in 0..Threshold /\ failures' = count
    BY <1>4, PolicyIsValid DEF RecordFailure, TypeOK
  <2>2. CASE state = "half_open" \/ count >= Threshold
    <3>1. state' = "open" /\ elapsed' = FALSE /\ probing' = FALSE /\ probes' = {}
      BY <1>4, <2>2 DEF RecordFailure
    <3>2. count = Threshold
      BY <2>1, <2>2, PolicyIsValid DEF TypeOK
    <3> QED BY <2>1, <3>1, <3>2
  <2>3. CASE state # "half_open" /\ ~(count >= Threshold)
    <3>1. UNCHANGED <<state, elapsed, probing, probes>>
      BY <1>4, <2>3 DEF RecordFailure
    <3>2. state = "closed"
      BY <2>3, PolicyIsValid DEF TypeOK
    <3> QED BY <1>1, <2>1, <2>3, <3>1, <3>2 DEF TypeOK
  <2> QED BY <2>2, <2>3
<1> QED BY <1>2, <1>3, <1>4 DEF AttemptEnds

\* The types, the attempts left and the probe hold together in every step.
LEMMA StepKeepsBreaker ==
  ASSUME TypeOK, RetriesLeft, ProbeIsHeld, [Next]_vars
  PROVE  TypeOK' /\ RetriesLeft' /\ ProbeIsHeld'
<1> USE PolicyIsValid, MaxCallsIsNatural
<1>1. CASE UNCHANGED vars
  BY <1>1 DEF vars, breakerVars, callVars, TypeOK, RetriesLeft, ProbeIsHeld, InFlight
<1>2. ASSUME NEW c \in Calls, NEW k \in Kinds, Begin(c, k)
      PROVE  TypeOK' /\ RetriesLeft' /\ ProbeIsHeld'
  BY <1>2 DEF Begin, breakerVars, TypeOK, RetriesLeft, ProbeIsHeld, InFlight, Answers
<1>3. ASSUME NEW c \in Calls, Try(c)
      PROVE  TypeOK' /\ RetriesLeft' /\ ProbeIsHeld'
  <2>1. CASE Check(c) /\ at' = [at EXCEPT ![c] = "limited"] /\ UNCHANGED <<answer, attempt>>
    <3>1. TypeOK' /\ RetriesLeft'
      BY <1>3, <2>1 DEF Try, Check, Admits, HalfOpens, TypeOK, RetriesLeft
    <3>2. probing' => state' = "half_open" /\ c \in probes'
      BY <2>1 DEF Check, Admits, HalfOpens, TypeOK
    <3>3. c \in InFlight'
      BY <2>1 DEF InFlight, TypeOK
    <3> QED BY <3>1, <3>2, <3>3 DEF ProbeIsHeld
  <2>2. CASE Returns(c, "circuit_open") /\ UNCHANGED <<breakerVars, probes>>
    BY <1>3, <2>2
    DEF Try, Returns, breakerVars, TypeOK, RetriesLeft, ProbeIsHeld, InFlight, Answers, Errors
  <2> QED BY <1>3, <2>1, <2>2 DEF Try
<1>4. ASSUME NEW c \in Calls, Send(c) \/ ServerActs(c) \/ TryAgain(c)
      PROVE  TypeOK' /\ RetriesLeft' /\ ProbeIsHeld'
  <2>1. CASE Send(c)
    BY <2>1 DEF Send, breakerVars, TypeOK, RetriesLeft, ProbeIsHeld, InFlight
  <2>2. CASE ServerActs(c)
    BY <2>2 DEF ServerActs, breakerVars, TypeOK, RetriesLeft, ProbeIsHeld, InFlight
  <2>3. CASE TryAgain(c)
    BY <2>3 DEF TryAgain, breakerVars, TypeOK, RetriesLeft, ProbeIsHeld, InFlight
  <2> QED BY <1>4, <2>1, <2>2, <2>3
<1>5. ASSUME NEW c \in Calls, NEW outcome \in Outcomes, AttemptEnds(c, outcome)
      PROVE  TypeOK' /\ RetriesLeft' /\ ProbeIsHeld'
  <2>1. Mapped(c, outcome) \in Answers
    BY MappedOutcome
  <2>2. Judges(c, outcome) /\ UNCHANGED <<kind, reached, begun, acted>>
    BY <1>5 DEF AttemptEnds
  <2>3. /\ state' \in {"closed", "open", "half_open"} /\ failures' \in 0..Threshold
        /\ ~probing' /\ probing' \in BOOLEAN /\ elapsed' \in BOOLEAN /\ probes' \subseteq Calls
        /\ state' # "closed" => failures' = Threshold
    BY <1>5, JudgedBreaker
  <2>4. CASE /\ at' = [at EXCEPT ![c] = "backoff"] /\ UNCHANGED <<answer, attempt>>
             /\ attempt[c] < MaxAttempts
    BY <2>2, <2>3, <2>4 DEF TypeOK, RetriesLeft, ProbeIsHeld
  <2>5. CASE /\ at' = [at EXCEPT ![c] = "idle"] /\ UNCHANGED attempt
             /\ answer' = [answer EXCEPT ![c] = Mapped(c, outcome)]
    BY <2>1, <2>2, <2>3, <2>5 DEF TypeOK, RetriesLeft, ProbeIsHeld
  <2> QED BY <2>2, <2>4, <2>5, JudgedCall
<1>6. ASSUME NEW c \in Calls, Cancel(c)
      PROVE  TypeOK' /\ RetriesLeft' /\ ProbeIsHeld'
  <2>1. TypeOK' /\ RetriesLeft'
    BY <1>6 DEF Cancel, Returns, ReleaseProbe, breakerVars, TypeOK, RetriesLeft, Answers
  <2>2. ProbeIsHeld'
    BY <1>6 DEF Cancel, Returns, ReleaseProbe, breakerVars, TypeOK, ProbeIsHeld, InFlight
  <2> QED BY <2>1, <2>2
<1>7. CASE TimeoutElapses
  BY <1>7 DEF TimeoutElapses, callVars, TypeOK, RetriesLeft, ProbeIsHeld, InFlight
<1> QED BY <1>1, <1>2, <1>3, <1>4, <1>5, <1>6, <1>7 DEF Next

\* A request that is sent once keeps what OnceInv says of it in every step.
LEMMA StepKeepsOnce ==
  ASSUME TypeOK, OnceInv, [Next]_vars
  PROVE  OnceInv'
<1>1. CASE UNCHANGED vars
  BY <1>1 DEF vars, callVars, OnceInv
<1>2. ASSUME NEW c \in Calls, NEW k \in Kinds, Begin(c, k)
      PROVE  OnceInv'
  BY <1>2 DEF Begin, TypeOK, OnceInv, Errors
<1>3. ASSUME NEW c \in Calls, Try(c)
      PROVE  OnceInv'
  <2>1. CASE at' = [at EXCEPT ![c] = "limited"] /\ UNCHANGED <<answer, attempt>>
    BY <1>3, <2>1 DEF Try, TypeOK, OnceInv
  <2>2. CASE Returns(c, "circuit_open")
    BY <1>3, <2>2 DEF Try, Returns, TypeOK, OnceInv
  <2> QED BY <1>3, <2>1, <2>2 DEF Try
<1>4. ASSUME NEW c \in Calls, Send(c) \/ ServerActs(c) \/ TryAgain(c)
      PROVE  OnceInv'
  <2>1. CASE Send(c)
    BY <2>1 DEF Send, TypeOK, OnceInv
  <2>2. CASE ServerActs(c)
    BY <2>2 DEF ServerActs, TypeOK, OnceInv, Errors
  <2>3. CASE TryAgain(c)
    BY <2>3 DEF TryAgain, TypeOK, OnceInv
  <2> QED BY <1>4, <2>1, <2>2, <2>3
<1>5. ASSUME NEW c \in Calls, NEW outcome \in Outcomes, AttemptEnds(c, outcome)
      PROVE  OnceInv'
  <2>1. at[c] = "sent" /\ Possible(c, outcome) /\ UNCHANGED <<kind, reached, acted>>
    BY <1>5 DEF AttemptEnds
  <2>2. Judges(c, outcome)
    BY <1>5 DEF AttemptEnds
  <2>3. CASE /\ at' = [at EXCEPT ![c] = "backoff"] /\ UNCHANGED <<answer, attempt>>
             /\ attempt[c] < Attempts(c)
    <3>1. kind[c] # "once"
      BY <2>3 DEF Attempts, Repeatable, OnceInv
    <3> QED BY <2>1, <2>3, <3>1 DEF TypeOK, OnceInv
  <2>4. CASE /\ at' = [at EXCEPT ![c] = "idle"] /\ UNCHANGED attempt
             /\ answer' = [answer EXCEPT ![c] = Mapped(c, outcome)]
    <3>1. ASSUME kind[c] = "once", Mapped(c, outcome) \in Errors \ {"ambiguous"}
          PROVE  ~acted[c]
      <4>1. outcome \in {"not_sent", "throttled", "refused"}
        BY <3>1, MappedOutcome
      <4> QED BY <2>1, <3>1, <4>1 DEF Possible, OnceInv
    <3> QED BY <2>1, <2>4, <3>1 DEF TypeOK, OnceInv
  <2> QED BY <2>2, <2>3, <2>4, JudgedCall
<1>6. ASSUME NEW c \in Calls, Cancel(c)
      PROVE  OnceInv'
  BY <1>6 DEF Cancel, Returns, TypeOK, OnceInv, Errors
<1>7. CASE TimeoutElapses
  BY <1>7 DEF TimeoutElapses, callVars, OnceInv
<1> QED BY <1>1, <1>2, <1>3, <1>4, <1>5, <1>6, <1>7 DEF Next

-------------------------------------------------------------------------------
\* The inductive invariant of a transport.
IInv == TypeOK /\ RetriesLeft /\ ProbeIsHeld /\ OnceInv

\* The inductive invariant holds in every state the transport can reach.
LEMMA Invariance == Spec => []IInv
<1>1. Init => IInv
  <2>1. ASSUME Init PROVE TypeOK
    <3>1. at \in [Calls -> {"idle", "trying", "limited", "sent", "backoff"}]
      BY <2>1 DEF Init
    <3>2. kind \in [Calls -> Kinds] /\ answer \in [Calls -> Answers]
      BY <2>1 DEF Init, Kinds, Answers
    <3>3. attempt \in [Calls -> 1..MaxAttempts]
      BY <2>1, PolicyIsValid DEF Init
    <3>4. reached \in [Calls -> BOOLEAN] /\ acted \in [Calls -> BOOLEAN]
      BY <2>1 DEF Init
    <3>5. failures \in 0..Threshold /\ begun \in 0..MaxCalls
      BY <2>1, PolicyIsValid, MaxCallsIsNatural DEF Init
    <3> QED BY <2>1, <3>1, <3>2, <3>3, <3>4, <3>5 DEF Init, TypeOK
  <2>2. ASSUME Init PROVE RetriesLeft /\ ProbeIsHeld /\ OnceInv
    BY <2>2 DEF Init, RetriesLeft, ProbeIsHeld, OnceInv
  <2> QED BY <2>1, <2>2 DEF IInv
<1>2. IInv /\ [Next]_vars => IInv'
  BY StepKeepsBreaker, StepKeepsOnce DEF IInv
<1> QED BY <1>1, <1>2, PTL DEF Spec

\* The variables of the breaker and of its calls keep their types, and a circuit that
\* is not closed had Threshold failures in a row (record_failure in circuit.py).
THEOREM TypeCorrect == Spec => []TypeOK
  BY Invariance, PTL DEF IInv

\* However many calls share the breaker and however they end, a probe that is taken
\* belongs to a call on its way: the half-open slot never leaks (request in http.py).
THEOREM ProbeNeverLeaks == Spec => []ProbeIsHeld
  BY Invariance, PTL DEF IInv

\* A request sent once is attempted once, and an error other than AmbiguousOutcome
\* means that the server did not act on it (map_response_error, _network_error).
THEOREM UndoneMeansUndone == Spec => []SentOnceAndKnown
<1>1. IInv => SentOnceAndKnown
  BY DEF IInv, OnceInv, SentOnceAndKnown
<1> QED BY <1>1, Invariance, PTL

-------------------------------------------------------------------------------
(* The blocking bridge, for any number of opens, items and any buffer. *)
Reading == reader.pc \in {"getting", "done?", "ended?", "judging"}
Past == closer.pc \in {"canceling", "gathering"}
BridgeShape ==
  /\ DOMAIN client = {"loop", "opened", "closing", "streams", "opens", "cutOff"}
  /\ client.loop \in 0 .. Opens /\ client.opens \in 0 .. Opens
  /\ DOMAIN loops = 1 .. Opens
  /\ DOMAIN closer = {"pc", "loop", "marks"} /\ closer.loop \in 0 .. Opens
  /\ DOMAIN call = {"pc", "loop", "future"} /\ call.loop \in 0 .. Opens
  /\ DOMAIN reader = {"pc", "got", "done", "ended"} /\ reader.got \in Nat
  /\ DOMAIN pump = {"pc", "loop", "left"} /\ pump.loop \in 0 .. Opens
  /\ DOMAIN shared = {"queue", "stop", "finished", "failure"} /\ shared.queue \in Seq(Nat)
  /\ DOMAIN source = {"yielded", "end"} /\ source.yielded \in Nat

\* The loops: at most the newest one runs, unless it is being stopped, and a call that was
\* cancelled belongs to a loop that is not the client's any more.  A call is pending on a loop
\* that runs, or whose cancellation was given up; it is not on one whose tasks were cancelled.
ClientInv ==
  /\ client.loop \in {0, client.opens}
  /\ client.loop # 0 => loops[client.loop]
  /\ client.opened /\ ~Past => client.loop # 0
  /\ Past => client.loop = 0 /\ closer.loop # 0
  /\ closer.pc # "idle" /\ client.opened => client.closing
  /\ closer.pc \in {"failing", "marking", "providers"} => client.opened
  /\ closer.pc = "stopping" => client.loop # 0
  /\ closer.pc = "idle" => ~client.closing
  /\ call.loop <= client.opens /\ closer.loop <= client.opens
  /\ call.future = "canceled" => call.loop # client.loop /\ call.loop # 0
  /\ call.pc # "canceled"
  /\ call.future = "pending" =>
       /\ call.loop # 0 /\ (call.loop \notin client.cutOff => loops[call.loop])
       /\ closer.pc = "gathering" => call.loop # closer.loop

\* A stream in the open: its loop runs, and a close has it in its list.
InTheOpen ==
  /\ client.opened /\ client.streams /\ loops[pump.loop] /\ pump.loop = client.loop
  /\ closer.pc = "idle" \/ (closer.pc = "failing" /\ closer.marks)
\* As long as no failure is noted, the reader and the pump agree.
Agree ==
  /\ ~shared.stop /\ pump.pc \notin {"canceled", "dead"} /\ source.end # "failed"
  /\ pump.pc \in {"finishing", "cleaned", "over"} <=> source.end = "ended"
  /\ source.yielded = reader.got + Len(shared.queue)
                       + IF pump.pc \in {"putting", "full"} THEN 1 ELSE 0
  /\ reader.pc = "judging" /\ reader.ended => shared.finished /\ shared.queue = <<>>
  /\ ~shared.finished => InTheOpen
StreamInv ==
  /\ reader.pc = "idle" => /\ shared = SyncPart!NewShared /\ ~closer.marks /\ ~client.streams
                           /\ source = [yielded |-> 0, end |-> "none"]
                           /\ reader.got = 0 /\ ~pump.left
  /\ pump.pc = "none" <=> reader.pc \in {"idle", "refused"}
  /\ pump.pc = "none" <=> pump.loop = 0
  /\ Reading => ~pump.left
  /\ shared.finished <=> pump.pc \in {"cleaned", "over"}
  /\ Reading /\ shared.failure = "none" => Agree
  /\ reader.pc = "returned" => source.end = "ended" /\ reader.got = source.yielded
SyncInv == BridgeShape /\ ClientInv /\ StreamInv

\* What cancelling a task makes of its place.
LEMMA CutIs ==
  ASSUME NEW pc
  PROVE  /\ SyncPart!Cut(pc) \in {pc, "canceled", "dead"}
         /\ SyncPart!Cut(pc) = "none" <=> pc = "none"
         /\ SyncPart!Cut(pc) \in {"cleaned", "over"} <=> pc \in {"cleaned", "over"}
         /\ SyncPart!Cut(pc) \in {"cleaned", "over"} => SyncPart!Cut(pc) = pc
<1>1. CASE pc = "scheduled"
  BY <1>1, Zenon DEF SyncPart!Cut
<1>2. CASE pc \in {"running", "full"}
  BY <1>2, Zenon DEF SyncPart!Cut
<1>3. CASE pc \notin {"scheduled", "running", "full"}
  <2>1. SyncPart!Cut(pc) = pc
    BY <1>3, Zenon DEF SyncPart!Cut
  <2> QED BY <1>3, <2>1
<1> QED BY <1>1, <1>2, <1>3

\* The plain steps of the client, of a close and of a call.
LEMMA ClientStepsKept ==
  ASSUME Opens \in Nat, SyncInv
  PROVE  (SyncPart!Open \/ SyncPart!CloseBegins \/ SyncPart!CloseMarks \/
          SyncPart!CloseProviders \/ SyncPart!StopTakesLoop \/ SyncPart!StopLoop \/
          SyncPart!CallStarts \/ SyncPart!CallRuns \/ SyncPart!CallReturns) => SyncInv'
<1> USE DEF SyncInv, BridgeShape, ClientInv, StreamInv
<1>1. ASSUME SyncPart!Open PROVE SyncInv'
  <2>1. BridgeShape'
    BY <1>1 DEF SyncPart!Open
  <2>2. ClientInv'
    BY <1>1 DEF Past, SyncPart!Open
  <2>3. StreamInv'
    BY <1>1 DEF Agree, InTheOpen, Reading, Past, SyncPart!Open
  <2> QED BY <2>1, <2>2, <2>3
<1>2. ASSUME SyncPart!CloseBegins PROVE SyncInv'
  <2>1. BridgeShape'
    BY <1>2 DEF SyncPart!CloseBegins
  <2>2. ClientInv'
    BY <1>2 DEF Past, SyncPart!CloseBegins
  <2>3. StreamInv'
    BY <1>2 DEF Agree, InTheOpen, Reading, Past, SyncPart!CloseBegins
  <2> QED BY <2>1, <2>2, <2>3
<1>3. ASSUME SyncPart!CloseMarks PROVE SyncInv'
  <2>1. BridgeShape'
    BY <1>3 DEF SyncPart!CloseMarks, SyncPart!FirstMark, SyncPart!SecondMark, SyncPart!Fails,
       SyncPart!Stops
  <2>2. ClientInv'
    BY <1>3 DEF Past, SyncPart!CloseMarks, SyncPart!FirstMark, SyncPart!SecondMark,
       SyncPart!Fails, SyncPart!Stops
  <2>3. StreamInv'
    BY <1>3 DEF Agree, InTheOpen, Reading, Past, SyncPart!CloseMarks, SyncPart!FirstMark,
       SyncPart!SecondMark, SyncPart!Fails, SyncPart!Stops
  <2> QED BY <2>1, <2>2, <2>3
<1>4. ASSUME SyncPart!CloseProviders PROVE SyncInv'
  <2>1. BridgeShape'
    BY <1>4 DEF SyncPart!CloseProviders
  <2>2. ClientInv'
    BY <1>4 DEF Past, SyncPart!CloseProviders
  <2>3. StreamInv'
    BY <1>4 DEF Agree, InTheOpen, Reading, Past, SyncPart!CloseProviders
  <2> QED BY <2>1, <2>2, <2>3
<1>5. ASSUME SyncPart!StopTakesLoop PROVE SyncInv'
  <2>1. BridgeShape'
    BY <1>5 DEF SyncPart!StopTakesLoop
  <2>2. ClientInv'
    BY <1>5 DEF Past, SyncPart!StopTakesLoop
  <2>3. StreamInv'
    BY <1>5 DEF Agree, InTheOpen, Reading, Past, SyncPart!StopTakesLoop
  <2> QED BY <2>1, <2>2, <2>3
<1>6. ASSUME SyncPart!StopLoop PROVE SyncInv'
  <2>1. BridgeShape'
    BY <1>6 DEF SyncPart!StopLoop
  <2>2. ClientInv'
    BY <1>6 DEF Past, SyncPart!StopLoop
  <2>3. StreamInv'
    BY <1>6 DEF Agree, InTheOpen, Reading, Past, SyncPart!StopLoop
  <2> QED BY <2>1, <2>2, <2>3
<1>7. ASSUME SyncPart!CallStarts PROVE SyncInv'
  <2>1. BridgeShape'
    BY <1>7 DEF SyncPart!CallStarts
  <2>2. ClientInv'
    BY <1>7 DEF Past, SyncPart!CallStarts
  <2>3. StreamInv'
    BY <1>7 DEF Agree, InTheOpen, Reading, Past, SyncPart!CallStarts
  <2> QED BY <2>1, <2>2, <2>3
<1>8. ASSUME SyncPart!CallRuns PROVE SyncInv'
  <2>1. BridgeShape'
    BY <1>8 DEF SyncPart!CallRuns
  <2>2. ClientInv'
    BY <1>8 DEF Past, SyncPart!CallRuns
  <2>3. StreamInv'
    BY <1>8 DEF Agree, InTheOpen, Reading, Past, SyncPart!CallRuns
  <2> QED BY <2>1, <2>2, <2>3
<1>9. ASSUME SyncPart!CallReturns PROVE SyncInv'
  <2>1. BridgeShape'
    BY <1>9 DEF SyncPart!CallReturns, SyncPart!ClosedMeanwhile
  <2>2. ClientInv'
    BY <1>9 DEF Past, SyncPart!CallReturns, SyncPart!ClosedMeanwhile
  <2>3. StreamInv'
    BY <1>9 DEF Agree, InTheOpen, Reading, Past, SyncPart!CallReturns,
       SyncPart!ClosedMeanwhile
  <2> QED BY <2>1, <2>2, <2>3
<1> HIDE DEF SyncInv
<1> QED BY <1>1, <1>2, <1>3, <1>4, <1>5, <1>6, <1>7, <1>8, <1>9

LEMMA OpenedKept ==
  ASSUME Opens \in Nat, SyncInv, SyncPart!Opened
  PROVE  SyncInv'
<1> USE DEF SyncInv, BridgeShape, ClientInv, StreamInv, Agree, InTheOpen, Reading, Past
<1>1. /\ ~client.opened /\ client.loop # 0 /\ closer.pc = "idle"
      /\ UNCHANGED <<loops, call, reader, pump, shared, source>>
  BY DEF SyncPart!Opened
<1>2. CASE client' = [client EXCEPT !.opened = TRUE] /\ UNCHANGED closer
  BY <1>1, <1>2
<1>3. CASE closer' = [closer EXCEPT !.pc = "stopping"] /\ UNCHANGED client
  BY <1>1, <1>3
<1> QED BY <1>2, <1>3 DEF SyncPart!Opened

LEMMA CancelRestKept ==
  ASSUME Opens \in Nat, SyncInv, SyncPart!CancelRest
  PROVE  SyncInv'
<1>1. BridgeShape'
  BY DEF SyncInv, BridgeShape, StreamInv, ClientInv, SyncPart!CancelRest, SyncPart!OnLoop
<1>2. ClientInv'
  BY DEF SyncInv, BridgeShape, ClientInv, StreamInv, Past, SyncPart!CancelRest, SyncPart!OnLoop
<1>3. StreamInv'
  <2>1. UNCHANGED <<client, reader, shared, source>>
    BY DEF SyncPart!CancelRest
  <2>2. closer.pc = "canceling" /\ closer'.marks = closer.marks /\ closer'.pc = "gathering"
    BY DEF SyncInv, BridgeShape, SyncPart!CancelRest
  <2>3. ~InTheOpen
    BY <2>2 DEF InTheOpen
  <2>4. /\ DOMAIN pump' = DOMAIN pump /\ pump'.loop = pump.loop /\ pump'.left = pump.left
        /\ pump'.pc = pump.pc \/ (pump'.pc = SyncPart!Cut(pump.pc) /\ pump.loop # 0)
    BY DEF SyncPart!CancelRest, SyncPart!OnLoop, SyncInv, BridgeShape, ClientInv, Past
  <2>5. /\ pump'.pc = "none" <=> pump.pc = "none"
        /\ pump'.pc \in {"cleaned", "over"} <=> pump.pc \in {"cleaned", "over"}
        /\ pump'.pc \in {"cleaned", "over"} => pump'.pc = pump.pc
    BY <2>4, CutIs
  <2>6. Reading /\ shared.failure = "none" => pump.pc \in {"cleaned", "over"}
    BY <2>3 DEF SyncInv, StreamInv, Agree
  <2>7. Reading' /\ shared'.failure = "none" => Agree'
    BY <2>1, <2>2, <2>5, <2>6 DEF SyncInv, StreamInv, Agree, Reading
  <2> QED BY <2>1, <2>2, <2>4, <2>5, <2>7 DEF SyncInv, StreamInv, Reading
<1> QED BY <1>1, <1>2, <1>3 DEF SyncInv

LEMMA ReaderStartsKept ==
  ASSUME Opens \in Nat, SyncInv, SyncPart!ReaderStarts
  PROVE  SyncInv'
<1>1. BridgeShape'
  BY DEF SyncInv, BridgeShape, SyncPart!ReaderStarts
<1>2. ClientInv'
  <2>1. /\ UNCHANGED <<loops, closer, call>>
        /\ \/ UNCHANGED client
           \/ client' = [client EXCEPT !.streams = TRUE]
    BY DEF SyncPart!ReaderStarts
  <2>2. \A field \in {"loop", "opened", "closing", "opens", "cutOff"} :
          client'[field] = client[field]
    BY <2>1 DEF SyncInv, BridgeShape
  <2>3. /\ client'.loop = client.loop /\ client'.opened = client.opened
        /\ client'.closing = client.closing /\ client'.opens = client.opens
        /\ client'.cutOff = client.cutOff
    BY <2>2
  <2> QED BY <2>1, <2>3 DEF SyncInv, ClientInv, Past
<1>3. StreamInv'
  <2>1. /\ reader.pc = "idle" /\ UNCHANGED <<loops, closer, call, shared, source>>
        /\ shared = SyncPart!NewShared /\ ~pump.left /\ reader.got = 0 /\ ~closer.marks
        /\ source = [yielded |-> 0, end |-> "none"] /\ ~client.streams /\ pump.pc = "none"
    BY DEF SyncPart!ReaderStarts, SyncInv, StreamInv
  <2>2. CASE client.loop = 0 \/ ~client.opened \/ client.closing
    <3>1. reader' = [reader EXCEPT !.pc = "refused"] /\ UNCHANGED <<client, pump>>
      BY <2>2 DEF SyncPart!ReaderStarts
    <3> QED BY <2>1, <3>1 DEF SyncInv, BridgeShape, StreamInv, Reading
  <2>3. CASE ~(client.loop = 0 \/ ~client.opened \/ client.closing)
    <3>1. /\ reader' = [reader EXCEPT !.pc = "getting"]
          /\ client' = [client EXCEPT !.streams = TRUE]
          /\ pump' = [pump EXCEPT !.pc = "scheduled", !.loop = client.loop]
      BY <2>3 DEF SyncPart!ReaderStarts
    <3>2. closer.pc = "idle" /\ loops[client.loop]
      BY <2>3 DEF SyncInv, ClientInv
    <3>3. Agree'
      BY <2>1, <2>3, <3>1, <3>2 DEF SyncInv, BridgeShape, Agree, InTheOpen, SyncPart!NewShared
    <3> QED BY <2>1, <2>3, <3>1, <3>3 DEF SyncInv, BridgeShape, StreamInv, Reading,
                                          SyncPart!NewShared
  <2> QED BY <2>2, <2>3
<1> QED BY <1>1, <1>2, <1>3 DEF SyncInv

LEMMA ReaderGetsKept ==
  ASSUME Opens \in Nat, SyncInv, SyncPart!ReaderGets
  PROVE  SyncInv'
<1>1. CASE shared.queue = <<>>
  <2>1. reader' = [reader EXCEPT !.pc = "done?"] /\ reader.pc = "getting"
        /\ UNCHANGED <<client, loops, closer, call, pump, source, shared>>
    BY <1>1 DEF SyncPart!ReaderGets
  <2> QED BY <2>1 DEF SyncInv, BridgeShape, ClientInv, StreamInv, Agree, InTheOpen, Reading, Past
<1>2. CASE shared.queue # <<>>
  <2>1. /\ reader' = [reader EXCEPT !.got = reader.got + 1] /\ reader.pc = "getting"
        /\ shared' = [shared EXCEPT !.queue = Tail(shared.queue)]
        /\ UNCHANGED <<client, loops, closer, call, pump, source>>
    BY <1>2 DEF SyncPart!ReaderGets
  <2>2. /\ reader'.got = reader.got + 1 /\ reader'.pc = "getting" /\ DOMAIN reader' = DOMAIN reader
        /\ DOMAIN shared' = DOMAIN shared /\ shared'.queue = Tail(shared.queue)
        /\ shared'.stop = shared.stop /\ shared'.finished = shared.finished
        /\ shared'.failure = shared.failure
    BY <2>1 DEF SyncInv, BridgeShape
  <2>3. shared.queue \in Seq(Nat)
    BY DEF SyncInv, BridgeShape
  <2>4. Tail(shared.queue) \in Seq(Nat) /\ Len(Tail(shared.queue)) = Len(shared.queue) - 1
    BY <1>2, <2>3
  <2>5. BridgeShape' /\ ClientInv'
    BY <2>1, <2>2, <2>4 DEF SyncInv, BridgeShape, ClientInv, Past
  <2>6. ASSUME shared.failure = "none" PROVE Agree'
    <3>1. Agree /\ ~(reader'.pc = "judging")
      BY <2>1, <2>2, <2>6 DEF SyncInv, StreamInv, Reading
    <3>2. source'.yielded = reader'.got + Len(shared'.queue)
                            + IF pump'.pc \in {"putting", "full"} THEN 1 ELSE 0
      <4>1. Len(shared.queue) \in Nat /\ reader.got \in Nat
        BY <2>3 DEF SyncInv, BridgeShape
      <4> QED BY <2>1, <2>2, <2>4, <3>1, <4>1 DEF Agree
    <3> QED BY <2>1, <2>2, <3>1, <3>2 DEF Agree, InTheOpen
  <2>7. StreamInv'
    BY <2>1, <2>2, <2>6 DEF SyncInv, StreamInv, Reading
  <2> QED BY <2>5, <2>7 DEF SyncInv
<1> QED BY <1>1, <1>2

\* The plain steps of a reader and of its pump.
LEMMA StreamStepsKept ==
  ASSUME Opens \in Nat, SyncInv
  PROVE  (SyncPart!ReaderReadsDone \/ SyncPart!ReaderReadsEnded \/ SyncPart!ReaderJudges
          \/ SyncPart!ReaderLeaves \/ SyncPart!PumpFinishes \/ SyncPart!PumpOvers) => SyncInv'
<1> USE DEF SyncInv, BridgeShape, ClientInv, StreamInv
<1>1. ASSUME SyncPart!ReaderReadsDone PROVE SyncInv'
  <2>1. BridgeShape'
    BY <1>1 DEF SyncPart!ReaderReadsDone, SyncPart!PumpOver
  <2>2. ClientInv'
    BY <1>1 DEF Past, SyncPart!ReaderReadsDone, SyncPart!PumpOver
  <2>3. StreamInv'
    BY <1>1 DEF Agree, InTheOpen, Reading, Past, SyncPart!ReaderReadsDone, SyncPart!PumpOver
  <2> QED BY <2>1, <2>2, <2>3
<1>2. ASSUME SyncPart!ReaderReadsEnded PROVE SyncInv'
  <2>1. BridgeShape'
    BY <1>2 DEF SyncPart!ReaderReadsEnded
  <2>2. ClientInv'
    BY <1>2 DEF Past, SyncPart!ReaderReadsEnded
  <2>3. StreamInv'
    BY <1>2 DEF Agree, InTheOpen, Reading, Past, SyncPart!ReaderReadsEnded
  <2> QED BY <2>1, <2>2, <2>3
<1>3. ASSUME SyncPart!ReaderJudges PROVE SyncInv'
  <2>1. BridgeShape'
    BY <1>3 DEF SyncPart!ReaderJudges
  <2>2. ClientInv'
    BY <1>3 DEF Past, SyncPart!ReaderJudges
  <2>3. StreamInv'
    BY <1>3 DEF Agree, InTheOpen, Reading, Past, SyncPart!ReaderJudges
  <2> QED BY <2>1, <2>2, <2>3
<1>4. ASSUME SyncPart!ReaderLeaves PROVE SyncInv'
  <2>1. BridgeShape'
    BY <1>4 DEF SyncPart!ReaderLeaves
  <2>2. ClientInv'
    BY <1>4 DEF Past, SyncPart!ReaderLeaves
  <2>3. StreamInv'
    BY <1>4 DEF Agree, InTheOpen, Reading, Past, SyncPart!ReaderLeaves
  <2> QED BY <2>1, <2>2, <2>3
<1>5. ASSUME SyncPart!PumpFinishes PROVE SyncInv'
  <2>1. BridgeShape'
    BY <1>5 DEF SyncPart!PumpFinishes, SyncPart!PumpStep
  <2>2. ClientInv'
    BY <1>5 DEF Past, SyncPart!PumpFinishes, SyncPart!PumpStep
  <2>3. StreamInv'
    BY <1>5 DEF Agree, InTheOpen, Reading, Past, SyncPart!PumpFinishes, SyncPart!PumpStep
  <2> QED BY <2>1, <2>2, <2>3
<1>6. ASSUME SyncPart!PumpOvers PROVE SyncInv'
  <2>1. BridgeShape'
    BY <1>6 DEF SyncPart!PumpOvers, SyncPart!PumpStep
  <2>2. ClientInv'
    BY <1>6 DEF Past, SyncPart!PumpOvers, SyncPart!PumpStep
  <2>3. StreamInv'
    BY <1>6 DEF Agree, InTheOpen, Reading, Past, SyncPart!PumpOvers, SyncPart!PumpStep
  <2> QED BY <2>1, <2>2, <2>3
<1> HIDE DEF SyncInv
<1> QED BY <1>1, <1>2, <1>3, <1>4, <1>5, <1>6

LEMMA ReaderCleansKept ==
  ASSUME Opens \in Nat, SyncInv, SyncPart!ReaderCleans
  PROVE  SyncInv'
<1>1. BridgeShape'
  BY DEF SyncInv, BridgeShape, StreamInv, ClientInv, SyncPart!ReaderCleans, SyncPart!Stops
<1>2. ClientInv'
  BY DEF SyncInv, BridgeShape, ClientInv, StreamInv, Past, SyncPart!ReaderCleans, SyncPart!Stops
<1>3. StreamInv'
  <2>1. /\ reader.pc \in {"raised", "returned", "left"}
        /\ UNCHANGED <<loops, closer, call, reader, source>>
    BY DEF SyncPart!ReaderCleans
  <2>2. /\ pump'.loop = pump.loop
        /\ pump'.pc = pump.pc \/ pump'.pc = SyncPart!Cut(pump.pc)
        /\ shared'.finished = shared.finished
    BY DEF SyncPart!ReaderCleans, SyncPart!Stops, SyncInv, BridgeShape
  <2>3. /\ pump'.pc = "none" <=> pump.pc = "none"
        /\ pump'.pc \in {"cleaned", "over"} <=> pump.pc \in {"cleaned", "over"}
    BY <2>2, CutIs
  <2> QED BY <2>1, <2>2, <2>3 DEF SyncInv, StreamInv, Reading
<1> QED BY <1>1, <1>2, <1>3 DEF SyncInv

LEMMA PumpTakesKept ==
  ASSUME Opens \in Nat, SyncInv, SyncPart!PumpTakes
  PROVE  SyncInv'
<1>1. /\ pump.loop # 0 /\ pump.pc \in {"scheduled", "running"} /\ source.end = "none"
      /\ UNCHANGED <<client, loops, closer, call, reader>>
  BY DEF SyncPart!PumpTakes, SyncPart!PumpStep
<1>2. ASSUME source' = [source EXCEPT !.yielded = @ + 1], pump' = [pump EXCEPT !.pc = "putting"],
             UNCHANGED shared
      PROVE  SyncInv'
  <2>1. BridgeShape'
    BY <1>1, <1>2 DEF SyncInv, BridgeShape
  <2>2. ClientInv'
    BY <1>1, <1>2 DEF SyncInv, BridgeShape, ClientInv, Past
  <2>3. /\ DOMAIN source' = DOMAIN source /\ source'.end = source.end
        /\ source'.yielded = source.yielded + 1
        /\ pump'.pc = "putting" /\ pump'.loop = pump.loop /\ pump'.left = pump.left
    BY <1>2 DEF SyncInv, BridgeShape
  <2>4. reader.pc # "idle" /\ ~shared.finished
    BY <1>1 DEF SyncInv, StreamInv
  <2>5. Agree => Agree'
    <3>1. source.yielded \in Nat /\ reader.got \in Nat /\ Len(shared.queue) \in Nat
      BY DEF SyncInv, BridgeShape
    <3> QED BY <1>1, <1>2, <2>3, <3>1 DEF Agree, InTheOpen
  <2>6. StreamInv'
    BY <1>1, <1>2, <2>3, <2>4, <2>5 DEF SyncInv, StreamInv, Reading
  <2> QED BY <2>1, <2>2, <2>6 DEF SyncInv
<1>3. ASSUME NEW how \in {"ended", "failed"}, source' = [source EXCEPT !.end = how],
             pump' = [pump EXCEPT !.pc = "finishing"],
             \/ how = "ended" /\ UNCHANGED shared
             \/ shared' = [shared EXCEPT !.failure = IF @ = "none" THEN "stream" ELSE @]
      PROVE  SyncInv'
  <2>1. /\ DOMAIN source' = DOMAIN source /\ source'.yielded = source.yielded /\ source'.end = how
        /\ DOMAIN pump' = DOMAIN pump /\ pump'.loop = pump.loop /\ pump'.left = pump.left
        /\ pump'.pc = "finishing"
    BY <1>3 DEF SyncInv, BridgeShape
  <2>2. /\ DOMAIN shared' = DOMAIN shared /\ shared'.queue = shared.queue
        /\ shared'.stop = shared.stop /\ shared'.finished = shared.finished
        /\ shared'.failure = "none" => shared.failure = "none" /\ how = "ended"
    BY <1>3 DEF SyncInv, BridgeShape
  <2>3. BridgeShape' /\ ClientInv'
    BY <1>1, <2>1, <2>2 DEF SyncInv, BridgeShape, ClientInv, Past
  <2>4. StreamInv'
    BY <1>1, <2>1, <2>2
       DEF SyncInv, BridgeShape, ClientInv, StreamInv, Agree, InTheOpen, Reading, Past
  <2> QED BY <2>3, <2>4 DEF SyncInv
<1> QED BY <1>2, <1>3 DEF SyncPart!PumpTakes

LEMMA PumpPutsKept ==
  ASSUME Opens \in Nat, SyncInv, SyncPart!PumpPuts
  PROVE  SyncInv'
<1>1. /\ pump.loop # 0 /\ pump.pc \in {"putting", "full"}
      /\ UNCHANGED <<client, loops, closer, call, reader, source>>
  BY DEF SyncPart!PumpPuts, SyncPart!PumpStep
<1>2. CASE shared.stop
  <2>1. pump' = [pump EXCEPT !.pc = "finishing"] /\ UNCHANGED shared
    BY <1>2, Zenon DEF SyncPart!PumpPuts
  <2> QED BY <1>1, <1>2, <2>1
          DEF SyncInv, BridgeShape, ClientInv, StreamInv, Agree, InTheOpen, Reading, Past
<1>3. CASE ~shared.stop /\ Len(shared.queue) < BufferSize
  <2>1. /\ shared' = [shared EXCEPT !.queue = Append(shared.queue, source.yielded)]
        /\ pump' = [pump EXCEPT !.pc = "running"]
    BY <1>3, Zenon DEF SyncPart!PumpPuts
  <2>2. /\ DOMAIN shared' = DOMAIN shared /\ shared'.queue = Append(shared.queue, source.yielded)
        /\ shared'.stop = shared.stop /\ shared'.finished = shared.finished
        /\ shared'.failure = shared.failure
    BY <2>1 DEF SyncInv, BridgeShape
  <2>3. shared'.queue \in Seq(Nat) /\ Len(shared'.queue) = Len(shared.queue) + 1
    BY <2>2 DEF SyncInv, BridgeShape
  <2>4. BridgeShape' /\ ClientInv'
    BY <1>1, <2>1, <2>2, <2>3 DEF SyncInv, BridgeShape, ClientInv, Past
  <2>5. pump'.pc = "running" /\ pump'.loop = pump.loop /\ pump'.left = pump.left
    BY <2>1 DEF SyncInv, BridgeShape
  <2>6. ASSUME Reading, shared.failure = "none" PROVE Agree'
    <3>1. Agree /\ ~shared.finished
      BY <1>1, <2>6 DEF SyncInv, StreamInv
    <3>2. Len(shared.queue) \in Nat /\ reader.got \in Nat
      BY DEF SyncInv, BridgeShape
    <3>3. source'.yielded = reader'.got + Len(shared'.queue)
                            + IF pump'.pc \in {"putting", "full"} THEN 1 ELSE 0
      BY <1>1, <2>3, <2>5, <3>1, <3>2 DEF Agree
    <3> QED BY <1>1, <2>2, <2>5, <3>1, <3>3 DEF Agree, InTheOpen
  <2>7. StreamInv'
    BY <1>1, <2>2, <2>5, <2>6 DEF SyncInv, StreamInv, Reading
  <2> QED BY <2>4, <2>7 DEF SyncInv
<1>4. CASE ~shared.stop /\ ~(Len(shared.queue) < BufferSize)
  <2>1. pump' = [pump EXCEPT !.pc = "full"] /\ UNCHANGED shared
    BY <1>4, Zenon DEF SyncPart!PumpPuts
  <2> QED BY <1>1, <2>1
          DEF SyncInv, BridgeShape, ClientInv, StreamInv, Agree, InTheOpen, Reading, Past
<1> QED BY <1>2, <1>3, <1>4

LEMMA SyncInit == ASSUME Opens \in Nat, SyncPart!Init PROVE SyncInv
<1>1. BridgeShape
  BY DEF SyncPart!Init, SyncPart!NoCall, SyncPart!NewShared, BridgeShape
<1> QED BY <1>1 DEF SyncPart!Init, SyncPart!NoCall, SyncPart!NewShared, SyncInv, ClientInv,
                    StreamInv, Reading, Past

LEMMA SyncKept == ASSUME Opens \in Nat, SyncInv, [SyncPart!Next]_(SyncPart!syncVars) PROVE SyncInv'
<1>1. CASE UNCHANGED SyncPart!syncVars
  BY <1>1 DEF SyncPart!syncVars, SyncInv, BridgeShape, ClientInv, StreamInv, Agree, InTheOpen,
              Reading, Past
<1>2. CASE SyncPart!Next
  BY <1>2, ClientStepsKept, StreamStepsKept, OpenedKept, CancelRestKept, ReaderStartsKept,
     ReaderGetsKept, ReaderCleansKept, PumpTakesKept, PumpPutsKept DEF SyncPart!Next
<1> QED BY <1>1, <1>2

\* Whatever order the threads and the loop take, and however often the client is closed and
\* opened again, a stream that simply ends has given all it had, no reader waits on a loop
\* that stopped, a call that a close cancelled says so, and no call waits on a loop whose
\* tasks were cancelled before it stopped (close, _stop_thread, _run, _iterate).
THEOREM NothingIsCutShort ==
  ASSUME Opens \in Nat
  PROVE  SyncPart!Spec => []CutShortMeansRaised
<1>1. SyncInv => CutShortMeansRaised
  BY DEF SyncInv, ClientInv, StreamInv, Agree, InTheOpen, Reading, CutShortMeansRaised,
         SyncPart!CutShortMeansRaised, SyncPart!EndIsHonest, SyncPart!NoReaderIsStranded,
         SyncPart!CancelIsExplained, SyncPart!NoCallIsStranded, SyncPart!NoCallIsLeft
<1>2. SyncPart!Init => SyncInv
  BY SyncInit
<1>3. SyncInv /\ [SyncPart!Next]_(SyncPart!syncVars) => SyncInv'
  BY SyncKept
<1> QED BY <1>1, <1>2, <1>3, PTL DEF SyncPart!Spec

-------------------------------------------------------------------------------
(* The book, for any levels, any bounds and any size of the buffer.  An update is *)
(* incomplete where some of its deltas are neither applied nor to come, and the   *)
(* builder never starts on one: that is what a synced book rests on.              *)
Unset == BookPart!None
DeltaRecords == [level : Levels, size : {0, 1}, start : Nat, sequence : Nat]

\* A delta is one of an update of the venue's: no number lies inside its range.
WellFormed(t, d) ==
  /\ d.sequence \in DOMAIN t /\ d.start - 1 \in DOMAIN t /\ d.start <= d.sequence
  /\ d.size = t[d.sequence][d.level]
  /\ \A n \in DOMAIN t : ~(d.start <= n /\ n < d.sequence)
\* The deltas in D hold whatever the update of d changed.
Complete(t, d, D) ==
  \A l \in Levels : t[d.sequence][l] # t[d.start - 1][l]
    => \E e \in D : e.sequence = d.sequence /\ e.level = l
TruthOK(t) ==
  /\ DOMAIN t \subseteq Nat
  /\ \A n \in DOMAIN t : t[n] \in [Levels -> {0, 1}]

\* A builder b that is yet to be given the deltas in D.
BuilderShape(b) ==
  /\ DOMAIN b = {"levels", "last", "synced", "buffer", "batch", "droppedThrough"}
  /\ b.buffer \in Seq(DeltaRecords) /\ b.droppedThrough \in Int
  /\ b.droppedThrough >= Unset
  /\ DOMAIN b.levels = Levels
Floor(b) == IF b.synced THEN b.last ELSE b.droppedThrough
Owed(b, D, l) ==
  \E e \in D : b.batch = <<e.start, e.sequence>> /\ e.sequence = b.last /\ e.level = l
SyncedIsTrue(t, b, D) ==
  /\ b.buffer = <<>> /\ b.droppedThrough = Unset /\ b.last \in DOMAIN t
  /\ b.batch = <<Unset, Unset>> \/ b.batch[2] = b.last
  /\ \A l \in Levels : b.levels[l] = t[b.last][l] \/ Owed(b, D, l)
Good(t, b, D) ==
  /\ BuilderShape(b) /\ D \subseteq DeltaRecords
  /\ \A d \in Values(b.buffer) \cup D : WellFormed(t, d)
  /\ InOrder(b.buffer)
  /\ \A d \in Values(b.buffer), e \in D : d.sequence <= e.sequence
  /\ \A d \in Values(b.buffer) \cup D :
       d.sequence > Floor(b) => Complete(t, d, Values(b.buffer) \cup D)
  /\ b.synced => SyncedIsTrue(t, b, D)

LEMMA DeltaNumbers == \A d \in DeltaRecords : d.sequence \in Nat
  BY DEF DeltaRecords

\* A delta is added to the buffer, and the oldest gives way and is remembered.
LEMMA BufferKeeps ==
  ASSUME MaxBuffered \in Nat \ {0}, NEW t, TruthOK(t), NEW b, NEW D, Good(t, b, D), ~b.synced,
         NEW d \in D, \A e \in D : d.sequence <= e.sequence,
         NEW E, D \ {d} \subseteq E, E \subseteq D
  PROVE  Good(t, BookPart!BufferDelta(b, d), E) /\ ~BookPart!BufferDelta(b, d).synced
<1> DEFINE n == BookPart!BufferDelta(b, d)
<1>1. /\ DOMAIN b = {"levels", "last", "synced", "buffer", "batch", "droppedThrough"}
      /\ b.buffer \in Seq(DeltaRecords) /\ d \in DeltaRecords /\ D \subseteq DeltaRecords
      /\ InOrder(b.buffer) /\ b.droppedThrough \in Int /\ b.droppedThrough >= Unset
      /\ DOMAIN b.levels = Levels
  BY DEF Good, BuilderShape
<1>2. Unset = -1 /\ d.sequence \in Nat
  BY <1>1 DEF Unset, BookPart!None, DeltaRecords
<1>3. ASSUME Len(b.buffer) < MaxBuffered PROVE Good(t, n, E) /\ ~n.synced
  <2>1. n = [b EXCEPT !.buffer = Append(b.buffer, d)]
    BY <1>3 DEF BookPart!BufferDelta
  <2>2. /\ DOMAIN n = DOMAIN b /\ n.buffer = Append(b.buffer, d) /\ n.synced = b.synced
        /\ n.droppedThrough = b.droppedThrough /\ n.levels = b.levels
    BY <1>1, <2>1
  <2> HIDE DEF n
  <2>3. Values(n.buffer) = Values(b.buffer) \cup {d} /\ n.buffer \in Seq(DeltaRecords)
    BY <1>1, <2>2, AddedAtEnd
  <2>4. InOrder(n.buffer)
    BY <1>1, <2>2, AddedInOrder DEF Good
  <2>5. Values(n.buffer) \cup E = Values(b.buffer) \cup D
    BY <2>3
  <2>6. \A x \in Values(n.buffer), e \in E : x.sequence <= e.sequence
    BY <2>3 DEF Good
  <2>7. Floor(n) = Floor(b)
    BY <2>2 DEF Floor
  <2>8. \A x \in Values(n.buffer) \cup E :
          WellFormed(t, x) /\ (x.sequence > Floor(n) => Complete(t, x, Values(n.buffer) \cup E))
    BY <2>5, <2>7 DEF Good
  <2>9. BuilderShape(n) /\ E \subseteq DeltaRecords
    BY <1>1, <2>2, <2>3 DEF BuilderShape
  <2> QED BY <2>2, <2>4, <2>6, <2>8, <2>9 DEF Good
<1>4. ASSUME ~(Len(b.buffer) < MaxBuffered) PROVE Good(t, n, E) /\ ~n.synced
  <2> DEFINE h == Head(b.buffer)
             through == IF b.droppedThrough < h.sequence THEN h.sequence ELSE b.droppedThrough
  <2>1. b.buffer # <<>>
    <3>1. Len(<<>>) = 0
      OBVIOUS
    <3> QED BY <1>4, <3>1
  <2>2. n = [b EXCEPT !.buffer = Append(Tail(b.buffer), d), !.droppedThrough = through]
    BY <1>4 DEF BookPart!BufferDelta
  <2>3. /\ h \in DeltaRecords /\ h \in Values(b.buffer) /\ Tail(b.buffer) \in Seq(DeltaRecords)
        /\ Values(Tail(b.buffer)) \subseteq Values(b.buffer)
        /\ Values(b.buffer) \ {h} \subseteq Values(Tail(b.buffer))
    BY <1>1, <2>1, ReadFromHead
  <2>4. h.sequence \in Nat
    BY <2>3 DEF DeltaRecords
  <2> HIDE DEF h
  <2>5. through \in Int /\ through >= Unset /\ through >= b.droppedThrough /\ through >= h.sequence
    BY <1>1, <1>2, <2>4
  <2> HIDE DEF through
  <2>6. /\ DOMAIN n = DOMAIN b /\ n.buffer = Append(Tail(b.buffer), d) /\ n.synced = b.synced
        /\ n.droppedThrough = through /\ n.levels = b.levels
    BY <1>1, <2>2
  <2> HIDE DEF n
  <2>7. /\ Values(n.buffer) = Values(Tail(b.buffer)) \cup {d}
        /\ n.buffer \in Seq(DeltaRecords)
    <3>1. PICK s \in Seq(DeltaRecords) : s = Tail(b.buffer)
      BY <2>3
    <3>2. Values(Append(s, d)) = Values(s) \cup {d} /\ Append(s, d) \in Seq(DeltaRecords)
      BY <1>1, AddedAtEnd
    <3> QED BY <2>6, <3>1, <3>2
  <2>8. InOrder(Tail(b.buffer)) /\ \A x \in Values(Tail(b.buffer)) : x.sequence <= d.sequence
    BY <1>1, <2>1, <2>3, LaterInOrder, DeltaNumbers DEF Good
  <2>9. InOrder(n.buffer)
    BY <1>1, <2>3, <2>6, <2>8, AddedInOrder
  <2>10. \A x \in Values(n.buffer), e \in E : x.sequence <= e.sequence
    BY <2>3, <2>7 DEF Good
  <2>11. /\ Values(n.buffer) \cup E \subseteq Values(b.buffer) \cup D
         /\ (Values(b.buffer) \cup D) \ {h} \subseteq Values(n.buffer) \cup E
    BY <2>3, <2>7
  <2>12. ASSUME NEW x \in Values(n.buffer) \cup E, x.sequence > Floor(n)
         PROVE  Complete(t, x, Values(n.buffer) \cup E)
    <3>1. x.sequence > Floor(b) /\ x.sequence # h.sequence
      <4>1. x \in DeltaRecords
        BY <1>1, <2>11, <2>3, ElementOfSeq, LenProperties DEF Values
      <4>2. x.sequence \in Nat
        BY <4>1 DEF DeltaRecords
      <4> QED BY <1>1, <2>4, <2>5, <2>6, <2>12, <4>2 DEF Floor
    <3>2. Complete(t, x, Values(b.buffer) \cup D)
      BY <2>11, <3>1 DEF Good
    <3> QED BY <2>11, <3>1, <3>2 DEF Complete
  <2>13. \A x \in Values(n.buffer) \cup E : WellFormed(t, x)
    BY <2>11 DEF Good
  <2>14. BuilderShape(n) /\ E \subseteq DeltaRecords
    BY <1>1, <2>5, <2>6, <2>7 DEF BuilderShape
  <2> QED BY <2>6, <2>9, <2>10, <2>12, <2>13, <2>14 DEF Good
<1> QED BY <1>3, <1>4

\* The next delta in order is applied, skipped or kept aside.
LEMMA ApplyKeeps ==
  ASSUME MaxBuffered \in Nat \ {0}, NEW t, TruthOK(t), NEW b, NEW D, Good(t, b, D),
         NEW d \in D, \A e \in D : d.sequence <= e.sequence,
         NEW E, D \ {d} \subseteq E, E \subseteq D
  PROVE  Good(t, BookPart!ApplyDelta(b, d), E)
<1> DEFINE n == BookPart!ApplyDelta(b, d)
           batch == <<d.start, d.sequence>>
<1>1. /\ DOMAIN b = {"levels", "last", "synced", "buffer", "batch", "droppedThrough"}
      /\ b.buffer \in Seq(DeltaRecords) /\ d \in DeltaRecords /\ D \subseteq DeltaRecords
      /\ InOrder(b.buffer) /\ b.droppedThrough \in Int /\ b.droppedThrough >= Unset
      /\ DOMAIN b.levels = Levels
  BY DEF Good, BuilderShape
<1>2. Unset = -1 /\ d.sequence \in Nat /\ d.start \in Nat /\ d.level \in Levels
  BY <1>1 DEF Unset, BookPart!None, DeltaRecords
<1>3. CASE ~b.synced
  BY <1>3, BufferKeeps DEF BookPart!ApplyDelta
<1>4. ASSUME b.synced PROVE Good(t, n, E)
  <2>1. SyncedIsTrue(t, b, D)
    BY <1>4 DEF Good
  <2>2. /\ b.buffer = <<>> /\ b.last \in Nat /\ b.last \in DOMAIN t /\ b.droppedThrough = Unset
        /\ Values(b.buffer) = {}
    BY <2>1, NothingInOrder DEF SyncedIsTrue, TruthOK
  <2>3. \A e \in D : WellFormed(t, e) /\ e.sequence \in Nat
                     /\ (e.sequence > b.last => Complete(t, e, D))
    <3>1. \A e \in D : WellFormed(t, e) /\ (e.sequence > b.last => Complete(t, e, D))
      BY <1>4, <2>2 DEF Good, Floor
    <3> QED BY <1>1, <3>1 DEF DeltaRecords
  <2>4. ASSUME d.sequence <= b.last, batch # b.batch PROVE Good(t, n, E)
    <3>1. n = b
      BY <1>4, <2>4 DEF BookPart!ApplyDelta
    <3>2. \A e \in E : e.sequence > b.last => Complete(t, e, E)
      <4> SUFFICES ASSUME NEW e \in E, e.sequence > b.last PROVE Complete(t, e, E)
        OBVIOUS
      <4>1. Complete(t, e, D) /\ e.sequence # d.sequence
        BY <1>2, <2>2, <2>3, <2>4
      <4> QED BY <4>1 DEF Complete
    <3>3. \A l \in Levels : b.levels[l] = t[b.last][l] \/ Owed(b, E, l)
      <4> SUFFICES ASSUME NEW l \in Levels, Owed(b, D, l) PROVE Owed(b, E, l)
        BY <2>1 DEF SyncedIsTrue
      <4>1. PICK e \in D : b.batch = <<e.start, e.sequence>> /\ e.sequence = b.last
                           /\ e.level = l
        BY DEF Owed
      <4>2. e # d
        BY <2>4, <4>1
      <4> QED BY <4>1, <4>2 DEF Owed
    <3>4. SyncedIsTrue(t, b, E)
      BY <2>1, <3>3 DEF SyncedIsTrue
    <3> HIDE DEF n
    <3>5. /\ \A e \in {} \cup E : WellFormed(t, e)
          /\ \A e \in {} \cup E : e.sequence > Floor(b) => Complete(t, e, {} \cup E)
      BY <1>4, <2>3, <3>2 DEF Floor
    <3> QED BY <1>1, <2>2, <3>1, <3>4, <3>5 DEF Good
  <2>5. ASSUME ~(d.sequence <= b.last /\ batch # b.batch), d.start > b.last + 1
        PROVE  Good(t, n, E)
    <3> DEFINE u == [b EXCEPT !.synced = FALSE]
    <3>1. n = BookPart!BufferDelta(u, d)
      BY <1>4, <2>5 DEF BookPart!ApplyDelta
    <3>2. /\ DOMAIN u = DOMAIN b /\ u.buffer = b.buffer /\ ~u.synced /\ u.levels = b.levels
          /\ u.droppedThrough = b.droppedThrough
      BY <1>1
    <3> HIDE DEF u
    <3>3. d.sequence > b.last
      <4>1. d.start <= d.sequence
        BY <2>3 DEF WellFormed
      <4> QED BY <1>2, <2>2, <2>5, <4>1
    <3>4. \A e \in D : Complete(t, e, D)
      BY <1>2, <2>2, <2>3, <3>3
    <3>5. BuilderShape(u)
      BY <1>1, <3>2 DEF BuilderShape
    <3>6. Good(t, u, D)
      BY <1>1, <2>2, <2>3, <3>2, <3>4, <3>5 DEF Good
    <3> HIDE DEF n
    <3> QED BY <3>1, <3>2, <3>6, BufferKeeps
  <2>6. ASSUME ~(d.sequence <= b.last /\ batch # b.batch), ~(d.start > b.last + 1)
        PROVE  Good(t, n, E)
    <3>1. n = [b EXCEPT !.levels = [b.levels EXCEPT ![d.level] = d.size],
                        !.last = d.sequence, !.batch = batch]
      BY <1>4, <2>6 DEF BookPart!ApplyDelta
    <3>2. /\ DOMAIN n = DOMAIN b /\ n.levels = [b.levels EXCEPT ![d.level] = d.size]
          /\ n.last = d.sequence /\ n.batch = batch /\ n.synced /\ n.buffer = b.buffer
          /\ n.droppedThrough = b.droppedThrough
      BY <1>1, <1>4, <3>1
    <3> HIDE DEF n
    <3>3. WellFormed(t, d) /\ d.sequence \in DOMAIN t /\ d.start - 1 \in DOMAIN t
      BY <2>3 DEF WellFormed
    <3>4. ASSUME d.sequence > b.last, NEW l \in Levels, l # d.level
          PROVE  \/ b.levels[l] = t[d.sequence][l]
                 \/ \E e \in E : e.sequence = d.sequence /\ e.level = l
      <4>1. d.start - 1 = b.last
        <5>1. ~(d.start <= b.last)
          BY <2>2, <3>3, <3>4 DEF WellFormed
        <5> QED BY <1>2, <2>2, <2>6, <5>1
      <4>2. b.levels[l] = t[b.last][l]
        <5>1. ~Owed(b, D, l)
          BY <1>2, <2>2, <2>3, <3>4 DEF Owed
        <5> QED BY <2>1, <5>1 DEF SyncedIsTrue
      <4>3. CASE t[d.sequence][l] = t[d.start - 1][l]
        BY <4>1, <4>2, <4>3
      <4>4. CASE t[d.sequence][l] # t[d.start - 1][l]
        <5>1. PICK e \in D : e.sequence = d.sequence /\ e.level = l
          BY <2>3, <3>4, <4>4 DEF Complete
        <5>2. e \in E
          BY <3>4, <5>1
        <5> QED BY <5>1, <5>2
      <4> QED BY <4>3, <4>4
    <3>5. ASSUME NEW e \in E, e.sequence = d.sequence
          PROVE  e.start = d.start
      <4>1. WellFormed(t, e) /\ e.start \in Nat
        BY <1>1, <2>3 DEF DeltaRecords
      <4>2. ~(e.start <= d.start - 1 /\ d.start - 1 < e.sequence)
            /\ ~(d.start <= e.start - 1 /\ e.start - 1 < d.sequence)
        BY <3>3, <4>1 DEF WellFormed
      <4>3. e.start <= e.sequence /\ d.start <= d.sequence
        BY <3>3, <4>1 DEF WellFormed
      <4> QED BY <1>2, <3>5, <4>1, <4>2, <4>3
    <3>6. ASSUME NEW l \in Levels PROVE n.levels[l] = t[n.last][l] \/ Owed(n, E, l)
      <4>1. CASE l = d.level
        BY <1>1, <3>2, <3>3, <4>1 DEF WellFormed
      <4>2. ASSUME l # d.level, d.sequence > b.last
            PROVE  n.levels[l] = t[n.last][l] \/ Owed(n, E, l)
        <5>1. n.levels[l] = b.levels[l]
          BY <1>1, <3>2, <4>2
        <5>2. b.levels[l] = t[d.sequence][l] \/ \E e \in E : e.sequence = d.sequence /\ e.level = l
          BY <3>4, <4>2
        <5> QED BY <3>2, <3>5, <5>1, <5>2 DEF Owed
      <4>3. ASSUME l # d.level, ~(d.sequence > b.last)
            PROVE  n.levels[l] = t[n.last][l] \/ Owed(n, E, l)
        <5>1. batch = b.batch /\ d.sequence <= b.last
          BY <1>2, <2>2, <2>6, <4>3
        <5>2. d.sequence = b.last
          BY <1>2, <2>1, <5>1 DEF SyncedIsTrue
        <5>3. n.levels[l] = b.levels[l]
          BY <1>1, <3>2, <4>3
        <5>4. CASE b.levels[l] = t[b.last][l]
          BY <3>2, <5>2, <5>3, <5>4
        <5>5. CASE Owed(b, D, l)
          <6>1. PICK e \in D : b.batch = <<e.start, e.sequence>> /\ e.sequence = b.last
                               /\ e.level = l
            BY <5>5 DEF Owed
          <6>2. e \in E
            BY <4>3, <6>1
          <6> QED BY <3>2, <5>1, <5>2, <6>1, <6>2 DEF Owed
        <5> QED BY <2>1, <5>4, <5>5 DEF SyncedIsTrue
      <4> QED BY <4>1, <4>2, <4>3
    <3>7. SyncedIsTrue(t, n, E)
      BY <2>2, <3>2, <3>3, <3>6 DEF SyncedIsTrue
    <3>8. \A e \in E : e.sequence > d.sequence => Complete(t, e, E)
      <4> SUFFICES ASSUME NEW e \in E, e.sequence > d.sequence PROVE Complete(t, e, E)
        OBVIOUS
      <4>1. d.sequence >= b.last
        <5>1. ASSUME d.sequence <= b.last PROVE d.sequence = b.last
          BY <1>2, <2>1, <2>6, <5>1 DEF SyncedIsTrue
        <5> QED BY <1>2, <2>2, <5>1
      <4>2. Complete(t, e, D) /\ e.sequence # d.sequence
        BY <1>2, <2>2, <2>3, <4>1
      <4> QED BY <4>2 DEF Complete
    <3>9. BuilderShape(n) /\ E \subseteq DeltaRecords
      BY <1>1, <3>2 DEF BuilderShape
    <3> QED BY <1>1, <2>2, <2>3, <3>2, <3>7, <3>8, <3>9 DEF Good, Floor
  <2> QED BY <2>4, <2>5, <2>6
<1> QED BY <1>3, <1>4

Builders == [levels : [Levels -> {0, 1}], last : Int, synced : BOOLEAN, buffer : Seq(DeltaRecords),
             batch : Int \X Int, droppedThrough : Int]

LEMMA BufferIsBuilder ==
  ASSUME MaxBuffered \in Nat \ {0}, NEW b \in Builders, NEW d \in DeltaRecords
  PROVE  /\ BookPart!BufferDelta(b, d) \in Builders
         /\ Values(BookPart!BufferDelta(b, d).buffer) \subseteq Values(b.buffer) \cup {d}
<1> DEFINE n == BookPart!BufferDelta(b, d)
<1>1. b.buffer \in Seq(DeltaRecords) /\ b.droppedThrough \in Int
  BY DEF Builders
<1>2. ASSUME Len(b.buffer) < MaxBuffered
      PROVE  n \in Builders /\ Values(n.buffer) \subseteq Values(b.buffer) \cup {d}
  <2>1. n = [b EXCEPT !.buffer = Append(b.buffer, d)]
    BY <1>2 DEF BookPart!BufferDelta
  <2>2. /\ Append(b.buffer, d) \in Seq(DeltaRecords)
        /\ Values(Append(b.buffer, d)) = Values(b.buffer) \cup {d}
    BY <1>1, AddedAtEnd
  <2> HIDE DEF n
  <2> QED BY <2>1, <2>2 DEF Builders
<1>3. ASSUME ~(Len(b.buffer) < MaxBuffered)
      PROVE  n \in Builders /\ Values(n.buffer) \subseteq Values(b.buffer) \cup {d}
  <2> DEFINE h == Head(b.buffer)
             through == IF b.droppedThrough < h.sequence THEN h.sequence ELSE b.droppedThrough
  <2>1. b.buffer # <<>>
    <3>1. Len(<<>>) = 0
      OBVIOUS
    <3> QED BY <1>3, <3>1
  <2>2. n = [b EXCEPT !.buffer = Append(Tail(b.buffer), d), !.droppedThrough = through]
    BY <1>3 DEF BookPart!BufferDelta
  <2>3. PICK s \in Seq(DeltaRecords) : s = Tail(b.buffer) /\ Values(s) \subseteq Values(b.buffer)
    BY <1>1, <2>1, ReadFromHead
  <2>4. /\ Append(s, d) \in Seq(DeltaRecords)
        /\ Values(Append(s, d)) = Values(s) \cup {d}
    BY AddedAtEnd
  <2>5. h \in DeltaRecords
    BY <1>1, <2>1, ReadFromHead
  <2>6. through \in Int
    BY <1>1, <2>5 DEF DeltaRecords
  <2> HIDE DEF n, through
  <2> QED BY <2>2, <2>3, <2>4, <2>6 DEF Builders
<1> QED BY <1>2, <1>3

LEMMA ApplyIsBuilder ==
  ASSUME MaxBuffered \in Nat \ {0}, NEW b \in Builders, NEW d \in DeltaRecords
  PROVE  /\ BookPart!ApplyDelta(b, d) \in Builders
         /\ Values(BookPart!ApplyDelta(b, d).buffer) \subseteq Values(b.buffer) \cup {d}
<1> DEFINE n == BookPart!ApplyDelta(b, d)
           u == [b EXCEPT !.synced = FALSE]
           a == [b EXCEPT !.levels = [b.levels EXCEPT ![d.level] = d.size],
                          !.last = d.sequence, !.batch = <<d.start, d.sequence>>]
<1>1. \/ n = b \/ n = BookPart!BufferDelta(b, d) \/ n = BookPart!BufferDelta(u, d) \/ n = a
  BY DEF BookPart!ApplyDelta
<1>2. u \in Builders /\ u.buffer = b.buffer
  BY DEF Builders
<1>3. a \in Builders /\ a.buffer = b.buffer
  <2>1. [b.levels EXCEPT ![d.level] = d.size] \in [Levels -> {0, 1}]
    BY DEF Builders, DeltaRecords
  <2>2. d.sequence \in Int /\ <<d.start, d.sequence>> \in Int \X Int
    BY DEF DeltaRecords
  <2> QED BY <2>1, <2>2 DEF Builders
<1>4. /\ BookPart!BufferDelta(u, d) \in Builders
      /\ Values(BookPart!BufferDelta(u, d).buffer) \subseteq Values(u.buffer) \cup {d}
  BY <1>2, BufferIsBuilder
<1> HIDE DEF n, u, a
<1>5. n \in Builders /\ Values(n.buffer) \subseteq Values(b.buffer) \cup {d}
  BY <1>1, <1>2, <1>3, <1>4, BufferIsBuilder
<1> QED BY <1>5 DEF n

\* What is buffered is applied in order, but for what the snapshot covers.
LEMMA ReplayKeeps ==
  ASSUME MaxBuffered \in Nat \ {0}, NEW t, TruthOK(t), NEW b \in Builders,
         NEW deltas \in Seq(DeltaRecords), InOrder(deltas), NEW s \in Nat, NEW D,
         \A d \in Values(deltas), e \in D : d.sequence <= e.sequence,
         Good(t, b, {d \in Values(deltas) : d.sequence > s} \cup D)
  PROVE  /\ BookPart!Replay(b, deltas, s) \in Builders
         /\ Good(t, BookPart!Replay(b, deltas, s), D)
         /\ Values(BookPart!Replay(b, deltas, s).buffer)
                \subseteq Values(b.buffer) \cup Values(deltas)
<1> DEFINE N == Len(deltas)
           Next1(x, n) == IF deltas[n].sequence > s THEN BookPart!ApplyDelta(x, deltas[n]) ELSE x
           Step == [p \in (1..N) \X Builders |-> Next1(p[2], p[1])]
           Later(k) == {d \in Values(deltas) :
                         d.sequence > s /\ \E i \in (k + 1)..N : d = deltas[i]}
           after == CHOOSE f : f = [n \in 0..N |-> IF n = 0 THEN b ELSE Next1(f[n - 1], n)]
<1>1. /\ N \in Nat /\ DOMAIN deltas = 1..N
      /\ \A n \in 1..N : deltas[n] \in DeltaRecords /\ deltas[n] \in Values(deltas)
  BY LenProperties, ElementOfSeq DEF Values
<1>2. \A x \in Builders, n \in 1..N : Next1(x, n) \in Builders
  BY <1>1, ApplyIsBuilder
<1>3. Step \in [(1..N) \X Builders -> Builders]
  <2> HIDE DEF Next1
  <2> QED BY <1>2
<1>4. \A n \in 1..N, x \in Builders : Step[<<n, x>>] = Next1(x, n)
  OBVIOUS
<1>5. \E f : f = [n \in 0..N |-> IF n = 0 THEN b ELSE Next1(f[n - 1], n)]
  <2> HIDE DEF Step, N, Next1
  <2>1. PICK g : g \in Traces(Builders, b, N, Step)
    BY <1>1, <1>3, TraceExists
  <2>2. g \in [0..N -> Builders] /\ g[0] = b /\ \A i \in 1..N : g[i] = Step[<<i, g[i - 1]>>]
    BY <2>1 DEF Traces
  <2>3. \A n \in 1..N : g[n] = Next1(g[n - 1], n)
    <3> TAKE n \in 1..N
    <3>1. n - 1 \in 0..N
      BY <1>1
    <3> QED BY <1>4, <2>2, <3>1
  <2>4. g = [n \in 0..N |-> IF n = 0 THEN b ELSE Next1(g[n - 1], n)]
    <3>1. \A n \in 0..N : n # 0 => n \in 1..N
      BY <1>1
    <3> QED BY <2>2, <2>3, <3>1
  <2> QED BY <2>4
<1>6. after = [n \in 0..N |-> IF n = 0 THEN b ELSE Next1(after[n - 1], n)]
  <2> HIDE DEF Next1, N
  <2> QED BY <1>5
<1>7. BookPart!Replay(b, deltas, s) = after[N]
  BY DEF BookPart!Replay
<1> HIDE DEF after
<1> DEFINE T == {k \in 0..N : /\ after[k] \in Builders /\ Good(t, after[k], Later(k) \cup D)
                             /\ Values(after[k].buffer)
                                   \subseteq Values(b.buffer) \cup Values(deltas)}
<1>8. 0 \in T
  <2>1. after[0] = b /\ 0 \in 0..N
    BY <1>1, <1>6
  <2>2. Later(0) = {d \in Values(deltas) : d.sequence > s}
    BY <1>1 DEF Values
  <2> HIDE DEF Later
  <2> QED BY <2>1, <2>2
<1>9. ASSUME NEW k \in 0..(N - 1), k \in T PROVE k + 1 \in T
  <2> DEFINE d == deltas[k + 1]
  <2>1. k + 1 \in 1..N /\ k + 1 \in 0..N /\ k + 1 # 0 /\ (k + 1) - 1 = k
    BY <1>1
  <2>2. after[k + 1] = Next1(after[k], k + 1)
    <3> HIDE DEF Next1, N
    <3> QED BY <1>6, <2>1
  <2>3. /\ after[k] \in Builders /\ Good(t, after[k], Later(k) \cup D)
        /\ Values(after[k].buffer) \subseteq Values(b.buffer) \cup Values(deltas)
    BY <1>9
  <2>4. d \in DeltaRecords /\ d \in Values(deltas)
    BY <1>1, <2>1
  <2>5. \A i \in (k + 1)..N : i = k + 1 \/ i \in ((k + 1) + 1)..N
    BY <1>1
  <2>6. CASE d.sequence > s
    <3>1. after[k + 1] = BookPart!ApplyDelta(after[k], d)
      BY <2>2, <2>6
    <3>2. d \in Later(k)
      BY <1>1, <2>1, <2>4, <2>6
    <3>3. Later(k) \ {d} \subseteq Later(k + 1) /\ Later(k + 1) \subseteq Later(k)
      BY <1>1, <2>5
    <3>4. \A e \in Later(k) : d.sequence <= e.sequence
      <4> SUFFICES ASSUME NEW i \in (k + 1)..N PROVE d.sequence <= deltas[i].sequence
        OBVIOUS
      <4>1. CASE i = k + 1
        <5>1. d.sequence \in Nat
          BY <2>4 DEF DeltaRecords
        <5> QED BY <4>1, <5>1
      <4>2. CASE i # k + 1
        <5>1. k + 1 < i /\ i \in DOMAIN deltas /\ k + 1 \in DOMAIN deltas
          BY <1>1, <2>1, <4>2
        <5> QED BY <5>1 DEF InOrder
      <4> QED BY <4>1, <4>2
    <3>5. \A e \in D : d.sequence <= e.sequence
      BY <2>4
    <3> HIDE DEF Later, d
    <3>6. Good(t, after[k + 1], Later(k + 1) \cup D)
      <4> DEFINE L == Later(k) \cup D
                 R == Later(k + 1) \cup D
      <4>1. d \in L /\ L \ {d} \subseteq R /\ R \subseteq L /\ \A e \in L : d.sequence <= e.sequence
        BY <3>2, <3>3, <3>4, <3>5
      <4>2. Good(t, after[k], L)
        BY <2>3
      <4> HIDE DEF L, R
      <4>3. Good(t, BookPart!ApplyDelta(after[k], d), R)
        BY <4>1, <4>2, ApplyKeeps
      <4> QED BY <3>1, <4>3 DEF R
    <3>7. after[k + 1] \in Builders
          /\ Values(after[k + 1].buffer) \subseteq Values(after[k].buffer) \cup {d}
      <4>1. PICK x \in Builders : x = after[k]
        BY <2>3
      <4>2. /\ BookPart!ApplyDelta(x, d) \in Builders
            /\ Values(BookPart!ApplyDelta(x, d).buffer) \subseteq Values(x.buffer) \cup {d}
        BY <2>4, ApplyIsBuilder
      <4> QED BY <3>1, <4>1, <4>2
    <3> QED BY <2>1, <2>3, <2>4, <3>6, <3>7
  <2>7. CASE ~(d.sequence > s)
    <3>1. after[k + 1] = after[k]
      BY <2>2, <2>7
    <3>2. Later(k + 1) = Later(k)
      BY <1>1, <2>5, <2>7
    <3> HIDE DEF Later
    <3> QED BY <2>1, <2>3, <3>1, <3>2
  <2> QED BY <2>6, <2>7
<1>10. N \in T
  <2>1. N \in 0..N
    BY <1>1
  <2> HIDE DEF T, N
  <2>2. \A k \in 0..N : k \in T
    BY <1>1, <1>8, <1>9, UpTo
  <2> QED BY <2>1, <2>2
<1>11. Later(N) \cup D = D
  BY <1>1
<1> HIDE DEF Later
<1>12. after[N] \in Builders /\ Good(t, after[N], D)
       /\ Values(after[N].buffer) \subseteq Values(b.buffer) \cup Values(deltas)
  BY <1>10, <1>11
<1> HIDE DEF N
<1> QED BY <1>7, <1>12

LEMMA SnapshotKeeps ==
  ASSUME MaxBuffered \in Nat \ {0}, NEW t, TruthOK(t), NEW b \in Builders, NEW D, Good(t, b, D),
         NEW n \in DOMAIN t
  PROVE  /\ BookPart!ApplySnapshot(b, n, t[n]) \in Builders
         /\ Good(t, BookPart!ApplySnapshot(b, n, t[n]), D)
         /\ Values(BookPart!ApplySnapshot(b, n, t[n]).buffer) \subseteq Values(b.buffer)
<1> DEFINE fresh == BookPart!BookAt(n, t[n])
           F == {d \in Values(b.buffer) : d.sequence > n}
<1>1. n \in Nat /\ t[n] \in [Levels -> {0, 1}] /\ Unset = -1
  BY DEF TruthOK, Unset, BookPart!None
<1>2. CASE BookPart!RollsBack(b, n) \/ BookPart!MissesDropped(b, n)
  <2>1. BookPart!ApplySnapshot(b, n, t[n]) = b
    BY <1>2 DEF BookPart!ApplySnapshot
  <2> QED BY <2>1
<1>3. CASE ~(BookPart!RollsBack(b, n) \/ BookPart!MissesDropped(b, n))
  <2>1. BookPart!ApplySnapshot(b, n, t[n]) = BookPart!Replay(fresh, b.buffer, n)
    BY <1>3 DEF BookPart!ApplySnapshot
  <2>2. /\ DOMAIN fresh = {"levels", "last", "synced", "buffer", "batch", "droppedThrough"}
        /\ fresh.levels = t[n] /\ fresh.last = n /\ fresh.synced = TRUE /\ fresh.buffer = <<>>
        /\ fresh.batch = <<Unset, Unset>> /\ fresh.droppedThrough = Unset
    BY DEF BookPart!BookAt, Unset
  <2>3. <<>> \in Seq(DeltaRecords) /\ Values(<<>>) = {} /\ InOrder(<<>>)
    BY EmptySeq, NothingInOrder
  <2>4. fresh \in Builders
    <3>1. fresh = [levels |-> t[n], last |-> n, synced |-> TRUE, buffer |-> <<>>,
                   batch |-> <<-1, -1>>, droppedThrough |-> -1]
      BY DEF BookPart!BookAt, BookPart!None
    <3> HIDE DEF fresh
    <3> QED BY <1>1, <2>3, <3>1 DEF Builders
  <2> HIDE DEF fresh
  <2>5. Floor(b) <= n
    BY <1>3, <1>1 DEF BookPart!RollsBack, BookPart!MissesDropped, Floor, Builders
  <2>6. b.buffer \in Seq(DeltaRecords) /\ InOrder(b.buffer) /\ F \cup D \subseteq DeltaRecords
        /\ Floor(b) \in Int
    <3>1. Values(b.buffer) \subseteq DeltaRecords
      BY ElementOfSeq, LenProperties DEF Values, Good, BuilderShape
    <3>2. Floor(b) \in Int
      BY DEF Floor, Builders
    <3> QED BY <3>1, <3>2 DEF Good, BuilderShape
  <2>7. ASSUME NEW d \in F \cup D, d.sequence > n PROVE Complete(t, d, F \cup D)
    <3>1. d.sequence \in Nat
      BY <2>6 DEF DeltaRecords
    <3>2. d \in Values(b.buffer) \cup D /\ d.sequence > Floor(b)
      BY <1>1, <2>5, <2>6, <2>7, <3>1
    <3>3. Complete(t, d, Values(b.buffer) \cup D)
      BY <3>2 DEF Good
    <3> QED BY <2>7, <3>3 DEF Complete
  <2>8. SyncedIsTrue(t, fresh, F \cup D)
    BY <1>1, <2>2 DEF SyncedIsTrue
  <2>9. \A d \in F \cup D : WellFormed(t, d)
    BY DEF Good
  <2>10. BuilderShape(fresh)
    BY <1>1, <2>2, <2>3 DEF BuilderShape
  <2>11. fresh.buffer = <<>> /\ fresh.synced /\ fresh.last = n
    BY <2>2
  <2> HIDE DEF fresh, F
  <2>12. Good(t, fresh, F \cup D)
    BY <2>3, <2>6, <2>7, <2>8, <2>9, <2>10, <2>11 DEF Good, Floor
  <2>13. \A d \in Values(b.buffer), e \in D : d.sequence <= e.sequence
    BY DEF Good
  <2>14. /\ BookPart!Replay(fresh, b.buffer, n) \in Builders
         /\ Good(t, BookPart!Replay(fresh, b.buffer, n), D)
         /\ Values(BookPart!Replay(fresh, b.buffer, n).buffer)
              \subseteq Values(fresh.buffer) \cup Values(b.buffer)
    <3>1. PICK buffer \in Seq(DeltaRecords) : buffer = b.buffer
      BY <2>6
    <3>2. Good(t, fresh, {d \in Values(buffer) : d.sequence > n} \cup D)
      BY <2>12, <3>1 DEF F
    <3>3. InOrder(buffer) /\ \A d \in Values(buffer), e \in D : d.sequence <= e.sequence
      BY <2>6, <2>13, <3>1
    <3> QED BY <1>1, <2>4, <3>1, <3>2, <3>3, ReplayKeeps
  <2> QED BY <2>1, <2>3, <2>11, <2>14
<1> QED BY <1>2, <1>3

-------------------------------------------------------------------------------
\* Nothing a builder is told is changed when the venue updates its book.
LEMMA TruthGrows ==
  ASSUME NEW t, TruthOK(t), NEW u, TruthOK(u), DOMAIN t \subseteq DOMAIN u,
         \A n \in DOMAIN t : u[n] = t[n],
         \A n \in DOMAIN t, m \in DOMAIN u \ DOMAIN t : n < m
  PROVE  /\ \A d \in DeltaRecords : WellFormed(t, d) => WellFormed(u, d)
         /\ \A d \in DeltaRecords :
              \A D : WellFormed(t, d) /\ Complete(t, d, D) => Complete(u, d, D)
         /\ \A b, D : Good(t, b, D) => Good(u, b, D)
<1>1. ASSUME NEW d \in DeltaRecords, WellFormed(t, d) PROVE WellFormed(u, d)
  <2>1. d.sequence \in DOMAIN t /\ d.start - 1 \in DOMAIN t /\ d.sequence \in Nat /\ d.start \in Nat
    BY <1>1 DEF WellFormed, DeltaRecords
  <2>2. ASSUME NEW n \in DOMAIN u PROVE ~(d.start <= n /\ n < d.sequence)
    <3>1. CASE n \in DOMAIN t
      BY <1>1, <3>1 DEF WellFormed
    <3>2. CASE n \notin DOMAIN t
      <4>1. d.sequence < n /\ n \in Nat
        BY <2>1, <3>2 DEF TruthOK
      <4> QED BY <2>1, <4>1
    <3> QED BY <3>1, <3>2
  <2> QED BY <1>1, <2>1, <2>2 DEF WellFormed
<1>2. ASSUME NEW d \in DeltaRecords, WellFormed(t, d), NEW D, Complete(t, d, D)
      PROVE  Complete(u, d, D)
  BY <1>2 DEF WellFormed, Complete
<1>3. ASSUME NEW b, NEW D, Good(t, b, D) PROVE Good(u, b, D)
  <2>1. Values(b.buffer) \cup D \subseteq DeltaRecords
    BY <1>3, ElementOfSeq, LenProperties DEF Values, Good, BuilderShape
  <2>2. b.synced => SyncedIsTrue(u, b, D)
    BY <1>3 DEF Good, SyncedIsTrue
  <2> QED BY <1>1, <1>2, <1>3, <2>1, <2>2 DEF Good
<1> QED BY <1>1, <1>2, <1>3

\* A snapshot or an update on its way tells the truth, and updates come in order.
OnTheWay(t, s) ==
  /\ s \in Seq(Seq(DeltaRecords))
  /\ \A k \in DOMAIN s : InOrder(s[k])
  /\ \A k \in DOMAIN s : \A d \in Values(s[k]) : WellFormed(t, d) /\ Complete(t, d, Values(s[k]))
  /\ \A j, k \in DOMAIN s : j < k => \A d \in Values(s[j]), e \in Values(s[k]) :
                                       d.sequence <= e.sequence
Ahead(D, s) == \A k \in DOMAIN s : \A d \in D, e \in Values(s[k]) : d.sequence <= e.sequence
BookInv ==
  /\ TruthOK(truth) /\ \E m \in DOMAIN truth : \A n \in DOMAIN truth : n <= m
  /\ book \in Builders /\ rest \in Seq(DeltaRecords) /\ InOrder(rest)
  /\ fetched \subseteq DOMAIN truth
  /\ OnTheWay(truth, sent)
  /\ Ahead(Values(book.buffer) \cup Values(rest), sent)
  /\ Good(truth, book, Values(rest))

LEMMA BookInit == ASSUME BookPart!Init PROVE BookInv
<1>1. /\ DOMAIN truth = {0} /\ truth[0] = [l \in Levels |-> 0] /\ sent = <<>> /\ fetched = {}
      /\ rest = <<>>
      /\ book = [levels |-> [l \in Levels |-> 0], last |-> Unset, synced |-> FALSE,
                 buffer |-> <<>>, batch |-> <<Unset, Unset>>, droppedThrough |-> Unset]
  BY DEF BookPart!Init, BookPart!Empty, BookPart!NewBook, Unset
<1>2. /\ <<>> \in Seq(DeltaRecords) /\ <<>> \in Seq(Seq(DeltaRecords)) /\ Values(<<>>) = {}
      /\ InOrder(<<>>) /\ DOMAIN <<>> = {}
  <2>1. DOMAIN <<>> = {}
    OBVIOUS
  <2> QED BY <2>1, EmptySeq, NothingInOrder
<1>3. Unset = -1
  BY DEF Unset, BookPart!None
<1>4. TruthOK(truth) /\ \E m \in DOMAIN truth : \A n \in DOMAIN truth : n <= m
  <2>1. [l \in Levels |-> 0] \in [Levels -> {0, 1}] /\ {0} \subseteq Nat /\ 0 <= 0
    OBVIOUS
  <2>2. TruthOK(truth)
    BY <1>1, <2>1 DEF TruthOK
  <2> QED BY <1>1, <2>1, <2>2
<1>5. book \in Builders
  BY <1>1, <1>2, <1>3 DEF Builders
<1>6. Good(truth, book, {})
  BY <1>1, <1>2, <1>3 DEF Good, BuilderShape
<1> QED BY <1>1, <1>2, <1>4, <1>5, <1>6 DEF BookInv, OnTheWay, Ahead

LEMMA SameCount == \A S : BookPart!Cardinality(S) = Cardinality(S)
  BY DEF BookPart!Cardinality, Cardinality
LEMMA UpdatesKeep ==
  ASSUME IsFiniteSet(Levels), BookInv, BookPart!VenueUpdates
  PROVE  BookInv'
<1> DEFINE last == BookPart!Newest
<1>1. last \in DOMAIN truth /\ \A n \in DOMAIN truth : n <= last
  BY DEF BookInv, BookPart!Newest
<1>2. PICK sets \in (SUBSET Levels) \ {{}}, sizes \in [Levels -> {0, 1}], width \in 1 .. 2 :
        /\ \A l \in Levels \ sets : sizes[l] = truth[last][l]
        /\ truth' = [n \in DOMAIN truth \cup {last + width} |->
                       IF n \in DOMAIN truth THEN truth[n] ELSE sizes]
        /\ \E order \in BookPart!Surjection(1 .. Cardinality(sets), sets) :
             sent' = Append(sent, BookPart!Deltas(order, sizes, last + 1, last + width))
        /\ UNCHANGED <<fetched, asked, rest, book>>
  BY SameCount DEF BookPart!VenueUpdates, BookPart!Sizes
<1>3. PICK order \in [1 .. Cardinality(sets) -> sets] :
        /\ \A l \in sets : \E i \in 1 .. Cardinality(sets) : order[i] = l
        /\ sent' = Append(sent, BookPart!Deltas(order, sizes, last + 1, last + width))
  <2>1. PICK order \in BookPart!Surjection(1 .. Cardinality(sets), sets) :
          sent' = Append(sent, BookPart!Deltas(order, sizes, last + 1, last + width))
    BY <1>2
  <2>2. order \in [1 .. Cardinality(sets) -> sets]
        /\ \A l \in sets : \E i \in 1 .. Cardinality(sets) : order[i] = l
    BY <2>1 DEF BookPart!Surjection
  <2> QED BY <2>1, <2>2
<1> DEFINE next == last + width
           new == BookPart!Deltas(order, sizes, last + 1, next)
<1>4. last \in Nat /\ next \in Nat /\ next > last /\ TruthOK(truth)
  BY <1>1 DEF BookInv, TruthOK
<1> HIDE DEF last
<1>5. Cardinality(sets) \in Nat
  BY FS_Subset, FS_CardinalityType
<1>6. /\ new = [i \in 1..Cardinality(sets) |-> [level |-> order[i], size |-> sizes[order[i]],
                                               start |-> last + 1, sequence |-> next]]
  BY DEF BookPart!Deltas
<1> HIDE DEF new, next
<1>7. \A i \in 1..Cardinality(sets) :
        /\ new[i] \in DeltaRecords /\ new[i].level = order[i] /\ new[i].size = sizes[order[i]]
        /\ new[i].start = last + 1 /\ new[i].sequence = next
  BY <1>4, <1>6 DEF DeltaRecords
<1>8. new \in Seq(DeltaRecords) /\ DOMAIN new = 1..Cardinality(sets)
  <2>1. new \in [1..Cardinality(sets) -> DeltaRecords]
    BY <1>6, <1>7
  <2> QED BY <1>5, <2>1, SeqDef
<1>9. /\ DOMAIN truth' = DOMAIN truth \cup {next} /\ truth'[next] = sizes
      /\ \A n \in DOMAIN truth : truth'[n] = truth[n]
      /\ next \notin DOMAIN truth
  BY <1>1, <1>2, <1>4 DEF next, TruthOK
<1>10. TruthOK(truth') /\ \E m \in DOMAIN truth' : \A n \in DOMAIN truth' : n <= m
  <2>1. TruthOK(truth')
    BY <1>4, <1>9 DEF TruthOK
  <2>2. \A n \in DOMAIN truth' : n <= next
    BY <1>1, <1>4, <1>9 DEF TruthOK
  <2> QED BY <1>9, <2>1, <2>2
<1>11. \A n \in DOMAIN truth, m \in DOMAIN truth' \ DOMAIN truth : n < m
  BY <1>1, <1>4, <1>9 DEF TruthOK
<1> DEFINE u == truth'
<1> HIDE DEF u
<1>12. /\ \A d \in DeltaRecords : WellFormed(truth, d) => WellFormed(u, d)
       /\ \A d \in DeltaRecords : \A D : WellFormed(truth, d) /\ Complete(truth, d, D)
                                          => Complete(u, d, D)
       /\ \A b, D : Good(truth, b, D) => Good(u, b, D)
  <2>1. /\ TruthOK(u) /\ DOMAIN truth \subseteq DOMAIN u /\ \A n \in DOMAIN truth : u[n] = truth[n]
        /\ \A n \in DOMAIN truth, m \in DOMAIN u \ DOMAIN truth : n < m
    BY <1>9, <1>10, <1>11 DEF u
  <2> QED BY <1>4, <2>1, TruthGrows
<1>13. ASSUME NEW d \in Values(new)
       PROVE  WellFormed(u, d) /\ Complete(u, d, Values(new))
  <2>1. PICK i \in 1..Cardinality(sets) : d = new[i]
    BY <1>8 DEF Values
  <2>2. /\ d.sequence = next /\ d.start = last + 1 /\ d.size = sizes[order[i]] /\ d.level = order[i]
        /\ d.start - 1 = last
    BY <1>4, <1>7, <2>1
  <2>3. WellFormed(u, d)
    <3>1. \A n \in DOMAIN u : n = next \/ n <= last
      BY <1>1, <1>9 DEF u
    <3>2. DOMAIN u \subseteq Nat /\ last + 1 <= next
      BY <1>4, <1>10 DEF u, TruthOK
    <3> QED BY <1>1, <1>4, <1>9, <2>2, <3>1, <3>2 DEF WellFormed, u
  <2>4. Complete(u, d, Values(new))
    <3> SUFFICES ASSUME NEW l \in Levels, u[next][l] # u[last][l]
                 PROVE  \E e \in Values(new) : e.sequence = next /\ e.level = l
      BY <2>2 DEF Complete
    <3>1. l \in sets
      BY <1>1, <1>2, <1>9 DEF u
    <3>2. PICK j \in 1..Cardinality(sets) : order[j] = l
      BY <1>3, <3>1
    <3>3. new[j] \in Values(new) /\ new[j].sequence = next /\ new[j].level = l
      BY <1>7, <1>8, <3>2 DEF Values
    <3> QED BY <3>3
  <2> QED BY <2>3, <2>4
<1>14. InOrder(new)
  BY <1>4, <1>7, <1>8 DEF InOrder
<1>15. \A d \in DeltaRecords :
         WellFormed(truth, d) => \A e \in Values(new) : d.sequence <= e.sequence
  <2> SUFFICES ASSUME NEW d \in DeltaRecords, WellFormed(truth, d), NEW i \in 1..Cardinality(sets)
               PROVE  d.sequence <= new[i].sequence
    BY <1>8 DEF Values
  <2>1. d.sequence \in Nat /\ d.sequence <= last
    BY <1>1 DEF WellFormed, DeltaRecords
  <2> QED BY <1>4, <1>7, <2>1
<1>16. /\ sent \in Seq(Seq(DeltaRecords)) /\ DOMAIN sent = 1..Len(sent) /\ Len(sent) \in Nat
       /\ sent' \in Seq(Seq(DeltaRecords)) /\ DOMAIN sent' = 1..(Len(sent) + 1)
       /\ \A k \in DOMAIN sent : sent'[k] = sent[k] /\ Values(sent[k]) \subseteq DeltaRecords
       /\ sent'[Len(sent) + 1] = new
  <2>1. sent \in Seq(Seq(DeltaRecords))
    BY DEF BookInv, OnTheWay
  <2>2. /\ DOMAIN sent = 1..Len(sent) /\ Len(sent) \in Nat
        /\ Append(sent, new) \in Seq(Seq(DeltaRecords))
        /\ DOMAIN Append(sent, new) = 1..(Len(sent) + 1)
        /\ \A k \in DOMAIN sent : Append(sent, new)[k] = sent[k]
        /\ Append(sent, new)[Len(sent) + 1] = new
    BY <1>8, <2>1, AddedAtEnd
  <2>3. sent' = Append(sent, new)
    BY <1>3 DEF new, next
  <2>4. \A k \in DOMAIN sent : sent[k] \in Seq(DeltaRecords)
    BY <2>1, <2>2, ElementOfSeq
  <2>5. \A k \in DOMAIN sent : Values(sent[k]) \subseteq DeltaRecords
    BY <2>4, ElementOfSeq, LenProperties DEF Values
  <2> QED BY <2>1, <2>2, <2>3, <2>5
<1>17. \A k \in 1..(Len(sent) + 1) : k \in DOMAIN sent \/ k = Len(sent) + 1
  BY <1>16
<1>18. OnTheWay(u, sent')
  <2>1. OnTheWay(truth, sent)
    BY DEF BookInv
  <2>2. \A k \in DOMAIN sent : \A d \in Values(sent[k]) : d \in DeltaRecords /\ WellFormed(truth, d)
    BY <1>16, <2>1 DEF OnTheWay
  <2>3. \A k \in DOMAIN sent' : InOrder(sent'[k])
    BY <1>14, <1>16, <1>17, <2>1 DEF OnTheWay
  <2>4. ASSUME NEW k \in DOMAIN sent', NEW d \in Values(sent'[k])
        PROVE  WellFormed(u, d) /\ Complete(u, d, Values(sent'[k]))
    <3>1. CASE k = Len(sent) + 1
      BY <1>13, <1>16, <2>4, <3>1
    <3>2. CASE k \in DOMAIN sent
      <4>1. sent'[k] = sent[k] /\ d \in Values(sent[k]) /\ d \in DeltaRecords
        BY <1>16, <2>4, <3>2
      <4>2. WellFormed(truth, d) /\ Complete(truth, d, Values(sent[k]))
        BY <2>1, <3>2, <4>1 DEF OnTheWay
      <4> QED BY <1>12, <4>1, <4>2
    <3> QED BY <1>16, <1>17, <3>1, <3>2
  <2>5. ASSUME NEW j \in DOMAIN sent', NEW k \in DOMAIN sent', j < k,
               NEW d \in Values(sent'[j]), NEW e \in Values(sent'[k])
        PROVE  d.sequence <= e.sequence
    <3>1. j \in DOMAIN sent /\ sent'[j] = sent[j]
      BY <1>16, <1>17, <2>5
    <3>2. CASE k = Len(sent) + 1
      BY <1>15, <1>16, <2>2, <2>5, <3>1, <3>2
    <3>3. CASE k \in DOMAIN sent
      BY <1>16, <2>1, <2>5, <3>1, <3>3 DEF OnTheWay
    <3> QED BY <1>16, <1>17, <3>2, <3>3
  <2> QED BY <1>16, <2>3, <2>4, <2>5 DEF OnTheWay
<1>19. Ahead(Values(book.buffer) \cup Values(rest), sent')
  <2>1. \A d \in Values(book.buffer) \cup Values(rest) : d \in DeltaRecords /\ WellFormed(truth, d)
    BY ElementOfSeq, LenProperties DEF Values, BookInv, Good, BuilderShape
  <2> SUFFICES ASSUME NEW k \in DOMAIN sent', NEW d \in Values(book.buffer) \cup Values(rest),
                      NEW e \in Values(sent'[k])
               PROVE  d.sequence <= e.sequence
    BY DEF Ahead
  <2>2. CASE k = Len(sent) + 1
    BY <1>15, <1>16, <2>1, <2>2
  <2>3. CASE k \in DOMAIN sent
    BY <1>16, <2>3 DEF BookInv, Ahead
  <2> QED BY <1>16, <1>17, <2>2, <2>3
<1>20. Good(u, book, Values(rest))
  BY <1>12 DEF BookInv
<1>21. fetched \subseteq DOMAIN truth'
  BY <1>9 DEF BookInv
<1>22. UNCHANGED <<fetched, rest, book>>
  BY <1>2
<1> QED BY <1>10, <1>18, <1>19, <1>20, <1>21, <1>22 DEF BookInv, u

\* The first of the updates on their way is lost or taken.
LEMMA FirstIsGone ==
  ASSUME NEW t, NEW s, OnTheWay(t, s), s # <<>>
  PROVE  /\ OnTheWay(t, Tail(s)) /\ 1 \in DOMAIN s /\ Head(s) = s[1]
         /\ Head(s) \in Seq(DeltaRecords)
         /\ Ahead(Values(Head(s)), Tail(s))
         /\ \A D : Ahead(D, s) => Ahead(D, Tail(s))
<1> DEFINE r == Tail(s)
<1>1. s \in Seq(Seq(DeltaRecords))
  BY DEF OnTheWay
<1>2. /\ Head(s) = s[1] /\ Head(s) \in Seq(DeltaRecords) /\ r \in Seq(Seq(DeltaRecords))
      /\ DOMAIN r = 1..(Len(s) - 1) /\ DOMAIN s = 1..Len(s) /\ Len(s) \in Nat \ {0}
      /\ \A i \in DOMAIN r : r[i] = s[i + 1]
  BY <1>1, ReadFromHead
<1> HIDE DEF r
<1>3. \A i \in DOMAIN r : i + 1 \in DOMAIN s /\ 1 < i + 1
  BY <1>2
<1>4. 1 \in DOMAIN s
  BY <1>2
<1>5. \A i, j \in DOMAIN r : i < j => i + 1 < j + 1
  BY <1>2
<1>6. OnTheWay(t, r)
  BY <1>2, <1>3, <1>5 DEF OnTheWay
<1>7. Ahead(Values(Head(s)), r)
  BY <1>2, <1>3, <1>4 DEF OnTheWay, Ahead
<1>8. \A D : Ahead(D, s) => Ahead(D, r)
  BY <1>2, <1>3 DEF Ahead
<1> QED BY <1>2, <1>4, <1>6, <1>7, <1>8 DEF r

LEMMA LosesKeep == ASSUME BookInv, BookPart!Loses PROVE BookInv'
<1>1. sent # <<>> /\ sent' = Tail(sent) /\ UNCHANGED <<truth, fetched, rest, book>>
  BY DEF BookPart!Loses
<1>2. OnTheWay(truth, sent) /\ Ahead(Values(book.buffer) \cup Values(rest), sent)
  BY DEF BookInv
<1>3. /\ OnTheWay(truth, Tail(sent))
      /\ Ahead(Values(book.buffer) \cup Values(rest), Tail(sent))
  BY <1>1, <1>2, FirstIsGone
<1> QED BY <1>1, <1>3 DEF BookInv

\* What an update holds may be given to any builder that is owed nothing.
LEMMA TakesKeep == ASSUME BookInv, BookPart!Takes PROVE BookInv'
<1>1. /\ rest = <<>> /\ sent # <<>> /\ rest' = Head(sent) /\ sent' = Tail(sent)
      /\ UNCHANGED <<truth, fetched, book>>
  BY DEF BookPart!Takes
<1>2. /\ OnTheWay(truth, sent) /\ Ahead(Values(book.buffer), sent) /\ Values(rest) = {}
      /\ Good(truth, book, {})
  BY <1>1, NothingInOrder DEF BookInv
<1>3. /\ OnTheWay(truth, Tail(sent)) /\ 1 \in DOMAIN sent /\ Head(sent) = sent[1]
      /\ Head(sent) \in Seq(DeltaRecords) /\ Ahead(Values(Head(sent)), Tail(sent))
      /\ Ahead(Values(book.buffer), Tail(sent))
  BY <1>1, <1>2, FirstIsGone
<1> DEFINE D == Values(Head(sent))
<1>4. InOrder(Head(sent)) /\ \A d \in D : WellFormed(truth, d) /\ Complete(truth, d, D)
  BY <1>2, <1>3 DEF OnTheWay
<1>5. \A d \in Values(book.buffer), e \in D : d.sequence <= e.sequence
  BY <1>2, <1>3 DEF Ahead
<1>6. D \subseteq DeltaRecords
  BY <1>3, ElementOfSeq, LenProperties DEF Values
<1>7. Ahead(Values(book.buffer) \cup D, Tail(sent))
  BY <1>3 DEF Ahead
<1> HIDE DEF D
<1>8. Good(truth, book, D)
  <2>1. \A d \in Values(book.buffer) : WellFormed(truth, d)
    BY <1>2 DEF Good
  <2>2. ASSUME NEW d \in Values(book.buffer) \cup D, d.sequence > Floor(book)
        PROVE  Complete(truth, d, Values(book.buffer) \cup D)
    <3>1. Complete(truth, d, Values(book.buffer) \cup {}) \/ Complete(truth, d, D)
      BY <1>2, <1>4, <2>2 DEF Good
    <3> QED BY <3>1 DEF Complete
  <2>3. book.synced => SyncedIsTrue(truth, book, D)
    BY <1>2 DEF Good, SyncedIsTrue, Owed
  <2>4. BuilderShape(book) /\ InOrder(book.buffer)
    BY <1>2 DEF Good
  <2> QED BY <1>4, <1>5, <1>6, <2>1, <2>2, <2>3, <2>4 DEF Good
<1> QED BY <1>1, <1>3, <1>4, <1>7, <1>8 DEF BookInv, D

LEMMA FeedsKeep ==
  ASSUME MaxBuffered \in Nat \ {0}, BookInv, BookPart!Feeds
  PROVE  BookInv'
<1> DEFINE next == BookPart!ApplyDelta(book, Head(rest))
<1>1. /\ rest # <<>> /\ book' = next /\ rest' = Tail(rest)
      /\ UNCHANGED <<truth, sent, fetched>>
  BY DEF BookPart!Feeds
<1>2. /\ rest \in Seq(DeltaRecords) /\ InOrder(rest) /\ TruthOK(truth) /\ book \in Builders
      /\ Good(truth, book, Values(rest))
      /\ Ahead(Values(book.buffer) \cup Values(rest), sent)
  BY DEF BookInv
<1>3. /\ Head(rest) \in DeltaRecords /\ Head(rest) \in Values(rest)
      /\ Tail(rest) \in Seq(DeltaRecords)
      /\ Values(Tail(rest)) \subseteq Values(rest)
      /\ Values(rest) \ {Head(rest)} \subseteq Values(Tail(rest))
  BY <1>1, <1>2, ReadFromHead
<1>4. InOrder(Tail(rest)) /\ \A d \in Values(rest) : Head(rest).sequence <= d.sequence
  BY <1>1, <1>2, LaterInOrder, DeltaNumbers
<1>5. Good(truth, next, Values(Tail(rest)))
  BY <1>2, <1>3, <1>4, ApplyKeeps
<1>6. next \in Builders /\ Values(next.buffer) \subseteq Values(book.buffer) \cup {Head(rest)}
  BY <1>2, <1>3, ApplyIsBuilder
<1> HIDE DEF next
<1>7. Ahead(Values(next.buffer) \cup Values(Tail(rest)), sent)
  BY <1>2, <1>3, <1>6 DEF Ahead
<1> QED BY <1>1, <1>3, <1>4, <1>5, <1>6, <1>7 DEF BookInv

LEMMA FetchesKeep == ASSUME BookInv, BookPart!Fetches PROVE BookInv'
<1>1. BookPart!Newest \in DOMAIN truth
  BY DEF BookInv, BookPart!Newest
<1>2. fetched' = fetched \cup {BookPart!Newest} /\ UNCHANGED <<truth, sent, rest, book>>
  BY DEF BookPart!Fetches
<1> QED BY <1>1, <1>2 DEF BookInv

LEMMA ArrivesKeep ==
  ASSUME MaxBuffered \in Nat \ {0}, BookInv, BookPart!Arrives
  PROVE  BookInv'
<1>1. PICK n \in fetched : /\ fetched' = fetched \ {n}
                           /\ book' = BookPart!ApplySnapshot(book, n, truth[n])
  BY DEF BookPart!Arrives
<1>2. UNCHANGED <<truth, sent, rest>>
  BY DEF BookPart!Arrives
<1>3. /\ TruthOK(truth) /\ book \in Builders /\ Good(truth, book, Values(rest))
      /\ n \in DOMAIN truth /\ Ahead(Values(book.buffer) \cup Values(rest), sent)
  BY DEF BookInv
<1> DEFINE next == BookPart!ApplySnapshot(book, n, truth[n])
<1>4. /\ next \in Builders /\ Good(truth, next, Values(rest))
      /\ Values(next.buffer) \subseteq Values(book.buffer)
  BY <1>3, SnapshotKeeps
<1>5. book' = next
  BY <1>1
<1> HIDE DEF next
<1>6. Ahead(Values(next.buffer) \cup Values(rest), sent)
  BY <1>3, <1>4 DEF Ahead
<1> QED BY <1>1, <1>2, <1>4, <1>5, <1>6 DEF BookInv

\* For any levels, numbers and buffer, whatever updates the feed loses and however late and
\* out of order the snapshots come, a book that calls itself synced is the venue's at the
\* number it states (apply_delta, apply_snapshot, _buffer_delta).
THEOREM SyncedBookIsTrue ==
  ASSUME MaxBuffered \in Nat \ {0}, IsFiniteSet(Levels)
  PROVE  BookPart!Spec => []BookIsTrue
<1>1. BookInv => BookIsTrue
  <2> SUFFICES ASSUME BookInv, book.synced, \A i \in DOMAIN rest : rest[i].sequence # book.last
               PROVE  book.last \in DOMAIN truth /\ book.levels = truth[book.last]
    BY DEF BookIsTrue, BookPart!BookIsTrue
  <2>1. SyncedIsTrue(truth, book, Values(rest)) /\ book.levels \in [Levels -> {0, 1}]
        /\ TruthOK(truth)
    BY DEF BookInv, Good, Builders
  <2>2. \A l \in Levels : ~Owed(book, Values(rest), l)
    BY DEF Owed, Values
  <2>3. book.last \in DOMAIN truth /\ \A l \in Levels : book.levels[l] = truth[book.last][l]
    BY <2>1, <2>2 DEF SyncedIsTrue
  <2>4. truth[book.last] \in [Levels -> {0, 1}]
    BY <2>1, <2>3 DEF TruthOK
  <2> QED BY <2>1, <2>3, <2>4
<1>2. BookPart!Init => BookInv
  BY BookInit
<1>3. BookInv /\ [BookPart!Next]_(BookPart!bookVars) => BookInv'
  <2>1. ASSUME BookInv, UNCHANGED BookPart!bookVars PROVE BookInv'
    BY <2>1 DEF BookInv, BookPart!bookVars
  <2> QED BY <2>1, UpdatesKeep, LosesKeep, TakesKeep, FeedsKeep, FetchesKeep, ArrivesKeep
          DEF BookPart!Next
<1> QED BY <1>1, <1>2, <1>3, PTL DEF BookPart!Spec

-------------------------------------------------------------------------------
(***************************************************************************)
(* BarStore.  A read of the past stands because every version written      *)
(* later is known later: an open write is stamped after the as_of, and one *)
(* that begins now is stamped with a clock that has passed it.  That a     *)
(* complete backfill has its bars is carried from window to window, since  *)
(* what is stored stays stored.                                            *)
(***************************************************************************)

\* Of each bar with a version, one version is the newest, whatever its number.
TableOK(table) ==
  /\ \A r \in table : r.known \in Int
  /\ \A bar : BarPart!Versions(table, bar) # {} =>
       \E r \in BarPart!Versions(table, bar) :
         \A other \in BarPart!Versions(table, bar) : other.known <= r.known

\* A past was read, and no write that had begun by then was yet to commit.
Alone == asOf.at # 0 /\ ~asOf.beside
\* The record of a past read, and the writes that may still commit, begun after it.
PastInv ==
  /\ asOf.at \in Int /\ clock \in Int
  /\ asOf.at # 0 => asOf.at < clock
  /\ Alone => \A bar \in BarPart!Sessions : BarPart!Read(bar, asOf.at) = asOf.gave[bar]
  /\ \A p \in BarPart!Processes :
       txn[p].pc = "open" => /\ txn[p].stamp \in Int
                             /\ Alone => asOf.at < txn[p].stamp

Fills ==
  [pc : {"window", "writing", "judging", "marking", "reported"},
   from : BarPart!Windows, window : BarPart!Windows, calendar : BOOLEAN,
   answer : SUBSET BarPart!Sessions, open : SUBSET BarPart!Windows]

\* While no window is left open, the windows a backfill has passed have their bars.
PassedInv ==
  fill.pc # "idle" =>
    /\ fill \in Fills
    /\ fill.from = 2 \/ fill.pc = "reported" => fill.window = 2
    /\ fill.calendar /\ fill.open = {} /\ fill.from = 1 /\ fill.window = 2
         => 1 \in BarPart!Stored
    /\ fill.calendar /\ fill.open = {} /\ fill.pc = "reported" => BarPart!Missing = {}
    /\ fill.calendar /\ fill.pc = "marking" => BarPart!Missing = {}

BarInv == /\ TableOK(rows)
          /\ txn = [p \in BarPart!Processes |-> txn[p]]
          /\ PastInv
          /\ PassedInv

\* A version that is inserted is newer than every one of its bar, and known no earlier
\* than the write that brings it (write).
LEMMA InsertAdds ==
  ASSUME NEW table, TableOK(table), NEW bar, NEW content, NEW stamp \in Int
  PROVE  \/ BarPart!Insert(table, bar, content, stamp) = table
         \/ \E r : /\ BarPart!Insert(table, bar, content, stamp) = table \cup {r}
                   /\ r.bar = bar /\ r.known \in Int /\ r.known >= stamp
                   /\ \A other \in BarPart!Versions(table, bar) : other.known < r.known
<1> DEFINE versions == BarPart!Versions(table, bar)
           latest == BarPart!Newest(versions)
           known == IF versions = {} THEN stamp ELSE BarPart!Max({stamp, latest.known + 1})
           row == [bar |-> bar, known |-> known, content |-> content]
<1>1. \/ BarPart!Insert(table, bar, content, stamp) = table
      \/ BarPart!Insert(table, bar, content, stamp) = table \cup {row}
  BY DEF BarPart!Insert
<1>2. versions # {} => /\ latest \in versions
                       /\ \A other \in versions : other.known <= latest.known
  BY DEF TableOK, BarPart!Newest
<1>3. \A r \in versions : r.known \in Int
  BY DEF TableOK, BarPart!Versions
<1>4. \A a, b \in Int : LET m == BarPart!Max({a, b}) IN m \in {a, b} /\ m >= a /\ m >= b
  <2> TAKE a, b \in Int
  <2>1. \E m \in {a, b} : \A x \in {a, b} : m >= x
    OBVIOUS
  <2> QED BY <2>1 DEF BarPart!Max
<1> HIDE DEF latest, versions
<1>5. known \in Int /\ known >= stamp /\ \A other \in versions : other.known < known
  <2>1. CASE versions = {}
    BY <2>1
  <2>2. CASE versions # {}
    <3>1. latest.known + 1 \in Int
      BY <1>2, <1>3, <2>2
    <3>2. known \in {stamp, latest.known + 1} /\ known >= stamp /\ known >= latest.known + 1
      BY <1>4, <2>2, <3>1
    <3>3. known \in Int
      BY <3>1, <3>2
    <3> HIDE DEF known
    <3> QED BY <1>2, <1>3, <2>2, <3>1, <3>2, <3>3
  <2> QED BY <2>1, <2>2
<1> HIDE DEF known
<1>6. row.bar = bar /\ row.known = known
  OBVIOUS
<1> HIDE DEF row
<1> QED BY <1>1, <1>5, <1>6 DEF versions

\* A write as a whole keeps what was there, and adds what is known no earlier than it.
LEMMA CommitAdds ==
  ASSUME NEW table, TableOK(table), NEW bars, NEW stamp \in Int
  PROVE  LET next == table \cup
                       UNION {BarPart!Insert(table, b, bars[b], stamp) : b \in DOMAIN bars}
         IN  /\ TableOK(next) /\ table \subseteq next
             /\ \A r \in next \ table : r.known \in Int /\ r.known >= stamp
<1> DEFINE Put(b) == BarPart!Insert(table, b, bars[b], stamp)
           next == table \cup UNION {Put(b) : b \in DOMAIN bars}
           Newer(r) == /\ r.known \in Int /\ r.known >= stamp
                       /\ \A other \in BarPart!Versions(table, r.bar) : other.known < r.known
<1>1. \A b \in DOMAIN bars :
        Put(b) = table \/ \E r : Put(b) = table \cup {r} /\ r.bar = b /\ Newer(r)
  BY InsertAdds
<1> HIDE DEF Put, Newer
<1>2. \A r \in next \ table :
        r.bar \in DOMAIN bars /\ Put(r.bar) = table \cup {r} /\ Newer(r)
  <2> TAKE r \in next \ table
  <2>1. PICK b \in DOMAIN bars : r \in Put(b)
    OBVIOUS
  <2>2. PICK q : Put(b) = table \cup {q} /\ q.bar = b /\ Newer(q)
    BY <1>1, <2>1
  <2>3. r = q
    BY <2>1, <2>2
  <2> QED BY <2>2, <2>3
<1>3. \A r, q \in next \ table : r.bar = q.bar => r = q
  BY <1>2
<1>4. \A r \in next : r.known \in Int
  BY <1>2 DEF TableOK, Newer
<1>5. ASSUME NEW bar, BarPart!Versions(next, bar) # {}
      PROVE  \E r \in BarPart!Versions(next, bar) :
               \A other \in BarPart!Versions(next, bar) : other.known <= r.known
  <2> HIDE DEF next
  <2>1. CASE \E r \in next \ table : r.bar = bar
    <3>1. PICK r \in next \ table : r.bar = bar
      BY <2>1
    <3>2. r \in BarPart!Versions(next, bar) /\ Newer(r) /\ r.known \in Int
      BY <1>2, <1>4, <3>1 DEF BarPart!Versions
    <3>3. ASSUME NEW other \in BarPart!Versions(next, bar) PROVE other.known <= r.known
      <4>1. other \in next /\ other.bar = bar /\ other.known \in Int
        BY <1>4 DEF BarPart!Versions
      <4>2. other = r \/ other \in BarPart!Versions(table, bar)
        BY <1>3, <3>1, <4>1 DEF BarPart!Versions
      <4> QED BY <3>1, <3>2, <4>1, <4>2 DEF Newer
    <3> QED BY <3>2, <3>3
  <2>2. CASE ~\E r \in next \ table : r.bar = bar
    <3>1. BarPart!Versions(next, bar) = BarPart!Versions(table, bar)
      <4>1. table \subseteq next
        BY DEF next
      <4> QED BY <2>2, <4>1 DEF BarPart!Versions
    <3> QED BY <1>5, <3>1 DEF TableOK
  <2> QED BY <2>1, <2>2
<1>6. TableOK(next)
  BY <1>4, <1>5 DEF TableOK
<1>7. \A r \in next \ table : r.known \in Int /\ r.known >= stamp
  BY <1>2 DEF Newer
<1> QED BY <1>6, <1>7 DEF Put

\* A step that writes nothing to the file keeps what was read of it.
LEMMA SameRows ==
  ASSUME UNCHANGED rows
  PROVE  /\ \A bar, cutoff : BarPart!Read(bar, cutoff)' = BarPart!Read(bar, cutoff)
         /\ BarPart!Stored' = BarPart!Stored
BY DEF BarPart!Read, BarPart!Stored
\* Writes that begin, or that commit, leave what was read of the past as it was.
LEMMA PastKept ==
  ASSUME TableOK(rows), PastInv,
         txn = [p \in BarPart!Processes |-> txn[p]],
         [BarPart!Next]_(BarPart!barVars)
  PROVE  /\ TableOK(rows)' /\ PastInv'
         /\ (txn = [p \in BarPart!Processes |-> txn[p]])'
         /\ rows \subseteq rows'
<1> DEFINE Idle == [pc |-> "idle"]
           Whole == txn' = [p \in BarPart!Processes |-> txn'[p]]
<1>1. ASSUME rows' = rows, asOf' = asOf, clock' \in Int, clock' >= clock, Whole,
             \A p \in BarPart!Processes :
               txn'[p].pc = "open" => txn'[p] = txn[p] \/ txn'[p].stamp = clock
      PROVE  /\ TableOK(rows)' /\ PastInv' /\ Whole /\ rows \subseteq rows'
  <2>1. TableOK(rows)'
    BY <1>1 DEF TableOK
  <2>2. \A bar, t : BarPart!Read(bar, t)' = BarPart!Read(bar, t)
    BY <1>1, SameRows
  <2>3. PastInv'
    BY <1>1, <2>2 DEF PastInv, Alone
  <2> QED BY <1>1, <2>1, <2>3
<1>2. ASSUME NEW p \in BarPart!Processes, BarPart!Commits(p), asOf' = asOf, clock' = clock
      PROVE  TableOK(rows)' /\ PastInv' /\ Whole /\ rows \subseteq rows'
  <2> DEFINE bars == txn[p].bars
             stamp == txn[p].stamp
  <2>1. /\ txn[p].pc = "open"
        /\ rows' = rows \cup UNION {BarPart!Insert(rows, b, bars[b], stamp) : b \in DOMAIN bars}
        /\ txn' = [txn EXCEPT ![p] = Idle]
    BY <1>2 DEF BarPart!Commits, BarPart!NoTxn
  <2>2. stamp \in Int /\ (Alone => asOf.at < stamp)
    BY <2>1 DEF PastInv
  <2> HIDE DEF bars, stamp
  <2>3. /\ TableOK(rows)' /\ rows \subseteq rows'
        /\ \A r \in rows' \ rows : r.known \in Int /\ r.known >= stamp
    <3>1. LET next == rows \cup
                      UNION {BarPart!Insert(rows, b, bars[b], stamp) : b \in DOMAIN bars}
          IN  /\ TableOK(next) /\ rows \subseteq next
              /\ \A r \in next \ rows : r.known \in Int /\ r.known >= stamp
      BY <2>2, CommitAdds
    <3> QED BY <2>1, <3>1 DEF TableOK
  <2>4. ASSUME Alone, NEW bar
        PROVE  BarPart!Read(bar, asOf.at)' = BarPart!Read(bar, asOf.at)
    <3>1. \A r \in rows' : r \notin rows => ~(r.known <= asOf.at)
      BY <2>2, <2>3, <2>4 DEF PastInv
    <3>2. {r \in BarPart!Versions(rows', bar) : r.known <= asOf.at}
            = {r \in BarPart!Versions(rows, bar) : r.known <= asOf.at}
      BY <2>3, <3>1 DEF BarPart!Versions
    <3> QED BY <1>2, <3>2 DEF BarPart!Read
  <2>5. Whole /\ \A q \in BarPart!Processes : txn'[q].pc = "open" => txn'[q] = txn[q]
    BY <2>1
  <2>6. PastInv'
    BY <1>2, <2>4, <2>5 DEF PastInv, Alone
  <2> QED BY <2>3, <2>5, <2>6
<1>3. ASSUME NEW p \in BarPart!Processes, BarPart!Begins(p)
      PROVE  TableOK(rows)' /\ PastInv' /\ Whole /\ rows \subseteq rows'
  <2>1. /\ rows' = rows /\ asOf' = asOf /\ clock' = clock
        /\ txn' = [txn EXCEPT ![p] = [pc |-> "open", bars |-> txn[p].bars, stamp |-> clock]]
    BY <1>3 DEF BarPart!Begins, BarPart!Stamp
  <2>2. Whole /\ \A q \in BarPart!Processes : txn'[q] = txn[q] \/ txn'[q].stamp = clock
    BY <2>1
  <2> QED BY <1>1, <2>1, <2>2 DEF PastInv
<1>4. ASSUME NEW p \in BarPart!Processes, NEW bars, BarPart!Asks(p, bars),
             rows' = rows, asOf' = asOf, clock' = clock
      PROVE  TableOK(rows)' /\ PastInv' /\ Whole /\ rows \subseteq rows'
  <2>1. txn' = [txn EXCEPT ![p] = [pc |-> "asking", asked |-> clock, bars |-> bars]]
    BY <1>4 DEF BarPart!Asks
  <2>2. Whole /\ \A q \in BarPart!Processes : txn'[q].pc = "open" => txn'[q] = txn[q]
    BY <2>1
  <2> QED BY <1>1, <1>4, <2>2 DEF PastInv
<1>5. ASSUME rows' = rows, asOf' = asOf, clock' = clock,
             txn' = txn \/ txn' = [txn EXCEPT !["backfill"] = Idle]
      PROVE  TableOK(rows)' /\ PastInv' /\ Whole /\ rows \subseteq rows'
  <2>1. Whole /\ \A q \in BarPart!Processes : txn'[q].pc = "open" => txn'[q] = txn[q]
    BY <1>5
  <2> QED BY <1>1, <1>5, <2>1 DEF PastInv
<1>6. ASSUME BarPart!ReadsPast
      PROVE  TableOK(rows)' /\ PastInv' /\ Whole /\ rows \subseteq rows'
  <2>1. PICK cutoff \in 1 .. clock - 1 :
          asOf' = [at |-> cutoff,
                   gave |-> [bar \in BarPart!Sessions |-> BarPart!Read(bar, cutoff)],
                   beside |-> BarPart!OpenSince(cutoff)]
    BY <1>6 DEF BarPart!ReadsPast
  <2>2. rows' = rows /\ txn' = txn /\ clock' = clock
    BY <1>6 DEF BarPart!ReadsPast
  <2>3. \A bar, t : BarPart!Read(bar, t)' = BarPart!Read(bar, t)
    BY <2>2, SameRows
  <2>4. /\ asOf'.at = cutoff
        /\ \A bar \in BarPart!Sessions : asOf'.gave[bar] = BarPart!Read(bar, cutoff)
        /\ Alone' => ~BarPart!OpenSince(cutoff)
    BY <2>1 DEF Alone
  <2>5. cutoff \in Int /\ cutoff < clock
    BY DEF PastInv
  <2>6. PastInv'
    <3>1. ASSUME Alone', NEW p \in BarPart!Processes, txn[p].pc = "open"
          PROVE  cutoff < txn[p].stamp
      BY <2>4, <2>5, <3>1 DEF PastInv, BarPart!OpenSince
    <3> QED BY <2>2, <2>3, <2>4, <2>5, <3>1 DEF PastInv
  <2>7. TableOK(rows)'
    BY <2>2 DEF TableOK
  <2> QED BY <2>2, <2>6, <2>7
<1>7. "other" \in BarPart!Processes /\ "backfill" \in BarPart!Processes
  BY DEF BarPart!Processes
<1>8. CASE BarPart!OtherAsks
  <2>1. \E bars : BarPart!Asks("other", bars)
    BY <1>8 DEF BarPart!OtherAsks
  <2>2. rows' = rows /\ asOf' = asOf /\ clock' = clock
    BY <1>8 DEF BarPart!OtherAsks
  <2> QED BY <1>4, <1>7, <2>1, <2>2
<1>9. CASE BarPart!OtherCommits
  BY <1>2, <1>7, <1>9 DEF BarPart!OtherCommits
<1>10. CASE BarPart!Tick
  <2>1. rows' = rows /\ asOf' = asOf /\ txn' = txn /\ clock' = clock + 1
    BY <1>10 DEF BarPart!Tick
  <2> QED BY <1>1, <2>1 DEF PastInv
<1>11. CASE BarPart!FillFetches
  <2>1. \E bars : BarPart!Asks("backfill", bars)
    BY <1>11 DEF BarPart!FillFetches
  <2>2. rows' = rows /\ asOf' = asOf /\ clock' = clock
    BY <1>11 DEF BarPart!FillFetches
  <2> QED BY <1>4, <1>7, <2>1, <2>2
<1>12. CASE BarPart!FillWrites
  BY <1>2, <1>7, <1>12 DEF BarPart!FillWrites
<1>13. CASE \/ BarPart!FillStarts \/ BarPart!FillSkips \/ BarPart!FillJudges
            \/ BarPart!FillMarks
  <2>1. rows' = rows /\ asOf' = asOf /\ txn' = txn /\ clock' = clock
    BY <1>13 DEF BarPart!FillStarts, BarPart!FillSkips, BarPart!FillJudges, BarPart!FillMarks
  <2> QED BY <1>5, <2>1
<1>14. CASE BarPart!FillFails \/ BarPart!FillEnds
  <2>1. /\ rows' = rows /\ asOf' = asOf /\ clock' = clock
        /\ txn' = [txn EXCEPT !["backfill"] = Idle]
    BY <1>14 DEF BarPart!FillFails, BarPart!FillEnds, BarPart!NoTxn
  <2> QED BY <1>5, <2>1
<1>15. CASE UNCHANGED BarPart!barVars
  BY <1>5, <1>15 DEF BarPart!barVars
<1> QED
  BY <1>3, <1>6, <1>8, <1>9, <1>10, <1>11, <1>12, <1>13, <1>14, <1>15 DEF BarPart!Next
\* A backfill passes a window that it found whole, recorded as whole, or left open.
LEMMA PassedKept ==
  ASSUME PassedInv, rows \subseteq rows', [BarPart!Next]_(BarPart!barVars)
  PROVE  PassedInv'
<1> USE DEF BarPart!Windows
<1>1. BarPart!Stored \subseteq BarPart!Stored'
  BY DEF BarPart!Stored
<1>2. ASSUME fill' = fill PROVE PassedInv'
  BY <1>1, <1>2 DEF PassedInv, BarPart!Missing, BarPart!Due
<1>3. ASSUME fill' = BarPart!NoFill PROVE PassedInv'
  BY <1>3 DEF PassedInv, BarPart!NoFill
<1>4. ASSUME fill.pc # "idle", NEW open \in SUBSET BarPart!Windows, fill.open \subseteq open,
             BarPart!Continue(open),
             fill.calendar /\ open = {} => BarPart!Missing = {}
      PROVE  PassedInv'
  <2>1. /\ fill \in Fills
        /\ fill.from = 2 => fill.window = 2
        /\ fill.calendar /\ open = {} /\ fill.from = 1 /\ fill.window = 2
             => 1 \in BarPart!Stored
    BY <1>4 DEF PassedInv
  <2>2. CASE fill.window = 2
    <3>1. fill' = [fill EXCEPT !.pc = "reported", !.open = open]
      BY <1>4, <2>2 DEF BarPart!Continue
    <3>2. /\ fill' \in Fills
          /\ fill'.pc = "reported" /\ fill'.open = open /\ fill'.window = 2
          /\ fill'.from = fill.from /\ fill'.calendar = fill.calendar
      BY <1>4, <2>1, <2>2, <3>1 DEF Fills
    <3>3. fill.calendar /\ open = {} => BarPart!Missing' = {}
      BY <1>1, <1>4, <2>2, <3>2 DEF BarPart!Missing, BarPart!Due
    <3> QED BY <1>1, <2>1, <2>2, <3>2, <3>3 DEF PassedInv
  <2>3. CASE fill.window = 1
    <3>1. fill' = [fill EXCEPT !.window = 2, !.open = open, !.pc = "window"]
      BY <1>4, <2>3 DEF BarPart!Continue
    <3>2. /\ fill'.pc = "window" /\ fill'.open = open /\ fill'.window = 2
          /\ fill'.from = fill.from /\ fill'.calendar = fill.calendar
          /\ fill'.answer = fill.answer
          /\ fill' = [pc |-> "window", from |-> fill.from, window |-> 2,
                      calendar |-> fill.calendar, answer |-> fill.answer, open |-> open]
      BY <2>1, <3>1 DEF Fills
    <3>3. fill' \in Fills
      BY <1>4, <2>1, <3>2 DEF Fills
    <3>4. fill.calendar /\ open = {} => 1 \in BarPart!Stored
      BY <1>4, <2>1, <2>3 DEF BarPart!Missing, BarPart!Due, BarPart!Closes
    <3> QED BY <1>1, <3>2, <3>3, <3>4 DEF PassedInv
  <2> QED BY <2>1, <2>2, <2>3 DEF Fills
<1>5. ASSUME fill.pc \notin {"idle", "reported"}, NEW pc \in {"writing", "judging"},
             NEW given \in SUBSET BarPart!Sessions,
             fill' = [fill EXCEPT !.pc = pc, !.answer = given]
      PROVE  PassedInv'
  <2>1. fill \in Fills
    BY <1>5 DEF PassedInv
  <2>2. /\ fill' \in Fills /\ fill'.pc = pc
        /\ fill'.open = fill.open /\ fill'.window = fill.window
        /\ fill'.from = fill.from /\ fill'.calendar = fill.calendar
    BY <1>5, <2>1 DEF Fills
  <2> QED BY <1>1, <1>5, <2>2 DEF PassedInv
<1>6. fill.pc # "idle" => /\ fill \in Fills /\ fill.open \in SUBSET BarPart!Windows
                          /\ fill.open \cup {fill.window} \in SUBSET BarPart!Windows
  BY DEF PassedInv, Fills
<1>7. CASE BarPart!FillStarts
  <2>1. PICK from \in BarPart!Windows, calendar \in BOOLEAN :
          fill' = [pc |-> "window", from |-> from, window |-> from, calendar |-> calendar,
                   answer |-> {}, open |-> {}]
    BY <1>7 DEF BarPart!FillStarts
  <2> QED BY <2>1 DEF PassedInv, Fills
<1>8. CASE BarPart!FillSkips
  BY <1>4, <1>6, <1>8 DEF BarPart!FillSkips, BarPart!Skips
<1>9. CASE BarPart!FillFetches
  <2>1. PICK bars \in SUBSET BarPart!Holds[fill.window] :
          fill' = [fill EXCEPT !.pc = "writing", !.answer = bars]
    BY <1>9 DEF BarPart!FillFetches
  <2>2. fill.pc = "window"
    BY <1>9 DEF BarPart!FillFetches
  <2>3. bars \in SUBSET BarPart!Sessions
    BY <1>6, <2>2 DEF Fills, BarPart!Holds, BarPart!Sessions
  <2> QED BY <1>5, <2>1, <2>2, <2>3
<1>10. CASE BarPart!FillFails
  <2>1. fill.pc # "idle" /\ BarPart!Continue(fill.open \cup {fill.window})
    BY <1>10 DEF BarPart!FillFails
  <2> QED BY <1>4, <1>6, <2>1
<1>11. CASE BarPart!FillWrites
  <2>1. fill.pc = "writing" /\ fill' = [fill EXCEPT !.pc = "judging"]
    BY <1>11 DEF BarPart!FillWrites
  <2>2. /\ fill' = [fill EXCEPT !.pc = "judging", !.answer = fill.answer]
        /\ fill.answer \in SUBSET BarPart!Sessions
    BY <1>6, <2>1 DEF Fills
  <2> QED BY <1>5, <2>1, <2>2
<1>12. CASE BarPart!FillJudges
  <2>1. fill.pc = "judging"
    BY <1>12 DEF BarPart!FillJudges
  <2>2. CASE BarPart!Continue(fill.open \cup {fill.window})
    BY <1>4, <1>6, <2>1, <2>2
  <2>3. CASE /\ ~(fill.calendar /\ BarPart!Missing # {})
             /\ fill' = [fill EXCEPT !.pc = "marking"]
    <3>1. /\ fill' \in Fills /\ fill'.pc = "marking"
          /\ fill'.open = fill.open /\ fill'.window = fill.window
          /\ fill'.from = fill.from /\ fill'.calendar = fill.calendar
      BY <1>6, <2>1, <2>3 DEF Fills
    <3>2. fill'.calendar => BarPart!Missing' = {}
      BY <1>1, <2>3, <3>1 DEF BarPart!Missing, BarPart!Due
    <3> QED BY <1>1, <2>1, <3>1, <3>2 DEF PassedInv
  <2> QED BY <1>12, <2>2, <2>3 DEF BarPart!FillJudges
<1>13. CASE BarPart!FillMarks
  <2>1. fill.pc = "marking" /\ BarPart!Continue(fill.open)
    BY <1>13 DEF BarPart!FillMarks
  <2>2. fill.calendar => BarPart!Missing = {}
    BY <2>1 DEF PassedInv
  <2> QED BY <1>4, <1>6, <2>1, <2>2
<1>14. CASE BarPart!FillEnds
  BY <1>3, <1>14 DEF BarPart!FillEnds
<1>15. CASE \/ BarPart!OtherAsks \/ BarPart!OtherCommits \/ BarPart!ReadsPast
            \/ BarPart!Tick \/ UNCHANGED BarPart!barVars
            \/ \E p \in BarPart!Processes : BarPart!Begins(p)
  BY <1>2, <1>15 DEF BarPart!OtherAsks, BarPart!OtherCommits, BarPart!ReadsPast,
     BarPart!Tick, BarPart!barVars, BarPart!Begins
<1> QED
  BY <1>7, <1>8, <1>9, <1>10, <1>11, <1>12, <1>13, <1>14, <1>15 DEF BarPart!Next

\* For any number of writes and backfills, in whatever order they get the lock, fail or die:
\* a read of the past that no write still open had begun by gives the same ever after, and a
\* backfill that calls itself complete, with a calendar, has the bar of every session that
\* lay wholly inside the request (BarStore.write, BarStore.read, backfill).
THEOREM StoreStaysHonest == BarPart!Spec => []StoreIsHonest
<1>1. BarInv => StoreIsHonest
  <2> SUFFICES ASSUME BarInv PROVE StoreIsHonest
    OBVIOUS
  <2>1. BarPart!PastStands
    BY DEF BarInv, PastInv, Alone, BarPart!PastStands, BarPart!PastAsRead
  <2>2. BarPart!CompleteMeansStored
    <3> SUFFICES ASSUME fill.pc = "reported", fill.calendar, fill.open = {}
                 PROVE  BarPart!Sessions \ (IF fill.from = 2 THEN {1, 2} ELSE {})
                          \subseteq BarPart!Stored
      BY DEF BarPart!CompleteMeansStored
    <3>1. /\ fill.from \in {1, 2} /\ fill.window = 2 /\ BarPart!Missing = {}
          /\ fill.from = 1 => 1 \in BarPart!Stored
      BY DEF BarInv, PassedInv, Fills, BarPart!Windows
    <3>2. 3 \in BarPart!Stored /\ (fill.from = 1 => 2 \in BarPart!Stored)
      BY <3>1 DEF BarPart!Missing, BarPart!Due, BarPart!Closes
    <3> QED BY <3>1, <3>2 DEF BarPart!Sessions
  <2> QED BY <2>1, <2>2 DEF StoreIsHonest, BarPart!StoreIsHonest
<1>2. BarPart!Init => BarInv
  BY DEF BarPart!Init, BarInv, TableOK, BarPart!Versions, PastInv, Alone, PassedInv,
         BarPart!NoFill, BarPart!NoTxn
<1>3. BarInv /\ [BarPart!Next]_(BarPart!barVars) => BarInv'
  BY PastKept, PassedKept DEF BarInv
<1> QED BY <1>1, <1>2, <1>3, PTL DEF BarPart!Spec

-------------------------------------------------------------------------------
(***************************************************************************)
(* RateLimits.  The budget rests on what a bucket still has: since any     *)
(* request that went out, the weight that went out together with the       *)
(* tokens that are left is no more than what the bucket holds and what has *)
(* come in (Charged).  Tokens that are taken and not used, by a request    *)
(* that a hold refuses or a caller that is cancelled, only help.           *)
(***************************************************************************)

\* Every caller asks for an amount, and every bucket holds one.
LimitsAreAmounts ==
  /\ Weight \in [LimitPart!Callers -> Nat]
  /\ Capacity \in [LimitPart!Buckets -> Nat]
  /\ Senders \cap Handshakes = {}

Entries == [bucket : LimitPart!Buckets, weight : Nat, at : Int, held : Int,
            out : [LimitPart!Buckets -> Int]]

TotalOf(log, k) == IF log = <<>> THEN 0 ELSE log[Len(log)].out[k]

Charged(log, tokens, last) ==
  \A i \in DOMAIN log :
    log[i].bucket = "weight"
      => log[i].weight + TotalOf(log, "weight") - log[i].out["weight"] + tokens
           <= Capacity["weight"] + last - log[i].at

Within(log) ==
  \A j \in DOMAIN log : \A i \in 1 .. j :
    log[i].bucket = "weight" /\ log[j].bucket = "weight"
      => log[i].weight + log[j].out["weight"] - log[i].out["weight"]
           <= Capacity["weight"] + log[j].at - log[i].at

InTime(log) == \A i \in DOMAIN log : log[i].held <= log[i].at

BucketShape(b) == "tokens" \in DOMAIN b /\ "last" \in DOMAIN b

LimitInv ==
  /\ now \in Int /\ hold.until \in Int
  /\ buckets = [k \in LimitPart!Buckets |-> buckets[k]]
  /\ \A k \in LimitPart!Buckets : BucketShape(buckets[k])
  /\ buckets["weight"].tokens \in Int /\ buckets["weight"].last \in Int
  /\ buckets["weight"].tokens <= Capacity["weight"]
  /\ tasks = [c \in LimitPart!Callers |-> tasks[c]]
  /\ \A c \in LimitPart!Callers : tasks[c].pc = "held" => c \in Handshakes
  /\ limitSent \in Seq(Entries)
  /\ Charged(limitSent, buckets["weight"].tokens, buckets["weight"].last)
  /\ Within(limitSent) /\ InTime(limitSent)

\* An entry's own numbers.
LEMMA EntryNumbers ==
  ASSUME NEW e \in Entries
  PROVE  e.weight \in Int /\ e.out["weight"] \in Int /\ e.at \in Int
<1>1. e.weight \in Int /\ e.out \in [LimitPart!Buckets -> Int] /\ e.at \in Int
  BY DEF Entries
<1>2. "weight" \in LimitPart!Buckets
  BY DEF LimitPart!Buckets
<1> QED BY <1>1, <1>2

\* The log after one more entry: what was in it, and the entry at its end.
LEMMA OneMore ==
  ASSUME NEW log \in Seq(Entries), NEW e \in Entries
  PROVE  /\ Append(log, e) \in Seq(Entries) /\ Append(log, e) # <<>>
         /\ Len(log) \in Nat /\ Len(Append(log, e)) = Len(log) + 1
         /\ DOMAIN log = 1 .. Len(log) /\ DOMAIN Append(log, e) = 1 .. Len(log) + 1
         /\ \A i \in 1 .. Len(log) : Append(log, e)[i] = log[i] /\ log[i] \in Entries
         /\ Append(log, e)[Len(log) + 1] = e
<1>1. /\ Append(log, e) \in Seq(Entries) /\ Len(Append(log, e)) = Len(log) + 1
      /\ \A i \in 1 .. Len(log) : Append(log, e)[i] = log[i]
      /\ Append(log, e)[Len(log) + 1] = e
  BY AppendProperties
<1>2. Len(log) \in Nat /\ DOMAIN log = 1 .. Len(log)
  BY LenProperties
<1>3. \A i \in 1 .. Len(log) : log[i] \in Entries
  BY ElementOfSeq, <1>2
<1>4. DOMAIN Append(log, e) = 1 .. Len(log) + 1
  BY <1>1, LenProperties
<1> QED BY <1>1, <1>2, <1>3, <1>4, EmptySeq

\* What has gone out is a number.
LEMMA TotalIsNumber ==
  ASSUME NEW log \in Seq(Entries), NEW k \in LimitPart!Buckets
  PROVE  TotalOf(log, k) \in Int
<1>1. CASE log = <<>>
  BY <1>1 DEF TotalOf
<1>2. CASE log # <<>>
  <2>1. log[Len(log)] \in Entries
    BY <1>2, ElementOfSeq, LenProperties, EmptySeq
  <2> QED BY <1>2, <2>1 DEF TotalOf, Entries
<1> QED BY <1>1, <1>2

\* A bucket that is refilled has no more than what it had and what came in since.
LEMMA ChargedStays ==
  ASSUME LimitsAreAmounts, NEW log \in Seq(Entries), NEW t \in Int, NEW l \in Int,
         NEW t2 \in Int, NEW l2 \in Int, Charged(log, t, l), t2 <= t + l2 - l
  PROVE  Charged(log, t2, l2)
<1>1. TotalOf(log, "weight") \in Int /\ Capacity["weight"] \in Int
  BY TotalIsNumber DEF LimitsAreAmounts, LimitPart!Buckets
<1>2. \A i \in DOMAIN log : /\ log[i].weight \in Int /\ log[i].out["weight"] \in Int
                            /\ log[i].at \in Int
  <2>1. \A i \in DOMAIN log : log[i] \in Entries
    BY ElementOfSeq, LenProperties
  <2> QED BY <2>1, EntryNumbers
<1> SUFFICES ASSUME NEW i \in DOMAIN log, log[i].bucket = "weight"
             PROVE  log[i].weight + TotalOf(log, "weight") - log[i].out["weight"] + t2
                      <= Capacity["weight"] + l2 - log[i].at
  BY DEF Charged
<1>3. log[i].weight + TotalOf(log, "weight") - log[i].out["weight"] + t
        <= Capacity["weight"] + l - log[i].at
  BY DEF Charged
<1> QED BY <1>1, <1>2, <1>3, LaterSum

\* A request that goes out with its tokens taken keeps the budget of every stretch.
LEMMA RequestGoesOut ==
  ASSUME LimitsAreAmounts, NEW log \in Seq(Entries), NEW t \in Int, NEW e \in Entries,
         Charged(log, t, e.at), Within(log), e.bucket = "weight",
         e.weight <= t, t <= Capacity["weight"],
         e.out["weight"] = TotalOf(log, "weight") + e.weight
  PROVE  Charged(Append(log, e), t - e.weight, e.at) /\ Within(Append(log, e))
<1> DEFINE next == Append(log, e)
           n == Len(log)
<1>1. /\ next # <<>> /\ n \in Nat /\ Len(next) = n + 1
      /\ DOMAIN log = 1 .. n /\ DOMAIN next = 1 .. n + 1
      /\ \A i \in 1 .. n : next[i] = log[i] /\ log[i] \in Entries
      /\ next[n + 1] = e
  BY OneMore
<1> HIDE DEF next, n
<1>2. /\ TotalOf(log, "weight") \in Int /\ Capacity["weight"] \in Int
      /\ e.weight \in Int /\ e.at \in Int
  BY TotalIsNumber DEF LimitsAreAmounts, LimitPart!Buckets, Entries
<1>3. \A i \in 1 .. n : /\ log[i].weight \in Int /\ log[i].out["weight"] \in Int
                        /\ log[i].at \in Int
  BY <1>1, EntryNumbers
<1>4. TotalOf(next, "weight") = TotalOf(log, "weight") + e.weight
  BY <1>1 DEF TotalOf
<1>5. Charged(next, t - e.weight, e.at)
  <2> SUFFICES ASSUME NEW i \in 1 .. n + 1, next[i].bucket = "weight"
               PROVE  next[i].weight + TotalOf(next, "weight") - next[i].out["weight"]
                        + (t - e.weight) <= Capacity["weight"] + e.at - next[i].at
    BY <1>1 DEF Charged
  <2>1. CASE i = n + 1
    BY <1>1, <1>2, <1>4, <2>1
  <2>2. CASE i \in 1 .. n
    <3>1. log[i].weight + TotalOf(log, "weight") - log[i].out["weight"] + t
            <= Capacity["weight"] + e.at - log[i].at
      BY <1>1, <2>2 DEF Charged
    <3>2. log[i].weight + (TotalOf(log, "weight") + e.weight) - log[i].out["weight"]
            + (t - e.weight) <= Capacity["weight"] + e.at - log[i].at
      <4>1. /\ log[i].weight \in Int /\ log[i].out["weight"] \in Int /\ log[i].at \in Int
        BY <1>3, <2>2
      <4> DEFINE a == log[i].weight
                 b == TotalOf(log, "weight")
                 c == log[i].out["weight"]
                 d == Capacity["weight"]
                 w == e.weight
      <4>2. a \in Int /\ b \in Int /\ c \in Int /\ d \in Int /\ w \in Int
        BY <1>2, <4>1
      <4> HIDE DEF a, b, c, d, w
      <4>3. a + b - c + t <= d + e.at - log[i].at
        BY <3>1 DEF a, b, c, d
      <4>4. a + (b + w) - c + (t - w) <= d + e.at - log[i].at
        BY <1>2, <4>1, <4>2, <4>3
      <4> QED BY <4>4 DEF a, b, c, d, w
    <3> QED BY <1>1, <1>4, <2>2, <3>2
  <2> QED BY <1>1, <2>1, <2>2
<1>6. Within(next)
  <2> SUFFICES ASSUME NEW j \in 1 .. n + 1, NEW i \in 1 .. j,
                      next[i].bucket = "weight", next[j].bucket = "weight"
               PROVE  next[i].weight + next[j].out["weight"] - next[i].out["weight"]
                        <= Capacity["weight"] + next[j].at - next[i].at
    BY <1>1 DEF Within
  <2>1. CASE j \in 1 .. n
    <3>1. i \in 1 .. n /\ next[i] = log[i] /\ next[j] = log[j]
      BY <1>1, <2>1
    <3> QED BY <1>1, <2>1, <3>1 DEF Within
  <2>2. CASE j = n + 1 /\ i = n + 1
    BY <1>1, <1>2, <2>2
  <2>3. CASE j = n + 1 /\ i \in 1 .. n
    <3>1. log[i].weight + TotalOf(log, "weight") - log[i].out["weight"] + t
            <= Capacity["weight"] + e.at - log[i].at
      BY <1>1, <2>3 DEF Charged
    <3>2. log[i].weight + (TotalOf(log, "weight") + e.weight) - log[i].out["weight"]
            <= Capacity["weight"] + e.at - log[i].at
      BY <1>2, <1>3, <2>3, <3>1, LaterSum
    <3> QED BY <1>1, <2>3, <3>2
  <2>4. \/ j \in 1 .. n
        \/ j = n + 1 /\ i = n + 1
        \/ j = n + 1 /\ i \in 1 .. n
    BY <1>1
  <2> QED BY <2>1, <2>2, <2>3, <2>4
<1> QED BY <1>5, <1>6 DEF next

\* A handshake that goes out is no matter of this budget.
LEMMA HandshakeGoesOut ==
  ASSUME NEW log \in Seq(Entries), NEW t, NEW l, NEW e \in Entries,
         Charged(log, t, l), Within(log), e.bucket # "weight",
         e.out["weight"] = TotalOf(log, "weight")
  PROVE  Charged(Append(log, e), t, l) /\ Within(Append(log, e))
<1> DEFINE next == Append(log, e)
           n == Len(log)
<1>1. /\ next # <<>> /\ n \in Nat /\ Len(next) = n + 1
      /\ DOMAIN log = 1 .. n /\ DOMAIN next = 1 .. n + 1
      /\ \A i \in 1 .. n : next[i] = log[i]
      /\ next[n + 1] = e
  BY OneMore
<1> HIDE DEF next, n
<1>2. TotalOf(next, "weight") = TotalOf(log, "weight")
  BY <1>1 DEF TotalOf
<1>3. \A i \in 1 .. n + 1 : next[i].bucket = "weight" => i \in 1 .. n /\ next[i] = log[i]
  BY <1>1
<1>4. Charged(next, t, l)
  BY <1>1, <1>2, <1>3 DEF Charged
<1>5. Within(next)
  BY <1>1, <1>3 DEF Within
<1> QED BY <1>4, <1>5 DEF next
TasksOK == /\ tasks = [c \in LimitPart!Callers |-> tasks[c]]
           /\ \A c \in LimitPart!Callers : tasks[c].pc = "held" => c \in Handshakes

LogOK(log, tokens, last) ==
  log \in Seq(Entries) /\ Charged(log, tokens, last) /\ Within(log) /\ InTime(log)

\* One of two numbers is the smallest, and one the largest.
LEMMA MinOfTwo ==
  ASSUME NEW a \in Int, NEW b \in Int
  PROVE  /\ LimitPart!Min({a, b}) \in {a, b} /\ LimitPart!Min({a, b}) <= a
         /\ LimitPart!Min({a, b}) <= b
         /\ LimitPart!Max({a, b}) \in Int
<1>1. (\E m \in {a, b} : \A x \in {a, b} : m <= x) /\ (\E m \in {a, b} : \A x \in {a, b} : m >= x)
  OBVIOUS
<1> QED BY <1>1 DEF LimitPart!Min, LimitPart!Max

\* What a caller does next is on record for it, and for it alone.
LEMMA TaskSet ==
  ASSUME TasksOK, NEW c \in LimitPart!Callers, NEW pc, NEW due,
         pc = "held" => c \in Handshakes,
         tasks' = [tasks EXCEPT ![c] = [pc |-> pc, due |-> due]]
  PROVE  TasksOK'
BY DEF TasksOK

LEMMA RestsKeep ==
  ASSUME TasksOK, NEW c \in LimitPart!Callers, LimitPart!Rests(c)
  PROVE  TasksOK'
<1>1. tasks' = [tasks EXCEPT ![c] = [pc |-> "idle", due |-> 0]]
  BY DEF LimitPart!Rests, LimitPart!Idle
<1> QED BY <1>1 DEF TasksOK

LEMMA SleepsKeep ==
  ASSUME TasksOK, NEW c \in LimitPart!Callers, NEW pc, NEW due,
         LimitPart!SleepsUntil(c, pc, due), pc = "held" => c \in Handshakes
  PROVE  TasksOK'
<1>1. tasks' = [tasks EXCEPT ![c] = [pc |-> pc, due |-> due]]
  BY DEF LimitPart!SleepsUntil
<1> QED BY <1>1, TaskSet

\* What goes out, outside a hold, is entered with what had gone out before it.
LEMMA GoesOut ==
  ASSUME LimitsAreAmounts, now \in Int, hold.until \in Int, hold.until <= now,
         NEW t \in Int, NEW l, LogOK(limitSent, t, l), TasksOK,
         NEW c \in LimitPart!Callers, LimitPart!Sends(c),
         c \in Senders => l = now /\ Weight[c] <= t /\ t <= Capacity["weight"]
  PROVE  TasksOK' /\ LogOK(limitSent', IF c \in Senders THEN t - Weight[c] ELSE t, l)
<1> DEFINE e == [bucket |-> LimitPart!BucketOf(c), weight |-> Weight[c], at |-> now,
                 held |-> hold.until,
                 out |-> [k \in LimitPart!Buckets |->
                            LimitPart!GoneOut(k)
                              + IF k = LimitPart!BucketOf(c) THEN Weight[c] ELSE 0]]
<1>1. limitSent' = Append(limitSent, e) /\ TasksOK'
  BY RestsKeep DEF LimitPart!Sends
<1>2. limitSent \in Seq(Entries)
  BY DEF LogOK
<1>3. \A k \in LimitPart!Buckets : /\ LimitPart!GoneOut(k) = TotalOf(limitSent, k)
                                   /\ TotalOf(limitSent, k) \in Int
  BY <1>2, TotalIsNumber DEF LimitPart!GoneOut, TotalOf
<1>4. Weight[c] \in Nat
  BY DEF LimitsAreAmounts
<1>5. /\ LimitPart!BucketOf(c) \in LimitPart!Buckets /\ "weight" \in LimitPart!Buckets
      /\ LimitPart!BucketOf(c) = "weight" <=> c \in Senders
  BY DEF LimitPart!BucketOf, LimitPart!Buckets
<1>6. e \in Entries
  <2>1. e.out \in [LimitPart!Buckets -> Int]
    BY <1>3, <1>4
  <2> QED BY <1>4, <1>5, <2>1 DEF Entries
<1>7. e.out["weight"] = TotalOf(limitSent, "weight") + IF c \in Senders THEN Weight[c] ELSE 0
  BY <1>3, <1>5
<1>8. /\ e.bucket = LimitPart!BucketOf(c) /\ e.weight = Weight[c] /\ e.at = now
      /\ e.held = hold.until
  OBVIOUS
<1> HIDE DEF e
<1>9. Append(limitSent, e) \in Seq(Entries) /\ InTime(Append(limitSent, e))
  <2>1. /\ Append(limitSent, e) \in Seq(Entries)
        /\ Len(limitSent) \in Nat
        /\ DOMAIN limitSent = 1 .. Len(limitSent)
        /\ DOMAIN Append(limitSent, e) = 1 .. Len(limitSent) + 1
        /\ \A i \in 1 .. Len(limitSent) : Append(limitSent, e)[i] = limitSent[i]
        /\ Append(limitSent, e)[Len(limitSent) + 1] = e
    BY <1>2, <1>6, OneMore
  <2>2. \A i \in 1 .. Len(limitSent) + 1 : i \in 1 .. Len(limitSent) \/ i = Len(limitSent) + 1
    BY <2>1
  <2> QED BY <1>8, <2>1, <2>2 DEF InTime, LogOK
<1>10. Charged(limitSent, t, l) /\ Within(limitSent)
  BY DEF LogOK
<1>11. CASE c \in Senders
  <2>1. e.bucket = "weight" /\ e.at = l /\ e.weight <= t /\ t <= Capacity["weight"]
    BY <1>5, <1>8, <1>11
  <2>2. e.out["weight"] = TotalOf(limitSent, "weight") + e.weight
    BY <1>7, <1>8, <1>11
  <2>3. Charged(Append(limitSent, e), t - e.weight, e.at) /\ Within(Append(limitSent, e))
    BY <1>2, <1>6, <1>10, <2>1, <2>2, RequestGoesOut
  <2> QED BY <1>1, <1>8, <1>9, <1>11, <2>1, <2>3 DEF LogOK
<1>12. CASE c \notin Senders
  <2>1. e.bucket # "weight" /\ e.out["weight"] = TotalOf(limitSent, "weight")
    BY <1>2, <1>3, <1>5, <1>7, <1>8, <1>12
  <2>2. Charged(Append(limitSent, e), t, l) /\ Within(Append(limitSent, e))
    BY <1>2, <1>6, <1>10, <2>1, HandshakeGoesOut
  <2> QED BY <1>1, <1>9, <1>12, <2>2 DEF LogOK
<1> QED BY <1>11, <1>12

\* A handshake waits until the hold is over.
LEMMA WaitsKeep ==
  ASSUME LimitsAreAmounts, now \in Int, hold.until \in Int,
         NEW t \in Int, NEW l, LogOK(limitSent, t, l), TasksOK,
         NEW c \in LimitPart!Callers, c \in Handshakes, LimitPart!WaitsOutHold(c)
  PROVE  TasksOK' /\ LogOK(limitSent', t, l)
<1>1. c \notin Senders
  BY DEF LimitsAreAmounts
<1>2. CASE hold.until > now
  BY <1>2, RestsKeep, SleepsKeep DEF LimitPart!WaitsOutHold
<1>3. CASE ~(hold.until > now)
  BY <1>1, <1>3, GoesOut DEF LimitPart!WaitsOutHold
<1> QED BY <1>2, <1>3

\* The holder of the lock takes its tokens, or sleeps for those that are missing.
LEMMA TriesKeep ==
  ASSUME LimitsAreAmounts, LimitInv, NEW c \in LimitPart!Callers, NEW b, BucketShape(b),
         b.tokens = buckets[LimitPart!BucketOf(c)].tokens,
         b.last = buckets[LimitPart!BucketOf(c)].last,
         LimitPart!Tries(c, b), UNCHANGED <<now, hold>>
  PROVE  LimitInv'
<1> DEFINE k == LimitPart!BucketOf(c)
           r == LimitPart!Refilled(b, k)
           held == buckets["weight"]
           taken == [r EXCEPT !.tokens = r.tokens - Weight[c], !.queue = Tail(r.queue)]
<1>1. /\ k \in LimitPart!Buckets /\ "weight" \in LimitPart!Buckets
      /\ k = "weight" <=> c \in Senders
      /\ c \in Senders \/ c \in Handshakes
  BY DEF LimitPart!BucketOf, LimitPart!Buckets, LimitPart!Callers
<1> DEFINE least == LimitPart!Min({Capacity[k], b.tokens + (now - b.last)})
<1>2. r.tokens = least /\ BucketShape(r) /\ r.last = now
  <2>1. r = [b EXCEPT !.tokens = least, !.last = now]
    BY DEF LimitPart!Refilled
  <2> HIDE DEF r, least
  <2> QED BY <2>1 DEF BucketShape
<1>4. /\ now \in Int /\ hold.until \in Int /\ TasksOK
      /\ held.tokens \in Int /\ held.last \in Int /\ held.tokens <= Capacity["weight"]
      /\ LogOK(limitSent, held.tokens, held.last)
      /\ buckets = [x \in LimitPart!Buckets |-> buckets[x]]
      /\ \A x \in LimitPart!Buckets : BucketShape(buckets[x])
  BY DEF LimitInv, TasksOK, LogOK
<1>5. Weight[c] \in Nat /\ Capacity["weight"] \in Nat
  BY <1>1 DEF LimitsAreAmounts
<1>6. k = "weight" => /\ r.tokens \in Int /\ r.tokens <= Capacity["weight"]
                      /\ LogOK(limitSent, r.tokens, now)
  <2> SUFFICES ASSUME k = "weight"
               PROVE  /\ r.tokens \in Int /\ r.tokens <= Capacity["weight"]
                      /\ LogOK(limitSent, r.tokens, now)
    OBVIOUS
  <2>1. b.tokens = held.tokens /\ b.last = held.last
    OBVIOUS
  <2> HIDE DEF r, held
  <2>2. /\ r.tokens \in Int /\ r.tokens <= Capacity["weight"]
        /\ r.tokens <= held.tokens + (now - held.last)
    <3> DEFINE had == held.tokens + (now - held.last)
    <3>1. r.tokens = LimitPart!Min({Capacity["weight"], had})
      BY <1>2, <2>1
    <3>2. had \in Int
      BY <1>4
    <3> HIDE DEF had
    <3>3. /\ LimitPart!Min({Capacity["weight"], had}) \in {Capacity["weight"], had}
          /\ LimitPart!Min({Capacity["weight"], had}) <= Capacity["weight"]
          /\ LimitPart!Min({Capacity["weight"], had}) <= had
      <4>1. Capacity["weight"] \in Int
        BY <1>5
      <4> HIDE DEF k
      <4> QED BY <3>2, <4>1, MinOfTwo
    <3> QED BY <1>5, <3>1, <3>2, <3>3 DEF had
  <2>3. r.tokens <= held.tokens + now - held.last
    BY <1>4, <2>2
  <2>4. Charged(limitSent, r.tokens, now)
    BY <1>4, <2>2, <2>3, ChargedStays DEF LogOK
  <2> QED BY <1>4, <2>2, <2>4 DEF LogOK
<1>7. \/ /\ r.tokens >= Weight[c]
         /\ buckets' = [buckets EXCEPT ![k] = taken]
         /\ LimitPart!Granted(c)
      \/ /\ buckets' = [buckets EXCEPT ![k] = r]
         /\ LimitPart!SleepsUntil(c, "sleeping", now + Weight[c] - r.tokens)
         /\ limitSent' = limitSent
  BY DEF LimitPart!Tries
<1>8. BucketShape(taken) /\ taken.tokens = r.tokens - Weight[c] /\ taken.last = now
  <2> DEFINE left == r.tokens - Weight[c]
             behind == Tail(r.queue)
  <2>1. taken = [r EXCEPT !.tokens = left, !.queue = behind]
    OBVIOUS
  <2> HIDE DEF r, taken, left, behind
  <2>2. BucketShape(taken) /\ taken.tokens = left /\ taken.last = now
    BY <1>2, <2>1 DEF BucketShape
  <2> QED BY <2>2 DEF left
<1> HIDE DEF k, r, taken, held
<1>9. ASSUME NEW t, NEW l, TasksOK', LogOK(limitSent', t, l),
             NEW n, buckets' = [buckets EXCEPT ![k] = n], BucketShape(n),
             IF k = "weight" THEN n.tokens = t /\ n.last = l
                             ELSE t = held.tokens /\ l = held.last,
             t \in Int, l \in Int, t <= Capacity["weight"]
      PROVE  LimitInv'
  <2>1. /\ buckets' = [x \in LimitPart!Buckets |-> buckets'[x]]
        /\ \A x \in LimitPart!Buckets : BucketShape(buckets'[x])
    BY <1>1, <1>4, <1>9
  <2>2. buckets'["weight"].tokens = t /\ buckets'["weight"].last = l
    BY <1>1, <1>4, <1>9 DEF held
  <2>3. (now \in Int /\ hold.until \in Int)'
    BY DEF LimitInv
  <2> QED BY <1>9, <2>1, <2>2, <2>3 DEF LimitInv, TasksOK, LogOK
<1>10. CASE /\ buckets' = [buckets EXCEPT ![k] = r]
            /\ LimitPart!SleepsUntil(c, "sleeping", now + Weight[c] - r.tokens)
            /\ limitSent' = limitSent
  <2>1. TasksOK'
    BY <1>4, <1>10, SleepsKeep
  <2>2. CASE k = "weight"
    BY <1>2, <1>4, <1>6, <1>9, <1>10, <2>1, <2>2
  <2>3. CASE k # "weight"
    BY <1>2, <1>4, <1>9, <1>10, <2>1, <2>3
  <2> QED BY <2>2, <2>3
<1>11. CASE /\ r.tokens >= Weight[c]
            /\ buckets' = [buckets EXCEPT ![k] = taken]
            /\ LimitPart!Granted(c)
  <2>1. CASE c \in Senders
    <3>1. c \notin Handshakes /\ k = "weight"
      BY <1>1, <2>1 DEF LimitsAreAmounts
    <3>2. r.tokens - Weight[c] \in Int /\ r.tokens - Weight[c] <= Capacity["weight"]
          /\ r.tokens - Weight[c] <= r.tokens /\ Weight[c] <= r.tokens
      BY <1>5, <1>6, <1>11, <3>1
    <3>3. TasksOK' /\ LogOK(limitSent', r.tokens - Weight[c], now)
      <4>1. CASE LimitPart!HeldByNow
        <5>1. LimitPart!Rests(c) /\ limitSent' = limitSent
          BY <1>11, <3>1, <4>1 DEF LimitPart!Granted
        <5>2. LogOK(limitSent, r.tokens, now) /\ r.tokens \in Int
          BY <1>6, <3>1
        <5>3. r.tokens - Weight[c] <= r.tokens + now - now
          BY <1>4, <1>5, <5>2
        <5>4. Charged(limitSent, r.tokens - Weight[c], now)
          BY <1>4, <3>2, <5>2, <5>3, ChargedStays DEF LogOK
        <5> QED BY <1>4, <5>1, <5>2, <5>4, RestsKeep DEF LogOK
      <4>2. CASE ~LimitPart!HeldByNow
        <5>1. LimitPart!Sends(c) /\ hold.until <= now
          BY <1>4, <1>11, <3>1, <4>2 DEF LimitPart!Granted, LimitPart!HeldByNow
        <5> QED BY <1>4, <1>6, <2>1, <3>1, <3>2, <5>1, GoesOut
      <4> QED BY <4>1, <4>2
    <3> QED BY <1>4, <1>8, <1>9, <1>11, <3>1, <3>2, <3>3
  <2>2. CASE c \notin Senders
    <3>1. c \in Handshakes /\ k # "weight" /\ LimitPart!WaitsOutHold(c)
      BY <1>1, <1>11, <2>2 DEF LimitPart!Granted
    <3>2. TasksOK' /\ LogOK(limitSent', held.tokens, held.last)
      BY <1>4, <3>1, WaitsKeep
    <3> QED BY <1>4, <1>8, <1>9, <1>11, <3>1, <3>2
  <2> QED BY <2>1, <2>2
<1> QED BY <1>7, <1>10, <1>11
\* Every step keeps the budget and the hold.
LEMMA LimitsKept ==
  ASSUME LimitsAreAmounts, LimitInv, [LimitPart!Next]_(LimitPart!limitVars)
  PROVE  LimitInv'
<1>1. ASSUME buckets' = buckets, tasks' = tasks, limitSent' = limitSent,
             now' \in Int, hold'.until \in Int
      PROVE  LimitInv'
  BY <1>1 DEF LimitInv
<1>2. ASSUME NEW c \in LimitPart!Callers, LimitPart!Acquires(c) PROVE LimitInv'
  <2> DEFINE k == LimitPart!BucketOf(c)
             queue == Append(buckets[k].queue, c)
             queued == [buckets[k] EXCEPT !.queue = queue]
  <2>1. k \in LimitPart!Buckets
    BY DEF LimitPart!BucketOf, LimitPart!Buckets
  <2>2. BucketShape(buckets[k])
    BY <2>1 DEF LimitInv
  <2> HIDE DEF queue
  <2>3. /\ BucketShape(queued)
        /\ queued.tokens = buckets[k].tokens /\ queued.last = buckets[k].last
    BY <2>2 DEF BucketShape
  <2>4. UNCHANGED <<now, hold>>
    BY <1>2 DEF LimitPart!Acquires
  <2>5. \/ LimitPart!Tries(c, queued)
        \/ /\ buckets' = [buckets EXCEPT ![k] = queued]
           /\ tasks' = [tasks EXCEPT ![c] = [pc |-> "locking", due |-> 0]]
           /\ limitSent' = limitSent
    BY <1>2 DEF LimitPart!Acquires, queue
  <2> HIDE DEF queued
  <2>6. CASE LimitPart!Tries(c, queued)
    BY <2>3, <2>4, <2>6, TriesKeep
  <2>7. CASE /\ buckets' = [buckets EXCEPT ![k] = queued]
             /\ tasks' = [tasks EXCEPT ![c] = [pc |-> "locking", due |-> 0]]
             /\ limitSent' = limitSent
    <3>1. TasksOK'
      BY <2>7 DEF LimitInv, TasksOK
    <3>2. /\ buckets' = [x \in LimitPart!Buckets |-> buckets'[x]]
          /\ \A x \in LimitPart!Buckets :
               /\ BucketShape(buckets'[x])
               /\ buckets'[x].tokens = buckets[x].tokens /\ buckets'[x].last = buckets[x].last
      BY <2>1, <2>3, <2>7 DEF LimitInv
    <3>3. /\ buckets'["weight"].tokens = buckets["weight"].tokens
          /\ buckets'["weight"].last = buckets["weight"].last
      BY <3>2 DEF LimitPart!Buckets
    <3> QED BY <2>4, <2>7, <3>1, <3>2, <3>3 DEF LimitInv, TasksOK
  <2> QED BY <2>5, <2>6, <2>7
<1>3. ASSUME NEW c \in LimitPart!Callers, LimitPart!GoesOn(c) PROVE LimitInv'
  <2>1. BucketShape(buckets[LimitPart!BucketOf(c)])
    BY DEF LimitInv, LimitPart!BucketOf, LimitPart!Buckets
  <2> QED BY <1>3, <2>1, TriesKeep DEF LimitPart!GoesOn
<1>4. ASSUME NEW c \in LimitPart!Callers, LimitPart!HoldEnds(c) PROVE LimitInv'
  <2>1. /\ c \in Handshakes /\ LimitPart!WaitsOutHold(c)
        /\ UNCHANGED <<now, buckets, hold>>
    BY <1>4 DEF LimitPart!HoldEnds, LimitInv
  <2>2. /\ now \in Int /\ hold.until \in Int /\ TasksOK /\ buckets["weight"].tokens \in Int
        /\ LogOK(limitSent, buckets["weight"].tokens, buckets["weight"].last)
    BY DEF LimitInv, TasksOK, LogOK
  <2>3. TasksOK' /\ LogOK(limitSent', buckets["weight"].tokens, buckets["weight"].last)
    BY <2>1, <2>2, WaitsKeep
  <2> QED BY <2>1, <2>3 DEF LimitInv, TasksOK, LogOK
<1>5. ASSUME NEW c \in LimitPart!Callers, LimitPart!Cancelled(c) PROVE LimitInv'
  <2> DEFINE k == LimitPart!BucketOf(c)
  <2>1. k \in LimitPart!Buckets /\ BucketShape(buckets[k])
    BY DEF LimitInv, LimitPart!BucketOf, LimitPart!Buckets
  <2>2. PICK queue : buckets' = [buckets EXCEPT ![k] = [@ EXCEPT !.queue = queue]]
    BY <1>5 DEF LimitPart!Cancelled
  <2>3. /\ UNCHANGED <<now, hold, limitSent>> /\ TasksOK'
    BY <1>5, RestsKeep DEF LimitPart!Cancelled, LimitInv, TasksOK
  <2> HIDE DEF k
  <2>4. /\ buckets' = [x \in LimitPart!Buckets |-> buckets'[x]]
        /\ \A x \in LimitPart!Buckets :
             /\ BucketShape(buckets'[x])
             /\ buckets'[x].tokens = buckets[x].tokens /\ buckets'[x].last = buckets[x].last
    BY <2>1, <2>2 DEF LimitInv, BucketShape
  <2>5. /\ buckets'["weight"].tokens = buckets["weight"].tokens
        /\ buckets'["weight"].last = buckets["weight"].last
    BY <2>4 DEF LimitPart!Buckets
  <2> QED BY <2>3, <2>4, <2>5 DEF LimitInv, TasksOK
<1>6. CASE LimitPart!ToldToWait
  <2>1. PICK ticks \in 1 .. 2 :
          hold' = [until |-> LimitPart!Max({hold.until, now + ticks}), asked |-> hold.asked + 1]
    BY <1>6 DEF LimitPart!ToldToWait
  <2>2. hold'.until = LimitPart!Max({hold.until, now + ticks})
    BY <2>1
  <2>3. UNCHANGED <<now, buckets, tasks, limitSent>> /\ now \in Int /\ hold.until \in Int
    BY <1>6 DEF LimitPart!ToldToWait, LimitInv
  <2>4. now + ticks \in Int
    BY <2>3
  <2>5. hold'.until \in Int
    BY <2>2, <2>3, <2>4, MinOfTwo
  <2> QED BY <1>1, <2>3, <2>5
<1>7. CASE LimitPart!Tick
  <2>1. now' \in Int /\ hold'.until \in Int
    BY <1>7 DEF LimitPart!Tick, LimitInv
  <2> QED BY <1>1, <1>7, <2>1 DEF LimitPart!Tick
<1>8. CASE UNCHANGED LimitPart!limitVars
  <2>1. now' \in Int /\ hold'.until \in Int
    BY <1>8 DEF LimitPart!limitVars, LimitInv
  <2> QED BY <1>1, <1>8, <2>1 DEF LimitPart!limitVars
<1> QED BY <1>2, <1>3, <1>4, <1>5, <1>6, <1>7, <1>8 DEF LimitPart!Next

\* For any callers, weights, buckets and holds, however many wait for tokens or a lock, are
\* cancelled or refused: between any two requests the venue was asked for no more weight
\* than the bucket holds and what came in since, and nothing went out in a hold that was
\* known (TokenBucket.acquire, _refuse_during_hold, wait_out_hold).
THEOREM LimitsStayKept ==
  ASSUME LimitsAreAmounts
  PROVE  LimitPart!Spec => []LimitsAreKept
<1>1. LimitInv => LimitsAreKept
  BY DEF LimitInv, Within, InTime, LimitsAreKept, LimitPart!LimitsAreKept,
         LimitPart!WithinBudget, LimitPart!HoldIsKept
<1>2. LimitPart!Init => LimitInv
  <2> SUFFICES ASSUME LimitPart!Init PROVE LimitInv
    OBVIOUS
  <2>1. /\ now = 0 /\ limitSent = <<>> /\ hold.until = 0
        /\ buckets = [k \in LimitPart!Buckets |->
                        [tokens |-> Capacity[k], last |-> 0, queue |-> <<>>]]
        /\ tasks = [c \in LimitPart!Callers |-> [pc |-> "idle", due |-> 0]]
    BY DEF LimitPart!Init, LimitPart!Idle
  <2>2. limitSent \in Seq(Entries) /\ DOMAIN limitSent = {}
    BY <2>1
  <2>3. Charged(limitSent, buckets["weight"].tokens, buckets["weight"].last)
        /\ Within(limitSent) /\ InTime(limitSent)
    BY <2>2 DEF Charged, Within, InTime
  <2>4. /\ "weight" \in LimitPart!Buckets /\ Capacity["weight"] \in Nat
        /\ buckets["weight"].tokens = Capacity["weight"] /\ buckets["weight"].last = 0
    BY <2>1 DEF LimitsAreAmounts, LimitPart!Buckets
  <2>5. \A k \in LimitPart!Buckets : BucketShape(buckets[k])
    BY <2>1 DEF BucketShape
  <2> QED BY <2>1, <2>2, <2>3, <2>4, <2>5 DEF LimitInv
<1>3. LimitInv /\ [LimitPart!Next]_(LimitPart!limitVars) => LimitInv'
  BY LimitsKept
<1> QED BY <1>1, <1>2, <1>3, PTL DEF LimitPart!Spec

-------------------------------------------------------------------------------
(* The stream of market data, for any keys, any queue, and any number of events and outages. *)

\* Shapes.  A frame that repeats the last trade is sent on a contiguous feed only.
DataFrames(k) ==
  [data : {TRUE}, key : FeedKeys, number : Nat \ {0},
   last : IF k.feed = "contiguous" THEN BOOLEAN ELSE {FALSE}]
FeedFrames(k) == DataFrames(k) \cup {FeedPart!Control}
FeedItems(k) ==
  [frame : FeedFrames(k), generation : Nat \ {0}, stamped : Nat] \cup {FeedPart!Closed}
FeedTrackers == [last : Nat, first : Nat, missing : SUBSET Nat]
FeedEvents == [number : Nat \ {0}, gap : BOOLEAN, late : BOOLEAN]
WsShape(k, w) ==
  /\ DOMAIN w = {"state", "attempt", "queue", "dropped", "evicted", "toldDropped",
                 "toldEvicted", "generation"}
  /\ w.queue \in Seq(FeedItems(k))
  /\ w.dropped \in Nat /\ w.evicted \in Nat /\ w.generation \in Nat
  /\ w.toldDropped \in 0 .. w.dropped /\ w.toldEvicted \in 0 .. w.evicted
  /\ w.state = "connected" => w.generation # 0
GatesShape(g) ==
  /\ DOMAIN g = {"tracker", "reconnected", "seen", "open"}
  /\ g.tracker \in [FeedKeys -> FeedTrackers] /\ g.reconnected \in SUBSET FeedKeys
  /\ g.seen \in Nat \ {0} /\ g.open \in BOOLEAN
FeedShape ==
  /\ feedKind \in FeedPart!Kinds
  /\ published \in [FeedKeys -> Seq(Nat \ {0})]
  /\ wire \in Seq(FeedFrames(feedKind)) /\ (ws.state # "connected" => wire = <<>>)
  /\ WsShape(feedKind, ws) /\ GatesShape(gates)
  /\ got \in [FeedKeys -> Seq(FeedEvents)]

\* The lane: what the queue and the wire hold, as the consumer will meet it.  Its cell 0 is
\* what the consumer met last, and its last cell is for what the venue sends next.
Cell(keys, n, gen, stamp) == [of |-> keys, number |-> n, gen |-> gen, stamp |-> stamp]
FrameCell(frame, gen, stamp) ==
  IF frame.data THEN Cell({frame.key}, frame.number, gen, stamp) ELSE Cell({}, 0, gen, stamp)
ItemCell(item) ==
  IF item = FeedPart!Closed THEN Cell({}, 0, 0, 0)
  ELSE FrameCell(item.frame, item.generation, item.stamped)
NextGen(w) == IF w.state = "connected" THEN w.generation ELSE w.generation + 1
LaneEnd(w, frames) == Len(w.queue) + Len(frames) + 1
Lane(w, frames, g) ==
  [j \in 0 .. LaneEnd(w, frames) |->
     IF j = 0 THEN Cell({}, 0, g.seen, w.toldDropped)
     ELSE IF j <= Len(w.queue) THEN ItemCell(w.queue[j])
     ELSE IF j < LaneEnd(w, frames)
       THEN FrameCell(frames[j - Len(w.queue)], NextGen(w), w.dropped)
     ELSE Cell({}, 0, NextGen(w), w.dropped)]
OnLane(lane, j, key) == key \in lane[j].of

Newest(k) == k.policy = "drop_newest"
LaneOk(k, lane, n) ==
  /\ n \in Nat \ {0} /\ lane[0].of = {} /\ lane[n].of = {}
  /\ lane[0].gen # 0 /\ lane[n].gen # 0
  /\ \A j \in 0 .. n :
       /\ lane[j].of \in SUBSET FeedKeys /\ lane[j].number \in Nat
       /\ lane[j].gen \in Nat /\ lane[j].stamp \in Nat
       /\ lane[j].gen <= lane[n].gen
       /\ Newest(k) => \A i \in 0 .. j - 1 :
                      lane[i].gen # 0 /\ lane[j].gen # 0 => lane[i].stamp <= lane[j].stamp

\* A cell that, once consumed, marks every key known so far: of another connection than the
\* one before it, with more losses behind it, or the first after a loss not told yet.
MarksAt(k, lane, j, lost) ==
  \/ lane[j].gen # lane[j - 1].gen
  \/ Newest(k) /\ lane[j].stamp > lane[j - 1].stamp
  \/ j = 1 /\ lost
LostYet(k, w) ==
  \/ Newest(k) /\ w.evicted # w.toldEvicted
  \/ ~Newest(k) /\ w.dropped > w.toldDropped

\* The events of a key come in the order in which they were published, but for one that the
\* venue had left out; none is twice on its way, but for the last trade.
ComesAfter(k, a, b) ==
  \/ k.feed = "sparse" /\ a < b
  \/ k.feed = "contiguous" /\ a <= b
  \/ k.feed = "plain" /\ a # b
IsAhead(k, last, had, b) ==
  \/ k.feed = "sparse" /\ last < b
  \/ k.feed = "contiguous" /\ last <= b
  \/ k.feed = "plain" /\ b \notin had
Ordered(k, lane, n, key, last, had, pub) ==
  \A j \in 1 .. n : OnLane(lane, j, key) =>
    /\ lane[j].number \in pub /\ IsAhead(k, last, had, lane[j].number)
    /\ \A i \in 1 .. j - 1 : OnLane(lane, i, key) => ComesAfter(k, lane[i].number, lane[j].number)

\* On a sparse feed: what was published beyond the events of the key in front of a cell, and
\* before that cell, was lost, and something marks the key in between.
Beyond(lane, j, key, last, m) ==
  /\ last < m
  /\ \A q \in 1 .. j - 1 : OnLane(lane, q, key) => lane[q].number < m
  /\ last # 0 \/ \E q \in 1 .. j - 1 : OnLane(lane, q, key)
IsMarked(k, lane, j, key, lost, marked) ==
  \E p \in 0 .. j :
    /\ IF p = 0 THEN marked ELSE MarksAt(k, lane, p, lost)
    /\ \A q \in 1 .. j - 1 : q >= p => ~OnLane(lane, q, key)
Covered(k, lane, n, key, last, pub, lost, marked) ==
  \A j \in 1 .. n : \A m \in pub :
    /\ j = n \/ (OnLane(lane, j, key) /\ m < lane[j].number)
    /\ Beyond(lane, j, key, last, m)
    => IsMarked(k, lane, j, key, lost, marked)

KeyLane(k, lane, n, key, last, had, pub, lost, marked) ==
  /\ Ordered(k, lane, n, key, last, had, pub)
  /\ k.feed = "sparse" => Covered(k, lane, n, key, last, pub, lost, marked)

\* What a tracker knows of the events that were given.
TrackOk(k, t, had) ==
  /\ t.last = 0 => had = {}
  /\ had # {} => t.last \in had
  /\ \A n \in had : n <= t.last
  /\ t.first <= t.last /\ (t.last # 0 => t.first # 0)
  /\ \A n \in t.missing : t.first < n /\ n < t.last
  /\ k.feed = "plain" =>
       /\ t.last # 0 => had # {} /\ t.first \in had
       /\ \A n \in had : t.first <= n /\ n \notin t.missing
       /\ \A n \in t.first .. t.last : n # 0 => n \in had \/ n \in t.missing

NumbersOf(s) == {s[i].number : i \in DOMAIN s}
GivenTo(key) == NumbersOf(got[key])
Quiet(lane, n, g) ==
  \/ \A j \in 0 .. n - 1 : lane[j].gen < lane[n].gen
  \/ \A key \in FeedKeys : g.tracker[key].last = 0 /\ \A j \in 1 .. n : ~OnLane(lane, j, key)
LaneInv(k, w, frames, g, pub, had) ==
  /\ LaneOk(k, Lane(w, frames, g), LaneEnd(w, frames))
  /\ w.state # "connected" => Quiet(Lane(w, frames, g), LaneEnd(w, frames), g)
  /\ w.state # "failed" => \A j \in 0 .. LaneEnd(w, frames) : Lane(w, frames, g)[j].gen # 0
  /\ \A key \in FeedKeys :
       KeyLane(k, Lane(w, frames, g), LaneEnd(w, frames), key, g.tracker[key].last, had[key],
               pub[key], LostYet(k, w), key \in g.reconnected)

\* What the caller was given of a key, as a sequence of its own.
BeforeIn(s, i) == {s[j].number : j \in 1 .. i - 1}
SkippedIn(k, s, i, pub) ==
  {n \in FeedPart!Highest(BeforeIn(s, i)) + 1 .. s[i].number - 1 : k.feed = "sparse" => n \in pub}
HonestTo(k, s, pub) ==
  \A i \in DOMAIN s :
    /\ FeedPart!Highest(BeforeIn(s, i)) \in Nat
    /\ s[i].number \notin BeforeIn(s, i)
    /\ s[i].late <=> s[i].number < FeedPart!Highest(BeforeIn(s, i))
    /\ i >= 2 /\ ~s[i].late /\ SkippedIn(k, s, i, pub) # {} => s[i].gap

HadBy == [key \in FeedKeys |-> GivenTo(key)]
PubBy == [key \in FeedKeys |-> FeedPart!Published(key)]
\* What was published has a highest number, and on a contiguous feed it has no holes.
PublishedOk ==
  \A key \in FeedKeys :
    /\ GivenTo(key) \in SUBSET FeedPart!Published(key)
    /\ FeedPart!Highest(FeedPart!Published(key)) \in FeedPart!Published(key) \cup {0}
    /\ \A n \in FeedPart!Published(key) : n <= FeedPart!Highest(FeedPart!Published(key))
    /\ gates.tracker[key].last \in FeedPart!Published(key) \cup {0}
    /\ feedKind.feed = "contiguous" =>
         FeedPart!Published(key) = 1 .. FeedPart!Highest(FeedPart!Published(key))
FeedInv ==
  /\ FeedShape /\ PublishedOk
  /\ \A key \in FeedKeys : HonestTo(feedKind, got[key], FeedPart!Published(key))
  /\ LaneInv(feedKind, ws, wire, gates, PubBy, HadBy)
  /\ gates.open => \A key \in FeedKeys : TrackOk(feedKind, gates.tracker[key], GivenTo(key))
-------------------------------------------------------------------------------
\* What a lane of a key becomes.  Cells keep what they show: their events and numbers.
SameCell(a, b) == a.of = b.of /\ a.number = b.number

\* A cell is taken out of the lane, and the one behind it marks the keys.
TakenOut(k, lane, n, next, d, lost, later) ==
  /\ next[n - 1].of = {}
  /\ \A j \in 1 .. d - 1 : SameCell(next[j], lane[j])
  /\ \A j \in d .. n - 1 : SameCell(next[j], lane[j + 1])
  /\ \A j \in 1 .. d - 1 : MarksAt(k, lane, j, lost) => MarksAt(k, next, j, later)
  /\ MarksAt(k, next, d, later)
  /\ \A j \in d + 1 .. n - 1 : MarksAt(k, lane, j + 1, lost) => MarksAt(k, next, j, later)
LEMMA CellTakenOut ==
  ASSUME NEW k, NEW lane, NEW n \in Nat, NEW next, NEW d \in 1 .. n - 1, NEW key \in FeedKeys,
         NEW lost \in BOOLEAN, NEW later \in BOOLEAN, NEW marked \in BOOLEAN,
         LaneOk(k, lane, n), TakenOut(k, lane, n, next, d, lost, later),
         NEW last \in Nat, NEW had, NEW pub \in SUBSET Nat,
         KeyLane(k, lane, n, key, last, had, pub, lost, marked)
  PROVE  KeyLane(k, next, n - 1, key, last, had, pub, later, marked)
<1> USE DEF TakenOut
<1> DEFINE Was(j) == IF j < d THEN j ELSE j + 1
<1>1. ASSUME NEW j \in 1 .. n - 1
      PROVE  /\ Was(j) \in 1 .. n /\ SameCell(next[j], lane[Was(j)])
             /\ OnLane(next, j, key) <=> OnLane(lane, Was(j), key)
             /\ next[j].number = lane[Was(j)].number /\ next[j].number \in Nat
             /\ Was(j) = n <=> j = n - 1
             /\ \A i \in 1 .. n - 1 : i < j <=> Was(i) < Was(j)
  BY DEF SameCell, OnLane, LaneOk
<1> HIDE DEF Was
<1>2. Ordered(k, next, n - 1, key, last, had, pub)
  <2> SUFFICES ASSUME NEW j \in 1 .. n - 1, OnLane(next, j, key)
               PROVE  /\ next[j].number \in pub /\ IsAhead(k, last, had, next[j].number)
                      /\ \A i \in 1 .. j - 1 : OnLane(next, i, key) =>
                           ComesAfter(k, next[i].number, next[j].number)
    BY DEF Ordered
  <2>1. ASSUME NEW i \in 1 .. j - 1, OnLane(next, i, key)
        PROVE  ComesAfter(k, next[i].number, next[j].number)
    <3>1. /\ i \in 1 .. n - 1 /\ Was(i) \in 1 .. Was(j) - 1
          /\ Was(j) \in 1 .. n
      BY <1>1
    <3> QED BY <1>1, <2>1, <3>1 DEF KeyLane, Ordered
  <2> QED BY <1>1, <2>1 DEF KeyLane, Ordered
<1>3. ASSUME k.feed = "sparse" PROVE Covered(k, next, n - 1, key, last, pub, later, marked)
  <2> SUFFICES ASSUME NEW j \in 1 .. n - 1, NEW m \in pub,
                      j = n - 1 \/ (OnLane(next, j, key) /\ m < next[j].number),
                      Beyond(next, j, key, last, m)
               PROVE  IsMarked(k, next, j, key, later, marked)
    BY DEF Covered
  <2>1. CASE j >= d /\ \A q \in d .. j - 1 : ~OnLane(next, q, key)
    <3>1. d \in 0 .. j /\ d # 0
      BY <2>1
    <3>2. \A q \in 1 .. j - 1 : q >= d => ~OnLane(next, q, key)
      BY <2>1
    <3> QED BY <3>1, <3>2 DEF IsMarked
  <2>2. CASE j < d \/ \E q \in d .. j - 1 : OnLane(next, q, key)
    <3>1. /\ Was(j) \in 1 .. n /\ (OnLane(next, j, key) <=> OnLane(lane, Was(j), key))
          /\ next[j].number = lane[Was(j)].number /\ (Was(j) = n <=> j = n - 1)
      BY <1>1
    <3>2. ASSUME NEW q \in 1 .. Was(j) - 1, OnLane(lane, q, key) PROVE lane[q].number < m
      <4>1. CASE q = d
        <5>1. PICK r \in d .. j - 1 : OnLane(next, r, key)
          BY <2>2, <3>2, <4>1 DEF Was
        <5>2. /\ r \in 1 .. n - 1 /\ Was(r) = r + 1 /\ q \in 1 .. Was(r) - 1
              /\ OnLane(lane, Was(r), key) /\ Was(r) \in 1 .. n
              /\ next[r].number = lane[Was(r)].number /\ next[r].number \in Nat
          BY <1>1, <4>1, <5>1 DEF Was
        <5>3. lane[q].number < lane[Was(r)].number
          BY <1>3, <3>2, <5>2 DEF KeyLane, Ordered, ComesAfter
        <5>4. next[r].number < m
          BY <5>1, <5>2 DEF Beyond
        <5>5. lane[q].number \in Nat /\ m \in Nat
          <6>1. q \in 0 .. n
            BY <3>1
          <6> QED BY <6>1 DEF LaneOk
        <5> QED BY <5>2, <5>3, <5>4, <5>5
      <4>2. CASE q # d
        <5>1. PICK r \in 1 .. n - 1 : Was(r) = q
          <6>1. CASE q < d
            BY <6>1 DEF Was
          <6>2. CASE q > d
            <7>1. q - 1 \in 1 .. n - 1 /\ Was(q - 1) = q
              BY <6>2 DEF Was
            <7> QED BY <7>1
          <6> QED BY <4>2, <6>1, <6>2
        <5>2. r \in 1 .. j - 1 /\ OnLane(next, r, key) /\ next[r].number = lane[q].number
          BY <1>1, <3>2, <5>1
        <5> QED BY <5>2 DEF Beyond
      <4> QED BY <4>1, <4>2
    <3>3. last # 0 \/ \E q \in 1 .. Was(j) - 1 : OnLane(lane, q, key)
      <4>1. ASSUME NEW q \in 1 .. j - 1, OnLane(next, q, key)
            PROVE  Was(q) \in 1 .. Was(j) - 1 /\ OnLane(lane, Was(q), key)
        BY <1>1, <3>1, <4>1
      <4> QED BY <4>1 DEF Beyond
    <3>4. Beyond(lane, Was(j), key, last, m)
      <4>1. last < m
        BY DEF Beyond
      <4>2. \A q \in 1 .. Was(j) - 1 : OnLane(lane, q, key) => lane[q].number < m
        BY <3>2
      <4> QED BY <3>3, <4>1, <4>2, Zenon DEF Beyond
    <3>5. IsMarked(k, lane, Was(j), key, lost, marked)
      BY <1>3, <3>1, <3>4 DEF KeyLane, Covered
    <3>6. PICK p \in 0 .. Was(j) :
             /\ IF p = 0 THEN marked ELSE MarksAt(k, lane, p, lost)
             /\ \A q \in 1 .. Was(j) - 1 : q >= p => ~OnLane(lane, q, key)
      BY <3>5 DEF IsMarked
    <3>7. ASSUME NEW r \in 0 .. j, IF r = 0 THEN marked ELSE MarksAt(k, next, r, later),
                 \A q \in 1 .. j - 1 : q >= r => Was(q) >= p
          PROVE  IsMarked(k, next, j, key, later, marked)
      <4>1. ASSUME NEW q \in 1 .. j - 1, q >= r PROVE ~OnLane(next, q, key)
        <5>1. Was(q) \in 1 .. Was(j) - 1 /\ (OnLane(next, q, key) <=> OnLane(lane, Was(q), key))
          BY <1>1
        <5> QED BY <3>6, <3>7, <4>1, <5>1
      <4> QED BY <3>7, <4>1 DEF IsMarked
    <3>8. CASE p < d
      <4>1. p \in 0 .. j /\ (p # 0 => MarksAt(k, next, p, later))
        BY <3>6, <3>8 DEF Was
      <4>2. \A q \in 1 .. j - 1 : q >= p => Was(q) >= p
        BY DEF Was
      <4> QED BY <3>6, <3>7, <4>1, <4>2
    <3>9. CASE p >= d
      <4>1. PICK r \in d .. j - 1 : OnLane(next, r, key)
        BY <2>2, <3>9 DEF Was
      <4>2. r \in 1 .. n - 1 /\ Was(r) = r + 1 /\ Was(r) \in 1 .. Was(j) - 1
            /\ OnLane(lane, Was(r), key) /\ Was(j) = j + 1
        BY <1>1, <4>1 DEF Was
      <4>3. p > r + 1
        BY <3>6, <4>1, <4>2
      <4>4. p - 1 \in d + 1 .. n - 1 /\ p - 1 \in 0 .. j /\ p - 1 # 0
        BY <4>1, <4>2, <4>3
      <4>5. MarksAt(k, lane, (p - 1) + 1, lost)
        BY <3>6, <4>4
      <4>6. MarksAt(k, next, p - 1, later)
        BY <4>4, <4>5
      <4>7. \A q \in 1 .. j - 1 : q >= p - 1 => Was(q) >= p
        BY <4>1, <4>3 DEF Was
      <4> QED BY <3>7, <4>4, <4>6, <4>7
    <3> QED BY <3>8, <3>9
  <2> QED BY <2>1, <2>2
<1> QED BY <1>2, <1>3 DEF KeyLane

\* A cell is put in front of the last one: an event of the key, or not.
PutBehind(k, lane, n, next, lost, later) ==
  /\ next[n + 1].of = {}
  /\ \A j \in 1 .. n - 1 : SameCell(next[j], lane[j])
  /\ \A j \in 1 .. n : MarksAt(k, lane, j, lost) => MarksAt(k, next, j, later)
PutFor(k, next, n, key, last, had, pub, more) ==
  \/ more = pub /\ ~OnLane(next, n, key)
  \/ /\ OnLane(next, n, key) /\ next[n].number \in Nat
     /\ more = pub \cup {next[n].number}
     /\ IsAhead(k, last, had, next[n].number)
     /\ \A a \in pub : ComesAfter(k, a, next[n].number)
LEMMA CellPutIn ==
  ASSUME NEW k, NEW lane, NEW n \in Nat, NEW next, NEW key \in FeedKeys,
         NEW lost \in BOOLEAN, NEW later \in BOOLEAN, NEW marked \in BOOLEAN,
         LaneOk(k, lane, n), PutBehind(k, lane, n, next, lost, later),
         NEW last \in Nat, NEW had, NEW pub \in SUBSET Nat, NEW more \in SUBSET Nat,
         KeyLane(k, lane, n, key, last, had, pub, lost, marked),
         PutFor(k, next, n, key, last, had, pub, more)
  PROVE  KeyLane(k, next, n + 1, key, last, had, more, later, marked)
<1> USE DEF PutBehind, PutFor
<1>1. ASSUME NEW j \in 1 .. n - 1
      PROVE  /\ OnLane(next, j, key) <=> OnLane(lane, j, key)
             /\ next[j].number = lane[j].number /\ next[j].number \in Nat
  BY DEF SameCell, OnLane, LaneOk
<1>2. ~OnLane(next, n + 1, key) /\ ~OnLane(lane, n, key) /\ n \in 1 .. n
  BY DEF OnLane, LaneOk
<1>3. Ordered(k, next, n + 1, key, last, had, more)
  <2> SUFFICES ASSUME NEW j \in 1 .. n + 1, OnLane(next, j, key)
               PROVE  /\ next[j].number \in more /\ IsAhead(k, last, had, next[j].number)
                      /\ \A i \in 1 .. j - 1 : OnLane(next, i, key) =>
                           ComesAfter(k, next[i].number, next[j].number)
    BY DEF Ordered
  <2>1. CASE j \in 1 .. n - 1
    <3>1. \A i \in 1 .. j - 1 :
            OnLane(next, i, key) => ComesAfter(k, next[i].number, next[j].number)
      BY <1>1, <2>1 DEF KeyLane, Ordered
    <3> QED BY <1>1, <2>1, <3>1 DEF KeyLane, Ordered
  <2>2. CASE j = n
    <3>1. \A i \in 1 .. n - 1 : OnLane(next, i, key) => next[i].number \in pub
      BY <1>1 DEF KeyLane, Ordered
    <3> QED BY <2>2, <3>1
  <2> QED BY <1>2, <2>1, <2>2
<1>4. ASSUME k.feed = "sparse" PROVE Covered(k, next, n + 1, key, last, more, later, marked)
  <2> SUFFICES ASSUME NEW j \in 1 .. n + 1, NEW m \in more,
                      j = n + 1 \/ (OnLane(next, j, key) /\ m < next[j].number),
                      Beyond(next, j, key, last, m)
               PROVE  IsMarked(k, next, j, key, later, marked)
    BY DEF Covered
  <2>1. m \in pub
    <3>1. ASSUME OnLane(next, n, key), m = next[n].number, m \notin pub PROVE FALSE
      <4>1. CASE j \in 1 .. n - 1
        <5>1. next[j].number \in pub /\ m < next[j].number
          BY <1>1, <4>1 DEF KeyLane, Ordered
        <5>2. next[j].number < m
          BY <1>2, <1>4, <3>1, <5>1 DEF ComesAfter
        <5>3. m \in Nat /\ next[j].number \in Nat
          BY <1>1, <4>1
        <5> QED BY <5>1, <5>2, <5>3
      <4>2. CASE j = n
        BY <3>1, <4>2
      <4>3. CASE j = n + 1
        <5>1. next[n].number < m
          BY <1>2, <3>1, <4>3 DEF Beyond
        <5> QED BY <3>1, <5>1
      <4> QED BY <4>1, <4>2, <4>3
    <3> QED BY <3>1
  <2> DEFINE i == IF j = n + 1 THEN n ELSE j
  <2>2. /\ i \in 1 .. n
        /\ i = n \/ (OnLane(lane, i, key) /\ m < lane[i].number)
    BY <1>1, <1>2
  <2>3. Beyond(lane, i, key, last, m)
    <3>1. \A q \in 1 .. i - 1 : q \in 1 .. j - 1 /\ q \in 1 .. n - 1
      OBVIOUS
    <3>2. last < m /\ \A q \in 1 .. i - 1 : OnLane(lane, q, key) => lane[q].number < m
      BY <1>1, <3>1 DEF Beyond
    <3>3. ASSUME last = 0 PROVE \E q \in 1 .. i - 1 : OnLane(lane, q, key)
      <4>1. PICK q \in 1 .. j - 1 : OnLane(next, q, key) /\ next[q].number < m
        BY <3>3 DEF Beyond
      <4>2. q # n
        <5>1. ASSUME q = n PROVE FALSE
          <6>1. m < next[n].number
            BY <1>2, <1>4, <2>1, <4>1, <5>1 DEF ComesAfter
          <6>2. next[n].number < m /\ m \in Nat /\ next[n].number \in Nat
            BY <4>1, <5>1
          <6> QED BY <6>1, <6>2
        <5> QED BY <5>1
      <4>3. q \in 1 .. i - 1 /\ q \in 1 .. n - 1
        BY <4>2
      <4> QED BY <1>1, <4>1, <4>3
    <3> QED BY <3>2, <3>3 DEF Beyond
  <2>4. IsMarked(k, lane, i, key, lost, marked)
    BY <1>4, <2>1, <2>2, <2>3 DEF KeyLane, Covered
  <2>5. PICK p \in 0 .. i : /\ IF p = 0 THEN marked ELSE MarksAt(k, lane, p, lost)
                            /\ \A q \in 1 .. i - 1 : q >= p => ~OnLane(lane, q, key)
    BY <2>4 DEF IsMarked
  <2>6. p \in 0 .. j /\ (IF p = 0 THEN marked ELSE MarksAt(k, next, p, later))
    BY <2>2, <2>5
  <2>7. \A q \in 1 .. j - 1 : q >= p => ~OnLane(next, q, key)
    <3> SUFFICES ASSUME NEW q \in 1 .. j - 1, q >= p, OnLane(next, q, key) PROVE FALSE
      OBVIOUS
    <3>1. CASE q \in 1 .. n - 1
      <4>1. q \in 1 .. i - 1
        BY <3>1
      <4> QED BY <1>1, <2>5, <3>1, <4>1
    <3>2. CASE q = n
      <4>1. m < next[n].number
        BY <1>2, <1>4, <2>1, <3>2 DEF ComesAfter
      <4>2. next[n].number < m /\ m \in Nat /\ next[n].number \in Nat
        BY <3>2 DEF Beyond
      <4> QED BY <4>1, <4>2
    <3> QED BY <3>1, <3>2
  <2> QED BY <2>6, <2>7 DEF IsMarked
<1> QED BY <1>3, <1>4 DEF KeyLane

\* The lane is cut, and what comes next marks the keys.
CutAt(k, lane, next, e, lost) ==
  /\ next[e].of = {} /\ MarksAt(k, next, e, lost)
  /\ \A j \in 1 .. e - 1 : SameCell(next[j], lane[j])
  /\ \A j \in 1 .. e - 1 : MarksAt(k, lane, j, lost) => MarksAt(k, next, j, lost)
LEMMA LaneCut ==
  ASSUME NEW k, NEW lane, NEW n \in Nat, NEW next, NEW e \in 1 .. n, NEW key \in FeedKeys,
         NEW lost \in BOOLEAN, NEW marked \in BOOLEAN,
         LaneOk(k, lane, n), CutAt(k, lane, next, e, lost),
         NEW last \in Nat, NEW had, NEW pub \in SUBSET Nat,
         KeyLane(k, lane, n, key, last, had, pub, lost, marked)
  PROVE  KeyLane(k, next, e, key, last, had, pub, lost, marked)
<1> USE DEF CutAt
<1>1. ASSUME NEW j \in 1 .. e - 1
      PROVE  /\ OnLane(next, j, key) <=> OnLane(lane, j, key)
             /\ next[j].number = lane[j].number /\ j \in 1 .. n
  BY DEF SameCell, OnLane
<1>2. ~OnLane(next, e, key)
  BY DEF OnLane
<1>3. Ordered(k, next, e, key, last, had, pub)
  <2> SUFFICES ASSUME NEW j \in 1 .. e - 1, OnLane(next, j, key)
               PROVE  /\ next[j].number \in pub /\ IsAhead(k, last, had, next[j].number)
                      /\ \A i \in 1 .. j - 1 : OnLane(next, i, key) =>
                           ComesAfter(k, next[i].number, next[j].number)
    BY <1>2 DEF Ordered
  <2> QED BY <1>1 DEF KeyLane, Ordered
<1>4. ASSUME k.feed = "sparse" PROVE Covered(k, next, e, key, last, pub, lost, marked)
  <2> SUFFICES ASSUME NEW j \in 1 .. e, NEW m \in pub,
                      j = e \/ (OnLane(next, j, key) /\ m < next[j].number),
                      Beyond(next, j, key, last, m)
               PROVE  IsMarked(k, next, j, key, lost, marked)
    BY DEF Covered
  <2>1. CASE j = e
    <3>1. e \in 0 .. j /\ e # 0 /\ \A q \in 1 .. j - 1 : q >= e => ~OnLane(next, q, key)
      BY <2>1
    <3> QED BY <3>1 DEF IsMarked
  <2>2. CASE j # e
    <3>1. j \in 1 .. e - 1 /\ j \in 1 .. n /\ OnLane(lane, j, key) /\ m < lane[j].number
      BY <1>1, <2>2
    <3>2. Beyond(lane, j, key, last, m)
      <4>1. last < m /\ \A q \in 1 .. j - 1 : OnLane(lane, q, key) => lane[q].number < m
        BY <1>1, <3>1 DEF Beyond
      <4>2. last # 0 \/ \E q \in 1 .. j - 1 : OnLane(lane, q, key)
        BY <1>1, <3>1 DEF Beyond
      <4> QED BY <4>1, <4>2 DEF Beyond
    <3>3. IsMarked(k, lane, j, key, lost, marked)
      BY <1>4, <3>1, <3>2 DEF KeyLane, Covered
    <3>4. PICK p \in 0 .. j : /\ IF p = 0 THEN marked ELSE MarksAt(k, lane, p, lost)
                              /\ \A q \in 1 .. j - 1 : q >= p => ~OnLane(lane, q, key)
      BY <3>3 DEF IsMarked
    <3>5. /\ IF p = 0 THEN marked ELSE MarksAt(k, next, p, lost)
          /\ \A q \in 1 .. j - 1 : q >= p => ~OnLane(next, q, key)
      BY <1>1, <3>1, <3>4
    <3> QED BY <3>5 DEF IsMarked
  <2> QED BY <2>1, <2>2
<1> QED BY <1>3, <1>4 DEF KeyLane

\* The consumer takes the first cell: an event of the key, which becomes the last one known,
\* or something else, which marks the key if it is known and the cell marks.
ShiftedOn(k, lane, n, next, lost, later) ==
  /\ next[n - 1].of = {}
  /\ \A j \in 1 .. n - 1 : SameCell(next[j], lane[j + 1])
  /\ \A j \in 1 .. n - 1 : MarksAt(k, lane, j + 1, lost) => MarksAt(k, next, j, later)
TakenBy(k, lane, key, last, had, lost, marked, new, have, then) ==
  \/ /\ ~OnLane(lane, 1, key) /\ new = last /\ have = had
     /\ last # 0 /\ (marked \/ MarksAt(k, lane, 1, lost)) => then
  \/ /\ OnLane(lane, 1, key) /\ lane[1].number # 0
     /\ k.feed # "plain" => new = lane[1].number
     /\ k.feed = "plain" => have \subseteq had \cup {lane[1].number}
LEMMA CellConsumed ==
  ASSUME NEW k, NEW lane, NEW n \in Nat, n > 1, NEW next, NEW key \in FeedKeys,
         NEW lost \in BOOLEAN, NEW later \in BOOLEAN, NEW marked \in BOOLEAN,
         NEW then \in BOOLEAN,
         LaneOk(k, lane, n), ShiftedOn(k, lane, n, next, lost, later),
         NEW last \in Nat, NEW had, NEW pub \in SUBSET Nat, NEW new \in Nat, NEW have,
         KeyLane(k, lane, n, key, last, had, pub, lost, marked),
         TakenBy(k, lane, key, last, had, lost, marked, new, have, then)
  PROVE  KeyLane(k, next, n - 1, key, new, have, pub, later, then)
<1> USE DEF ShiftedOn, TakenBy
<1>1. ASSUME NEW j \in 1 .. n - 1
      PROVE  /\ OnLane(next, j, key) <=> OnLane(lane, j + 1, key)
             /\ next[j].number = lane[j + 1].number /\ next[j].number \in Nat
             /\ j + 1 \in 1 .. n
  BY DEF SameCell, OnLane, LaneOk
<1>2. ASSUME OnLane(lane, 1, key), k.feed \in {"sparse", "contiguous"}
      PROVE  IsAhead(k, last, had, new) /\ new \in Nat /\ new # 0
  BY <1>2 DEF KeyLane, Ordered
<1>3. Ordered(k, next, n - 1, key, new, have, pub)
  <2> SUFFICES ASSUME NEW j \in 1 .. n - 1, OnLane(next, j, key)
               PROVE  /\ next[j].number \in pub /\ IsAhead(k, new, have, next[j].number)
                      /\ \A i \in 1 .. j - 1 : OnLane(next, i, key) =>
                           ComesAfter(k, next[i].number, next[j].number)
    BY DEF Ordered
  <2>1. ASSUME NEW i \in 1 .. j - 1, OnLane(next, i, key)
        PROVE  ComesAfter(k, next[i].number, next[j].number)
    <3>1. i \in 1 .. n - 1 /\ i + 1 \in 1 .. (j + 1) - 1
      OBVIOUS
    <3> QED BY <1>1, <2>1, <3>1 DEF KeyLane, Ordered
  <2>2. next[j].number \in pub /\ IsAhead(k, last, had, next[j].number)
    BY <1>1 DEF KeyLane, Ordered
  <2>3. ASSUME OnLane(lane, 1, key) PROVE IsAhead(k, new, have, next[j].number)
    <3>1. 1 \in 1 .. (j + 1) - 1
      OBVIOUS
    <3>2. ComesAfter(k, lane[1].number, next[j].number)
      BY <1>1, <2>3, <3>1 DEF KeyLane, Ordered
    <3> QED BY <2>2, <2>3, <3>2 DEF ComesAfter, IsAhead
  <2> QED BY <2>1, <2>2, <2>3
<1>4. ASSUME k.feed = "sparse" PROVE Covered(k, next, n - 1, key, new, pub, later, then)
  <2> SUFFICES ASSUME NEW j \in 1 .. n - 1, NEW m \in pub,
                      j = n - 1 \/ (OnLane(next, j, key) /\ m < next[j].number),
                      Beyond(next, j, key, new, m)
               PROVE  IsMarked(k, next, j, key, later, then)
    BY DEF Covered
  <2>1. /\ j + 1 \in 1 .. n
        /\ j + 1 = n \/ (OnLane(lane, j + 1, key) /\ m < lane[j + 1].number)
    BY <1>1
  <2>2. Beyond(lane, j + 1, key, last, m)
    <3>1. new < m /\ m \in Nat
      BY DEF Beyond
    <3>2. last < m
      BY <1>2, <1>4, <3>1 DEF IsAhead
    <3>3. ASSUME NEW q \in 1 .. j, OnLane(lane, q, key) PROVE lane[q].number < m
      <4>1. CASE q = 1
        BY <1>4, <3>1, <3>3, <4>1
      <4>2. CASE q # 1
        <5>1. q - 1 \in 1 .. j - 1 /\ q - 1 \in 1 .. n - 1 /\ (q - 1) + 1 = q
          BY <4>2
        <5> QED BY <1>1, <3>3, <5>1 DEF Beyond
      <4> QED BY <4>1, <4>2
    <3>4. last # 0 \/ \E q \in 1 .. j : OnLane(lane, q, key)
      <4>1. CASE OnLane(lane, 1, key)
        <5>1. 1 \in 1 .. j
          OBVIOUS
        <5> QED BY <4>1, <5>1
      <4>2. CASE ~OnLane(lane, 1, key)
        <5>1. new = last
          BY <4>2
        <5>2. ASSUME NEW q \in 1 .. j - 1, OnLane(next, q, key)
              PROVE  q + 1 \in 1 .. j /\ OnLane(lane, q + 1, key)
          BY <1>1, <5>2
        <5> QED BY <5>1, <5>2 DEF Beyond
      <4> QED BY <4>1, <4>2
    <3>5. (j + 1) - 1 = j
      OBVIOUS
    <3> QED BY <3>2, <3>3, <3>4, <3>5 DEF Beyond
  <2>3. IsMarked(k, lane, j + 1, key, lost, marked)
    BY <1>4, <2>1, <2>2 DEF KeyLane, Covered
  <2>4. PICK p \in 0 .. j + 1 : /\ IF p = 0 THEN marked ELSE MarksAt(k, lane, p, lost)
                                /\ \A q \in 1 .. j : q >= p => ~OnLane(lane, q, key)
    <3>1. (j + 1) - 1 = j
      OBVIOUS
    <3> QED BY <2>3, <3>1 DEF IsMarked
  <2>5. CASE p > 1
    <3>1. p - 1 \in 1 .. n - 1 /\ p - 1 \in 0 .. j /\ p - 1 # 0
      BY <2>5
    <3>2. MarksAt(k, lane, (p - 1) + 1, lost)
      BY <2>4, <2>5
    <3>3. MarksAt(k, next, p - 1, later)
      BY <3>1, <3>2
    <3>4. \A q \in 1 .. j - 1 : q >= p - 1 => ~OnLane(next, q, key)
      <4>1. \A q \in 1 .. j - 1 : q >= p - 1 => q + 1 \in 1 .. j /\ q + 1 >= p /\ q \in 1 .. n - 1
        BY <2>5
      <4> QED BY <1>1, <2>4, <4>1
    <3> QED BY <3>1, <3>3, <3>4 DEF IsMarked
  <2>6. CASE p <= 1
    <3>1. \A q \in 1 .. j : ~OnLane(lane, q, key)
      BY <2>4, <2>6
    <3>2. 1 \in 1 .. j
      OBVIOUS
    <3>3. new = last /\ ~OnLane(lane, 1, key) /\ (last # 0 => then)
      <4>1. ~OnLane(lane, 1, key)
        BY <3>1, <3>2
      <4>2. marked \/ MarksAt(k, lane, 1, lost)
        BY <2>4, <2>6
      <4> QED BY <4>1, <4>2
    <3>4. \A q \in 1 .. j - 1 : ~OnLane(next, q, key)
      <4>1. \A q \in 1 .. j - 1 : q + 1 \in 1 .. j /\ q \in 1 .. n - 1
        OBVIOUS
      <4> QED BY <1>1, <3>1, <4>1
    <3>5. last # 0
      BY <3>3, <3>4 DEF Beyond
    <3> QED BY <3>3, <3>4, <3>5 DEF IsMarked
  <2> QED BY <2>5, <2>6
<1> QED BY <1>3, <1>4 DEF KeyLane

\* While the connection is down the venue publishes what no lane holds.
LEMMA Unseen ==
  ASSUME NEW k, NEW lane, NEW n \in Nat, NEW key \in FeedKeys, LaneOk(k, lane, n),
         NEW lost \in BOOLEAN, NEW marked \in BOOLEAN,
         NEW last \in Nat, NEW had, NEW pub \in SUBSET Nat, NEW number \in Nat,
         KeyLane(k, lane, n, key, last, had, pub, lost, marked),
         k.feed = "sparse" => \A a \in pub : a < number,
         \/ lane[n - 1].gen # lane[n].gen
         \/ last = 0 /\ \A j \in 1 .. n : ~OnLane(lane, j, key)
  PROVE  KeyLane(k, lane, n, key, last, had, pub \cup {number}, lost, marked)
<1>1. Ordered(k, lane, n, key, last, had, pub \cup {number})
  BY DEF KeyLane, Ordered
<1>2. ASSUME k.feed = "sparse"
      PROVE  Covered(k, lane, n, key, last, pub \cup {number}, lost, marked)
  <2> SUFFICES ASSUME NEW j \in 1 .. n, NEW m \in pub \cup {number},
                      j = n \/ (OnLane(lane, j, key) /\ m < lane[j].number),
                      Beyond(lane, j, key, last, m)
               PROVE  IsMarked(k, lane, j, key, lost, marked)
    BY DEF Covered
  <2>1. CASE m \in pub
    BY <1>2, <2>1 DEF KeyLane, Covered
  <2>2. CASE m = number /\ OnLane(lane, j, key)
    <3>1. lane[j].number \in pub /\ m < lane[j].number
      BY <2>2 DEF KeyLane, Ordered, OnLane, LaneOk
    <3>2. lane[j].number < number /\ lane[j].number \in Nat
      BY <1>2, <3>1
    <3> QED BY <2>2, <3>1, <3>2
  <2>3. CASE j = n
    <3>1. lane[n - 1].gen # lane[n].gen
      BY DEF Beyond
    <3>2. MarksAt(k, lane, n, lost) /\ n \in 0 .. j /\ n # 0
      BY <2>3, <3>1 DEF MarksAt
    <3>3. \A q \in 1 .. j - 1 : ~(q >= n)
      BY <2>3
    <3> QED BY <3>2, <3>3 DEF IsMarked
  <2> QED BY <2>1, <2>2, <2>3
<1> QED BY <1>1, <1>2 DEF KeyLane

\* A lane that loses the cell at d, and the losses counted from b on, as a whole.
Loses(lane, n, next, d, b) ==
  /\ d \in 1 .. n - 1 /\ b \in d .. n - 1
  /\ next[0].of = {} /\ next[0].gen = lane[0].gen /\ next[0].stamp = lane[0].stamp
  /\ \A j \in 1 .. d - 1 : /\ SameCell(next[j], lane[j]) /\ next[j].gen = lane[j].gen
                           /\ next[j].stamp = lane[j].stamp
  /\ \A j \in d .. n - 1 : /\ SameCell(next[j], lane[j + 1]) /\ next[j].gen = lane[j + 1].gen
                           /\ next[j].stamp = lane[j + 1].stamp + (IF j >= b THEN 1 ELSE 0)
Lighter(k, lane, n, next, d) ==
  /\ LaneOk(k, next, n - 1)
  /\ \A g : Quiet(lane, n, g) => Quiet(next, n - 1, g)
  /\ (\A j \in 0 .. n : lane[j].gen # 0) => \A j \in 0 .. n - 1 : next[j].gen # 0
  /\ \A lost, later \in BOOLEAN :
       /\ \A j \in d + 1 .. n - 1 :
            MarksAt(k, lane, j + 1, lost) => MarksAt(k, next, j, later)
       /\ lost = later =>
            \A j \in 1 .. d - 1 : MarksAt(k, lane, j, lost) => MarksAt(k, next, j, later)
LEMMA LaneLoses ==
  ASSUME NEW k, NEW lane, NEW n \in Nat, NEW next, NEW d \in Nat, NEW b \in Nat,
         LaneOk(k, lane, n), next[0].number \in Nat, Loses(lane, n, next, d, b)
  PROVE  Lighter(k, lane, n, next, d)
<1> DEFINE Was(j) == IF j < d THEN j ELSE j + 1
           Rise(j) == IF j >= b THEN 1 ELSE 0
<1>1. d \in 1 .. n - 1 /\ b \in d .. n - 1 /\ n - 1 \in Nat \ {0} /\ Was(n - 1) = n /\ Was(0) = 0
      /\ Rise(0) = 0
  BY DEF Loses
<1>2. ASSUME NEW j \in 0 .. n - 1
      PROVE  /\ Was(j) \in 0 .. n /\ Rise(j) \in {0, 1}
             /\ next[j].of = lane[Was(j)].of /\ next[j].gen = lane[Was(j)].gen
             /\ next[j].stamp = lane[Was(j)].stamp + Rise(j)
             /\ lane[Was(j)].gen \in Nat /\ lane[Was(j)].stamp \in Nat
             /\ lane[Was(j)].of \in SUBSET FeedKeys /\ next[j].number \in Nat
             /\ lane[Was(j)].gen <= lane[n].gen
             /\ \A i \in 0 .. j - 1 : /\ i \in 0 .. n - 1 /\ Was(i) \in 0 .. Was(j) - 1
                                    /\ Rise(i) <= Rise(j)
  <2>1. Was(j) \in 0 .. n /\ Rise(j) \in {0, 1}
        /\ \A i \in 0 .. j - 1 : /\ i \in 0 .. n - 1 /\ Was(i) \in 0 .. Was(j) - 1
                                /\ Rise(i) <= Rise(j)
    BY <1>1
  <2>2. /\ lane[Was(j)].of \in SUBSET FeedKeys /\ lane[Was(j)].number \in Nat
        /\ lane[Was(j)].gen \in Nat /\ lane[Was(j)].stamp \in Nat
        /\ lane[Was(j)].gen <= lane[n].gen /\ lane[0].of = {}
    BY <2>1 DEF LaneOk
  <2>3. CASE j = 0
    <3>1. Was(j) = 0 /\ Rise(j) = 0 /\ j = 0
      BY <1>1, <2>3
    <3>2. next[0].of = {} /\ next[0].gen = lane[0].gen /\ next[0].stamp = lane[0].stamp
      BY DEF Loses
    <3> HIDE DEF Was, Rise
    <3> QED BY <2>1, <2>2, <3>1, <3>2
  <2>4. CASE j \in 1 .. d - 1
    <3>1. /\ SameCell(next[j], lane[j]) /\ next[j].gen = lane[j].gen
          /\ next[j].stamp = lane[j].stamp
      BY <2>4 DEF Loses
    <3>2. Was(j) = j /\ Rise(j) = 0
      BY <1>1, <2>4
    <3> HIDE DEF Was, Rise
    <3> QED BY <2>1, <2>2, <3>1, <3>2 DEF SameCell
  <2>5. CASE j \in d .. n - 1
    <3>1. /\ SameCell(next[j], lane[j + 1]) /\ next[j].gen = lane[j + 1].gen
          /\ next[j].stamp = lane[j + 1].stamp + Rise(j)
      BY <2>5 DEF Loses
    <3>2. Was(j) = j + 1
      BY <1>1, <2>5
    <3> HIDE DEF Was, Rise
    <3> QED BY <2>1, <2>2, <3>1, <3>2 DEF SameCell
  <2> QED BY <1>1, <2>3, <2>4, <2>5
<1> HIDE DEF Was, Rise
<1>3. LaneOk(k, next, n - 1)
  <2>1. ASSUME NEW j \in 0 .. n - 1
        PROVE  /\ next[j].of \in SUBSET FeedKeys /\ next[j].number \in Nat
               /\ next[j].gen \in Nat /\ next[j].stamp \in Nat
               /\ next[j].gen <= next[n - 1].gen
    <3>1. next[n - 1].gen = lane[n].gen
      BY <1>1, <1>2
    <3>2. lane[Was(j)].stamp + Rise(j) \in Nat
      BY <1>2
    <3> QED BY <1>2, <3>1, <3>2
  <2>2. ASSUME Newest(k), NEW j \in 0 .. n - 1, NEW i \in 0 .. j - 1,
               next[i].gen # 0, next[j].gen # 0
        PROVE  next[i].stamp <= next[j].stamp
    <3>1. /\ i \in 0 .. n - 1 /\ Was(i) \in 0 .. Was(j) - 1 /\ Rise(i) <= Rise(j)
          /\ Was(j) \in 0 .. n
      BY <1>2
    <3>2. lane[Was(i)].gen # 0 /\ lane[Was(j)].gen # 0
      BY <1>2, <2>2, <3>1
    <3>3. lane[Was(i)].stamp <= lane[Was(j)].stamp
      BY <2>2, <3>1, <3>2 DEF LaneOk
    <3>4. /\ next[j].stamp = lane[Was(j)].stamp + Rise(j) /\ Rise(j) \in {0, 1}
          /\ lane[Was(j)].stamp \in Nat
      BY <1>2
    <3>5. /\ next[i].stamp = lane[Was(i)].stamp + Rise(i) /\ Rise(i) \in {0, 1}
          /\ lane[Was(i)].stamp \in Nat
      BY <1>2, <3>1
    <3> QED BY <3>1, <3>3, <3>4, <3>5
  <2>3. next[0].of = {} /\ next[n - 1].of = {} /\ next[0].gen # 0 /\ next[n - 1].gen # 0
    <3>1. next[0].of = lane[0].of /\ next[n - 1].of = lane[n].of
          /\ next[0].gen = lane[0].gen /\ next[n - 1].gen = lane[n].gen
      BY <1>1, <1>2
    <3> QED BY <3>1 DEF LaneOk
  <2> QED BY <1>1, <2>1, <2>2, <2>3 DEF LaneOk
<1>4. ASSUME NEW g, Quiet(lane, n, g) PROVE Quiet(next, n - 1, g)
  <2>1. CASE \A j \in 0 .. n - 1 : lane[j].gen < lane[n].gen
    <3>1. ASSUME NEW j \in 0 .. (n - 1) - 1 PROVE next[j].gen < next[n - 1].gen
      <4>1. j \in 0 .. n - 1 /\ n - 1 \in 0 .. n - 1 /\ j \in 0 .. (n - 1) - 1
        BY <1>1
      <4>2. Was(j) \in 0 .. n - 1
        BY <1>1, <1>2, <4>1
      <4>3. next[j].gen = lane[Was(j)].gen /\ next[n - 1].gen = lane[n].gen
        BY <1>1, <1>2, <4>1
      <4> QED BY <2>1, <4>2, <4>3
    <3> QED BY <3>1 DEF Quiet
  <2>2. CASE \A key \in FeedKeys :
               g.tracker[key].last = 0 /\ \A j \in 1 .. n : ~OnLane(lane, j, key)
    <3>1. ASSUME NEW key \in FeedKeys, NEW j \in 1 .. n - 1 PROVE ~OnLane(next, j, key)
      <4>1. Was(j) \in 1 .. n /\ next[j].of = lane[Was(j)].of
        <5>1. j \in 0 .. n - 1 /\ 0 \in 0 .. j - 1
          OBVIOUS
        <5>2. Was(j) \in 0 .. n /\ Was(0) \in 0 .. Was(j) - 1 /\ next[j].of = lane[Was(j)].of
          BY <1>2, <5>1
        <5> QED BY <5>2
      <4> QED BY <2>2, <4>1 DEF OnLane
    <3> QED BY <2>2, <3>1 DEF Quiet
  <2> QED BY <1>4, <2>1, <2>2 DEF Quiet
<1>5. ASSUME NEW lost \in BOOLEAN, NEW later \in BOOLEAN, NEW j \in d + 1 .. n - 1,
             MarksAt(k, lane, j + 1, lost)
      PROVE  MarksAt(k, next, j, later)
  <2>1. /\ Was(j) = j + 1 /\ Was(j - 1) = j /\ (j + 1) - 1 = j /\ j # 0 /\ j + 1 # 1
        /\ j \in 0 .. n - 1 /\ j - 1 \in 0 .. j - 1
    BY <1>1 DEF Was
  <2>2. /\ next[j].gen = lane[j + 1].gen /\ next[j].stamp = lane[j + 1].stamp + Rise(j)
        /\ lane[j + 1].stamp \in Nat /\ Rise(j) \in {0, 1} /\ Rise(j - 1) <= Rise(j)
        /\ j - 1 \in 0 .. n - 1
    BY <1>2, <2>1
  <2>3. /\ next[j - 1].gen = lane[j].gen /\ next[j - 1].stamp = lane[j].stamp + Rise(j - 1)
        /\ lane[j].stamp \in Nat /\ Rise(j - 1) \in {0, 1}
    BY <1>2, <2>1, <2>2
  <2>4. CASE Newest(k) /\ lane[j + 1].stamp > lane[j].stamp
    <3>1. next[j].stamp > next[j - 1].stamp
      BY <2>2, <2>3, <2>4
    <3> QED BY <2>4, <3>1 DEF MarksAt
  <2> QED BY <1>5, <2>1, <2>2, <2>3, <2>4 DEF MarksAt
<1>6. ASSUME NEW lost \in BOOLEAN, NEW j \in 1 .. d - 1, MarksAt(k, lane, j, lost)
      PROVE  MarksAt(k, next, j, lost)
  <2>1. /\ Was(j) = j /\ Was(j - 1) = j - 1 /\ Rise(j) = 0 /\ Rise(j - 1) = 0
        /\ j \in 0 .. n - 1 /\ j - 1 \in 0 .. n - 1
    BY <1>1 DEF Was, Rise
  <2>2. /\ next[j].gen = lane[j].gen /\ next[j].stamp = lane[j].stamp
        /\ next[j - 1].gen = lane[j - 1].gen /\ next[j - 1].stamp = lane[j - 1].stamp
    BY <1>2, <2>1
  <2> QED BY <1>6, <2>2 DEF MarksAt
<1>7. (\A j \in 0 .. n : lane[j].gen # 0) => \A j \in 0 .. n - 1 : next[j].gen # 0
  BY <1>2
<1> QED BY <1>3, <1>4, <1>5, <1>6, <1>7 DEF Lighter

-------------------------------------------------------------------------------
\* The cells of the lane, one by one.
LEMMA LaneCells ==
  ASSUME NEW k, NEW w, WsShape(k, w), NEW frames \in Seq(FeedFrames(k)), NEW g
  PROVE  /\ LaneEnd(w, frames) \in Nat \ {0} /\ Len(w.queue) \in Nat /\ Len(frames) \in Nat
         /\ LaneEnd(w, frames) = Len(w.queue) + Len(frames) + 1
         /\ Lane(w, frames, g)[0] = Cell({}, 0, g.seen, w.toldDropped)
         /\ \A j \in 1 .. Len(w.queue) : Lane(w, frames, g)[j] = ItemCell(w.queue[j])
         /\ \A j \in Len(w.queue) + 1 .. LaneEnd(w, frames) - 1 :
              Lane(w, frames, g)[j] = FrameCell(frames[j - Len(w.queue)], NextGen(w), w.dropped)
         /\ Lane(w, frames, g)[LaneEnd(w, frames)] = Cell({}, 0, NextGen(w), w.dropped)
<1>1. /\ Len(w.queue) \in Nat /\ Len(frames) \in Nat
      /\ LaneEnd(w, frames) = Len(w.queue) + Len(frames) + 1
  BY DEF WsShape, LaneEnd
<1>2. ASSUME NEW j \in 0 .. LaneEnd(w, frames)
      PROVE  Lane(w, frames, g)[j] =
               IF j = 0 THEN Cell({}, 0, g.seen, w.toldDropped)
               ELSE IF j <= Len(w.queue) THEN ItemCell(w.queue[j])
               ELSE IF j < LaneEnd(w, frames)
                 THEN FrameCell(frames[j - Len(w.queue)], NextGen(w), w.dropped)
               ELSE Cell({}, 0, NextGen(w), w.dropped)
  BY DEF Lane
<1> QED BY <1>1, <1>2
LEMMA LaneLength ==
  ASSUME NEW k, NEW w, WsShape(k, w), NEW frames \in Seq(FeedFrames(k))
  PROVE  /\ LaneEnd(w, frames) \in Nat \ {0} /\ Len(w.queue) \in Nat /\ Len(frames) \in Nat
         /\ LaneEnd(w, frames) = Len(w.queue) + Len(frames) + 1
  BY DEF WsShape, LaneEnd

\* What is sent is a frame of data, which shows an event, or it is the control message.
LEMMA FrameCells ==
  ASSUME NEW k, NEW f \in FeedFrames(k), NEW gen \in Nat, NEW stamp \in Nat
  PROVE  /\ FrameCell(f, gen, stamp).gen = gen /\ FrameCell(f, gen, stamp).stamp = stamp
         /\ FrameCell(f, gen, stamp).of \in SUBSET FeedKeys
         /\ FrameCell(f, gen, stamp).number \in Nat
         /\ FeedPart!IsData(f) <=> f.data
         /\ f.data => /\ f \in DataFrames(k) /\ f.key \in FeedKeys /\ f.number \in Nat \ {0}
                      /\ FrameCell(f, gen, stamp).of = {f.key}
                      /\ FrameCell(f, gen, stamp).number = f.number
         /\ ~f.data => FrameCell(f, gen, stamp).of = {}
<1>1. CASE f \in DataFrames(k)
  <2>1. f.data /\ f.key \in FeedKeys /\ f.number \in Nat \ {0} /\ "data" \in DOMAIN f
    BY <1>1 DEF DataFrames
  <2> QED BY <1>1, <2>1 DEF FrameCell, Cell, FeedPart!IsData
<1>2. CASE f = FeedPart!Control
  <2>1. ~f.data
    BY <1>2 DEF FeedPart!Control
  <2> QED BY <2>1 DEF FrameCell, Cell, FeedPart!IsData
<1> QED BY <1>1, <1>2 DEF FeedFrames

LEMMA ItemCells ==
  ASSUME NEW k, NEW item \in FeedItems(k)
  PROVE  /\ ItemCell(item).gen \in Nat /\ ItemCell(item).stamp \in Nat
         /\ ItemCell(item).of \in SUBSET FeedKeys /\ ItemCell(item).number \in Nat
         /\ item = FeedPart!Closed => ItemCell(item) = Cell({}, 0, 0, 0)
         /\ item # FeedPart!Closed =>
              /\ item.frame \in FeedFrames(k) /\ item.generation \in Nat \ {0}
              /\ item.stamped \in Nat
              /\ ItemCell(item) = FrameCell(item.frame, item.generation, item.stamped)
<1>1. CASE item = FeedPart!Closed
  BY <1>1 DEF ItemCell, Cell
<1>2. CASE item # FeedPart!Closed
  <2>1. item.frame \in FeedFrames(k) /\ item.generation \in Nat \ {0} /\ item.stamped \in Nat
    BY <1>2 DEF FeedItems
  <2>2. ItemCell(item) = FrameCell(item.frame, item.generation, item.stamped)
    BY <1>2 DEF ItemCell
  <2> QED BY <1>2, <2>1, <2>2, FrameCells
<1> QED BY <1>1, <1>2

\* An item that a frame is stamped as is not the end of the stream.
LEMMA StampedItem ==
  ASSUME NEW k, NEW f \in FeedFrames(k), NEW gen \in Nat \ {0}, NEW stamp \in Nat,
         NEW item, item = [frame |-> f, generation |-> gen, stamped |-> stamp]
  PROVE  /\ item \in FeedItems(k) /\ item # FeedPart!Closed
         /\ ItemCell(item) = FrameCell(f, gen, stamp)
<1>1. "frame" \in DOMAIN item /\ "frame" \notin DOMAIN FeedPart!Closed
  BY DEF FeedPart!Closed
<1>2. item # FeedPart!Closed
  BY <1>1
<1> QED BY <1>2 DEF ItemCell, FeedItems

\* The lane has the types that its queue and its wire have.
LaneTyped(w, lane, n, g) ==
  /\ lane[0].of = {} /\ lane[n].of = {}
  /\ lane[0].gen = g.seen /\ lane[0].stamp = w.toldDropped
  /\ lane[n].gen = NextGen(w) /\ lane[n].stamp = w.dropped
  /\ NextGen(w) \in Nat \ {0}
  /\ \A j \in 0 .. n : /\ lane[j].of \in SUBSET FeedKeys /\ lane[j].number \in Nat
                       /\ lane[j].gen \in Nat /\ lane[j].stamp \in Nat
  /\ \A j \in Len(w.queue) + 1 .. n : lane[j].gen = NextGen(w) /\ lane[j].stamp = w.dropped
\* All of this, for a lane by its name.
LaneIs(w, frames, g, lane, n) ==
  /\ lane = Lane(w, frames, g) /\ n = LaneEnd(w, frames)
  /\ LaneTyped(w, lane, n, g)
  /\ n \in Nat \ {0} /\ n = Len(w.queue) + Len(frames) + 1
  /\ Len(w.queue) \in Nat /\ Len(frames) \in Nat
  /\ \A j \in 1 .. Len(w.queue) : lane[j] = ItemCell(w.queue[j])
  /\ \A j \in Len(w.queue) + 1 .. n - 1 :
       lane[j] = FrameCell(frames[j - Len(w.queue)], NextGen(w), w.dropped)
  /\ lane[n] = Cell({}, 0, NextGen(w), w.dropped)
LEMMA LaneTypes ==
  ASSUME NEW k, NEW w, WsShape(k, w), NEW frames \in Seq(FeedFrames(k)), NEW g, GatesShape(g)
  PROVE  LaneTyped(w, Lane(w, frames, g), LaneEnd(w, frames), g)
<1> DEFINE lane == Lane(w, frames, g)
           n == LaneEnd(w, frames)
<1> HIDE DEF lane, n
<1>1. NextGen(w) \in Nat \ {0} /\ w.dropped \in Nat /\ w.toldDropped \in Nat /\ g.seen \in Nat
  BY DEF WsShape, NextGen, GatesShape
<1>2. /\ lane[0].of = {} /\ lane[n].of = {} /\ lane[0].number = 0 /\ lane[n].number = 0
      /\ lane[0].gen = g.seen /\ lane[0].stamp = w.toldDropped
      /\ lane[n].gen = NextGen(w) /\ lane[n].stamp = w.dropped
  <2>1. /\ lane[0] = Cell({}, 0, g.seen, w.toldDropped)
        /\ lane[n] = Cell({}, 0, NextGen(w), w.dropped)
    BY LaneCells DEF lane, n
  <2> QED BY <2>1 DEF Cell
<1>3. ASSUME NEW j \in 1 .. Len(w.queue)
      PROVE  /\ lane[j].of \in SUBSET FeedKeys /\ lane[j].number \in Nat
             /\ lane[j].gen \in Nat /\ lane[j].stamp \in Nat
  <2>1. w.queue[j] \in FeedItems(k) /\ lane[j] = ItemCell(w.queue[j])
    BY LaneCells DEF WsShape, lane
  <2> QED BY <2>1, ItemCells
<1>4. ASSUME NEW j \in Len(w.queue) + 1 .. n - 1
      PROVE  /\ lane[j].of \in SUBSET FeedKeys /\ lane[j].number \in Nat
             /\ lane[j].gen = NextGen(w) /\ lane[j].stamp = w.dropped
  <2>1. j - Len(w.queue) \in 1 .. Len(frames)
    BY LaneLength DEF n
  <2>2. /\ frames[j - Len(w.queue)] \in FeedFrames(k)
        /\ lane[j] = FrameCell(frames[j - Len(w.queue)], NextGen(w), w.dropped)
    BY <2>1, LaneCells DEF lane, n
  <2>3. \A f \in FeedFrames(k) :
          /\ FrameCell(f, NextGen(w), w.dropped).of \in SUBSET FeedKeys
          /\ FrameCell(f, NextGen(w), w.dropped).number \in Nat
          /\ FrameCell(f, NextGen(w), w.dropped).gen = NextGen(w)
          /\ FrameCell(f, NextGen(w), w.dropped).stamp = w.dropped
    BY <1>1, FrameCells
  <2> QED BY <2>2, <2>3
<1>5. n \in Nat \ {0} /\ Len(w.queue) \in Nat /\ Len(w.queue) < n
  BY LaneLength DEF n
<1>6. LaneTyped(w, lane, n, g)
  <2>1. ASSUME NEW j \in 0 .. n
        PROVE  /\ lane[j].of \in SUBSET FeedKeys /\ lane[j].number \in Nat
               /\ lane[j].gen \in Nat /\ lane[j].stamp \in Nat
    <3>1. j = 0 \/ j = n \/ j \in 1 .. Len(w.queue) \/ j \in Len(w.queue) + 1 .. n - 1
      BY <1>5
    <3>2. CASE j = 0 \/ j = n
      BY <1>1, <1>2, <3>2
    <3>3. CASE j \in 1 .. Len(w.queue)
      BY <1>3, <3>3
    <3>4. CASE j \in Len(w.queue) + 1 .. n - 1
      BY <1>1, <1>4, <3>4
    <3> QED BY <3>1, <3>2, <3>3, <3>4
  <2>2. ASSUME NEW j \in Len(w.queue) + 1 .. n
        PROVE  lane[j].gen = NextGen(w) /\ lane[j].stamp = w.dropped
    <3>1. j = n \/ j \in Len(w.queue) + 1 .. n - 1
      BY <1>5
    <3> QED BY <1>2, <1>4, <3>1
  <2> QED BY <1>1, <1>2, <2>1, <2>2 DEF LaneTyped
<1> QED BY <1>6 DEF lane, n

LEMMA LaneFacts ==
  ASSUME NEW k, NEW w, WsShape(k, w), NEW frames \in Seq(FeedFrames(k)), NEW g, GatesShape(g)
  PROVE  LaneIs(w, frames, g, Lane(w, frames, g), LaneEnd(w, frames))
<1> DEFINE lane == Lane(w, frames, g)
           n == LaneEnd(w, frames)
<1>1. LaneTyped(w, lane, n, g)
  BY LaneTypes
<1>2. n \in Nat \ {0} /\ n = Len(w.queue) + Len(frames) + 1
  BY LaneLength
<1>3. Len(w.queue) \in Nat /\ Len(frames) \in Nat
  BY LaneLength
<1>4. \A j \in 1 .. Len(w.queue) : lane[j] = ItemCell(w.queue[j])
  BY LaneCells
<1>5. \A j \in Len(w.queue) + 1 .. n - 1 :
        lane[j] = FrameCell(frames[j - Len(w.queue)], NextGen(w), w.dropped)
  BY LaneCells
<1>6. lane[n] = Cell({}, 0, NextGen(w), w.dropped)
  BY LaneCells
<1>7. lane = Lane(w, frames, g) /\ n = LaneEnd(w, frames)
  OBVIOUS
<1> HIDE DEF lane, n
<1>8. LaneIs(w, frames, g, lane, n)
  BY <1>1, <1>2, <1>3, <1>4, <1>5, <1>6, <1>7 DEF LaneIs
<1> QED BY <1>8 DEF lane, n

\* Nothing of the lane changes with the number of attempts, nor when a connection is found.
LEMMA SameLane ==
  ASSUME NEW k, NEW w, NEW next, NEW frames, NEW g, NEW pub, NEW had,
         LaneInv(k, w, frames, g, pub, had),
         next.queue = w.queue, next.dropped = w.dropped, next.toldDropped = w.toldDropped,
         next.evicted = w.evicted, next.toldEvicted = w.toldEvicted,
         NextGen(next) = NextGen(w), next.state # "connected" => w.state # "connected",
         next.state # "failed" => w.state # "failed"
  PROVE  LaneInv(k, next, frames, g, pub, had)
<1>1. LaneEnd(next, frames) = LaneEnd(w, frames)
  BY DEF LaneEnd
<1>2. Lane(next, frames, g) = Lane(w, frames, g)
  BY <1>1, Zenon DEF Lane
<1>3. LostYet(k, next) = LostYet(k, w)
  BY Zenon DEF LostYet
<1> QED BY <1>1, <1>2, <1>3 DEF LaneInv

\* A frame that is read and put: the lane only moves from the wire to the queue.
LEMMA ReadFrame ==
  ASSUME NEW k, NEW w, WsShape(k, w), w.state = "connected",
         NEW frames \in Seq(FeedFrames(k)), frames # <<>>, NEW g, NEW pub, NEW had,
         LaneInv(k, w, frames, g, pub, had),
         NEW item, item = [frame |-> Head(frames), generation |-> w.generation,
                           stamped |-> w.dropped]
  PROVE  /\ LaneInv(k, FeedPart!PutIn(w, item), Tail(frames), g, pub, had)
         /\ WsShape(k, FeedPart!PutIn(w, item)) /\ Tail(frames) \in Seq(FeedFrames(k))
<1> DEFINE next == FeedPart!PutIn(w, item)
<1>1. next = [w EXCEPT !.queue = Append(w.queue, item)]
  BY DEF FeedPart!PutIn
<1>2. Head(frames) \in FeedFrames(k) /\ Head(frames) = frames[1] /\ Len(frames) \in Nat \ {0}
  BY HeadTailProperties
<1>3. /\ item \in FeedItems(k)
      /\ ItemCell(item) = FrameCell(frames[1], w.generation, w.dropped)
  BY <1>2, StampedItem DEF WsShape
<1>4. /\ next.queue = Append(w.queue, item) /\ DOMAIN next = DOMAIN w
      /\ next.dropped = w.dropped /\ next.toldDropped = w.toldDropped
      /\ next.evicted = w.evicted /\ next.toldEvicted = w.toldEvicted
      /\ next.generation = w.generation /\ next.state = w.state
  BY <1>1 DEF WsShape
<1> HIDE DEF next
<1>5. WsShape(k, next) /\ Tail(frames) \in Seq(FeedFrames(k))
  BY <1>2, <1>3, <1>4, HeadTailProperties, AppendProperties DEF WsShape
<1>6. /\ Len(next.queue) = Len(w.queue) + 1 /\ Len(Tail(frames)) = Len(frames) - 1
      /\ Len(w.queue) \in Nat
      /\ \A i \in 1 .. Len(w.queue) : next.queue[i] = w.queue[i]
      /\ next.queue[Len(w.queue) + 1] = item
      /\ \A i \in 1 .. Len(frames) - 1 : Tail(frames)[i] = frames[i + 1]
  BY <1>2, <1>3, <1>4, HeadTailProperties, AppendProperties DEF WsShape
<1>7. LaneEnd(next, Tail(frames)) = LaneEnd(w, frames) /\ NextGen(next) = NextGen(w)
      /\ NextGen(w) = w.generation
  BY <1>2, <1>4, <1>6 DEF LaneEnd, NextGen
<1>8. Lane(next, Tail(frames), g) = Lane(w, frames, g)
  <2> DEFINE n == LaneEnd(w, frames)
  <2>1. n \in Nat /\ n = Len(w.queue) + Len(frames) + 1
    BY LaneCells
  <2> HIDE DEF n
  <2>2. ASSUME NEW j \in 0 .. n
        PROVE  (IF j = 0 THEN Cell({}, 0, g.seen, next.toldDropped)
                ELSE IF j <= Len(next.queue) THEN ItemCell(next.queue[j])
                ELSE IF j < n
                  THEN FrameCell(Tail(frames)[j - Len(next.queue)], NextGen(next), next.dropped)
                ELSE Cell({}, 0, NextGen(next), next.dropped)) =
               (IF j = 0 THEN Cell({}, 0, g.seen, w.toldDropped)
                ELSE IF j <= Len(w.queue) THEN ItemCell(w.queue[j])
                ELSE IF j < n
                  THEN FrameCell(frames[j - Len(w.queue)], NextGen(w), w.dropped)
                ELSE Cell({}, 0, NextGen(w), w.dropped))
    <3>1. CASE j <= Len(w.queue)
      BY <1>4, <1>6, <3>1
    <3>2. CASE j = Len(w.queue) + 1
      <4>1. j # 0 /\ j <= Len(next.queue) /\ ~(j <= Len(w.queue)) /\ j < n
            /\ j - Len(w.queue) = 1
        BY <1>2, <1>6, <2>1, <3>2
      <4>2. next.queue[j] = item
        BY <1>6, <3>2
      <4> QED BY <1>3, <1>7, <4>1, <4>2
    <3>3. CASE j > Len(w.queue) + 1
      <4>1. j # 0 /\ ~(j <= Len(next.queue)) /\ ~(j <= Len(w.queue))
        BY <1>6, <3>3
      <4>2. CASE j < n
        <5>1. j - Len(next.queue) \in 1 .. Len(frames) - 1
              /\ (j - Len(next.queue)) + 1 = j - Len(w.queue)
          BY <1>6, <2>1, <3>3, <4>2
        <5>2. Tail(frames)[j - Len(next.queue)] = frames[j - Len(w.queue)]
          BY <1>6, <5>1
        <5> QED BY <1>4, <1>7, <4>1, <4>2, <5>2
      <4>3. CASE ~(j < n)
        BY <1>4, <1>7, <4>1, <4>3
      <4> QED BY <4>2, <4>3
    <3> QED BY <1>6, <2>1, <3>1, <3>2, <3>3
  <2> QED BY <1>7, <2>2, Zenon DEF Lane, n
<1>9. LostYet(k, next) = LostYet(k, w)
  BY <1>4, Zenon DEF LostYet
<1>10. LaneInv(k, next, Tail(frames), g, pub, had)
  BY <1>4, <1>7, <1>8, <1>9 DEF LaneInv
<1> QED BY <1>5, <1>10 DEF next

\* A lane that loses the cell at d keeps what holds of a lane, where the one behind it marks.
LosesOne(k, w, frames, next, behind, g, d) ==
  /\ \E b \in Nat : Loses(Lane(w, frames, g), LaneEnd(w, frames), Lane(next, behind, g), d, b)
  /\ LaneEnd(next, behind) = LaneEnd(w, frames) - 1 /\ next.state = w.state
  /\ MarksAt(k, Lane(next, behind, g), d, LostYet(k, next))
  /\ d = 1 \/ LostYet(k, w) = LostYet(k, next)
LEMMA LosesOneKept ==
  ASSUME NEW k, NEW w, WsShape(k, w), NEW frames \in Seq(FeedFrames(k)), NEW g, GatesShape(g),
         NEW pub \in [FeedKeys -> SUBSET Nat], NEW had, LaneInv(k, w, frames, g, pub, had),
         NEW next, WsShape(k, next), NEW behind \in Seq(FeedFrames(k)),
         NEW d \in Nat, LosesOne(k, w, frames, next, behind, g, d)
  PROVE  LaneInv(k, next, behind, g, pub, had)
<1> DEFINE lane == Lane(w, frames, g)
           n == LaneEnd(w, frames)
           then == Lane(next, behind, g)
           lost == LostYet(k, w)
           later == LostYet(k, next)
<1>1. n \in Nat /\ LaneEnd(next, behind) = n - 1 /\ next.state = w.state
  BY LaneLength DEF LosesOne
<1>2. LaneOk(k, lane, n)
  BY DEF LaneInv
<1>3. /\ w.state # "connected" => Quiet(lane, n, g)
      /\ w.state # "failed" => \A j \in 0 .. n : lane[j].gen # 0
  BY DEF LaneInv
<1>4. then[0].number \in Nat /\ then[n - 1].of = {}
  <2>1. LaneTyped(next, then, n - 1, g)
    BY <1>1, LaneTypes
  <2>2. 0 \in 0 .. n - 1
    <3>1. LaneEnd(next, behind) \in Nat
      BY LaneLength
    <3> QED BY <1>1, <3>1
  <2> QED BY <2>1, <2>2 DEF LaneTyped
<1>5. PICK b \in Nat : Loses(lane, n, then, d, b)
  BY DEF LosesOne
<1>6. lost \in BOOLEAN /\ later \in BOOLEAN
  BY DEF LostYet
<1>7. MarksAt(k, then, d, later) /\ (d = 1 \/ lost = later)
  BY DEF LosesOne
<1>8. \A key \in FeedKeys : KeyLane(k, lane, n, key, g.tracker[key].last, had[key], pub[key], lost,
                                     key \in g.reconnected)
  BY DEF LaneInv
<1> HIDE DEF lane, n, then, lost, later
<1>16. Lighter(k, lane, n, then, d)
  BY <1>1, <1>2, <1>4, <1>5, LaneLoses
<1>9. /\ LaneOk(k, then, n - 1)
      /\ \A h : Quiet(lane, n, h) => Quiet(then, n - 1, h)
      /\ (\A j \in 0 .. n : lane[j].gen # 0) => \A j \in 0 .. n - 1 : then[j].gen # 0
      /\ \A x, y \in BOOLEAN :
           /\ \A j \in d + 1 .. n - 1 : MarksAt(k, lane, j + 1, x) => MarksAt(k, then, j, y)
           /\ x = y => \A j \in 1 .. d - 1 : MarksAt(k, lane, j, x) => MarksAt(k, then, j, y)
  BY <1>16 DEF Lighter
<1>10. \A j \in d + 1 .. n - 1 : MarksAt(k, lane, j + 1, lost) => MarksAt(k, then, j, later)
  BY <1>6, <1>9
<1>11. \A j \in 1 .. d - 1 : MarksAt(k, lane, j, lost) => MarksAt(k, then, j, later)
  <2>1. CASE d = 1
    BY <2>1
  <2>2. CASE lost = later
    BY <1>6, <1>9, <2>2
  <2> QED BY <1>7, <2>1, <2>2
<1>12. /\ d \in 1 .. n - 1
       /\ \A j \in 1 .. d - 1 : SameCell(then[j], lane[j])
       /\ \A j \in d .. n - 1 : SameCell(then[j], lane[j + 1])
  BY <1>5 DEF Loses
<1>17. TakenOut(k, lane, n, then, d, lost, later)
  BY <1>4, <1>7, <1>10, <1>11, <1>12 DEF TakenOut
<1>13. ASSUME NEW key \in FeedKeys
       PROVE  KeyLane(k, then, n - 1, key, g.tracker[key].last, had[key], pub[key], later,
                      key \in g.reconnected)
  <2> DEFINE marked == key \in g.reconnected
             last == g.tracker[key].last
             old == had[key]
             seen == pub[key]
  <2>1. last \in Nat /\ seen \in SUBSET Nat /\ marked \in BOOLEAN
    BY DEF GatesShape, FeedTrackers
  <2>2. KeyLane(k, lane, n, key, last, old, seen, lost, marked)
    BY <1>8
  <2> HIDE DEF marked, last, old, seen
  <2>3. KeyLane(k, then, n - 1, key, last, old, seen, later, marked)
    BY <1>1, <1>2, <1>6, <1>12, <1>17, <2>1, <2>2, CellTakenOut
  <2> QED BY <2>3 DEF marked, last, old, seen
<1>14. /\ next.state # "connected" => Quiet(then, n - 1, g)
       /\ next.state # "failed" => \A j \in 0 .. n - 1 : then[j].gen # 0
  BY <1>1, <1>3, <1>9
<1>15. then = Lane(next, behind, g) /\ n - 1 = LaneEnd(next, behind) /\ later = LostYet(k, next)
  BY <1>1 DEF then, later
<1> QED BY <1>9, <1>13, <1>14, <1>15 DEF LaneInv

\* The oldest item is given up, and the loss is not told yet.
GivesUp(k, w, next) ==
  /\ DOMAIN next = DOMAIN w
  /\ next.queue = Tail(w.queue) /\ next.dropped = w.dropped + 1
  /\ next.evicted \in {w.evicted, w.evicted + 1} /\ (Newest(k) => next.evicted = w.evicted + 1)
  /\ next.toldDropped = w.toldDropped /\ next.toldEvicted = w.toldEvicted
  /\ next.generation = w.generation /\ next.state = w.state
LEMMA OldestGivenUp ==
  ASSUME NEW k, k \in FeedPart!Kinds,
         NEW w, WsShape(k, w), NEW frames \in Seq(FeedFrames(k)), NEW g, GatesShape(g),
         NEW pub \in [FeedKeys -> SUBSET Nat], NEW had,
         LaneInv(k, w, frames, g, pub, had), w.queue # <<>>,
         NEW next, GivesUp(k, w, next)
  PROVE  WsShape(k, next) /\ LaneInv(k, next, frames, g, pub, had)
<1> DEFINE lane == Lane(w, frames, g)
           n == LaneEnd(w, frames)
           then == Lane(next, frames, g)
<1>1. /\ Len(w.queue) \in Nat \ {0} /\ Len(next.queue) = Len(w.queue) - 1
      /\ next.queue \in Seq(FeedItems(k))
      /\ \A i \in 1 .. Len(next.queue) : next.queue[i] = w.queue[i + 1]
  BY HeadTailProperties DEF WsShape, GivesUp
<1>2. WsShape(k, next)
  BY <1>1 DEF WsShape, GivesUp
<1>3. /\ NextGen(next) = NextGen(w) /\ next.dropped = w.dropped + 1
      /\ next.toldDropped = w.toldDropped /\ next.state = w.state
  BY DEF NextGen, GivesUp
<1>4. LaneIs(w, frames, g, lane, n)
  BY LaneFacts
<1>5. LaneIs(next, frames, g, then, LaneEnd(next, frames))
  BY <1>2, LaneFacts
<1>6. Len(w.queue) \in Nat \ {0} /\ Len(next.queue) = Len(w.queue) - 1
  BY <1>1
<1>7. LaneOk(k, lane, n) /\ w.dropped \in Nat
  BY DEF LaneInv, WsShape
<1> HIDE DEF lane, n, then
<1>8. LaneEnd(next, frames) = n - 1 /\ n \in Nat /\ n >= 2 /\ n > Len(w.queue)
  BY <1>1, <1>4, <1>5 DEF LaneIs
<1>9. /\ LaneTyped(next, then, n - 1, g)
      /\ \A j \in 1 .. Len(next.queue) : then[j] = ItemCell(next.queue[j])
      /\ \A j \in Len(next.queue) + 1 .. n - 2 :
           then[j] = FrameCell(frames[j - Len(next.queue)], NextGen(next), next.dropped)
      /\ then[n - 1] = Cell({}, 0, NextGen(next), next.dropped)
  <2>1. (n - 1) - 1 = n - 2
    BY <1>8
  <2> QED BY <1>5, <1>8, <2>1 DEF LaneIs
<1>20. /\ lane[0].of = {} /\ lane[n].of = {}
       /\ lane[0].gen = g.seen /\ lane[0].stamp = w.toldDropped
       /\ lane[n].gen = NextGen(w) /\ lane[n].stamp = w.dropped
       /\ NextGen(w) \in Nat \ {0}
       /\ \A j \in 0 .. n : /\ lane[j].of \in SUBSET FeedKeys /\ lane[j].number \in Nat
                            /\ lane[j].gen \in Nat /\ lane[j].stamp \in Nat
       /\ \A j \in Len(w.queue) + 1 .. n : lane[j].gen = NextGen(w) /\ lane[j].stamp = w.dropped
  BY <1>4 DEF LaneIs, LaneTyped
<1>21. /\ then[0].of = {} /\ then[n - 1].of = {}
       /\ then[0].gen = lane[0].gen /\ then[0].stamp = lane[0].stamp
       /\ then[n - 1].gen = lane[n].gen
       /\ \A j \in 0 .. n - 1 : /\ then[j].of \in SUBSET FeedKeys /\ then[j].number \in Nat
                                /\ then[j].gen \in Nat /\ then[j].stamp \in Nat
       /\ \A j \in Len(w.queue) .. n - 1 : then[j].stamp = w.dropped + 1
  <2>1. Len(next.queue) + 1 = Len(w.queue)
    BY <1>1
  <2> QED BY <1>3, <1>9, <1>20, <2>1 DEF LaneTyped
<1>22. ASSUME NEW j \in 1 .. n - 1
       PROVE  /\ SameCell(then[j], lane[j + 1]) /\ then[j].gen = lane[j + 1].gen
              /\ j < Len(w.queue) => then[j].stamp = lane[j + 1].stamp
  <2>1. CASE j < Len(w.queue)
    <3>1. j \in 1 .. Len(next.queue) /\ j + 1 \in 1 .. Len(w.queue)
      BY <1>1, <2>1
    <3>2. then[j] = lane[j + 1]
      BY <1>1, <1>4, <1>9, <3>1 DEF LaneIs
    <3> QED BY <3>2 DEF SameCell
  <2>2. CASE j >= Len(w.queue) /\ j < n - 1
    <3>1. /\ j \in Len(next.queue) + 1 .. n - 2
          /\ j + 1 \in Len(w.queue) + 1 .. n - 1
          /\ j - Len(next.queue) = (j + 1) - Len(w.queue)
      BY <1>6, <1>8, <2>2
    <3>2. /\ then[j] = FrameCell(frames[j - Len(next.queue)], NextGen(w), w.dropped + 1)
          /\ lane[j + 1] = FrameCell(frames[j - Len(next.queue)], NextGen(w), w.dropped)
      BY <1>3, <1>4, <1>9, <3>1 DEF LaneIs
    <3> QED BY <2>2, <3>2 DEF FrameCell, Cell, SameCell
  <2>3. CASE j = n - 1
    <3>1. then[j] = Cell({}, 0, NextGen(w), w.dropped + 1) /\ j + 1 = n
      BY <1>3, <1>8, <1>9, <2>3
    <3>2. ~(j < Len(w.queue))
      BY <1>1, <1>8, <2>3
    <3> QED BY <1>4, <3>1, <3>2 DEF Cell, SameCell, LaneIs
  <2> QED BY <1>1, <1>8, <2>1, <2>2, <2>3
<1>23. Loses(lane, n, then, 1, Len(w.queue))
  <2>1. 1 \in 1 .. n - 1 /\ Len(w.queue) \in 1 .. n - 1 /\ 1 .. 1 - 1 = {}
    BY <1>1, <1>8
  <2>2. ASSUME NEW j \in 1 .. n - 1
        PROVE  then[j].stamp = lane[j + 1].stamp + (IF j >= Len(w.queue) THEN 1 ELSE 0)
    <3>1. CASE j >= Len(w.queue)
      <4>1. then[j].stamp = w.dropped + 1
        BY <1>1, <1>21, <3>1
      <4>2. lane[j + 1].stamp = w.dropped
        BY <1>1, <1>8, <1>20, <3>1
      <4> QED BY <3>1, <4>1, <4>2
    <3>2. CASE j < Len(w.queue)
      <4>1. then[j].stamp = lane[j + 1].stamp /\ lane[j + 1].stamp \in Nat
        BY <1>8, <1>20, <1>22, <3>2
      <4> QED BY <1>1, <3>2, <4>1
    <3> QED BY <1>1, <3>1, <3>2
  <2> QED BY <1>21, <1>22, <2>1, <2>2 DEF Loses
<1>24. MarksAt(k, then, 1, LostYet(k, next))
  <2>1. LostYet(k, next)
    BY DEF LostYet, WsShape, GivesUp
  <2> QED BY <2>1 DEF MarksAt
<1>25. LosesOne(k, w, frames, next, frames, g, 1)
  <2>1. Len(w.queue) \in Nat /\ LaneEnd(next, frames) = LaneEnd(w, frames) - 1
    BY <1>1, <1>8 DEF n
  <2>2. /\ Loses(Lane(w, frames, g), LaneEnd(w, frames), Lane(next, frames, g), 1, Len(w.queue))
        /\ MarksAt(k, Lane(next, frames, g), 1, LostYet(k, next))
    BY <1>23, <1>24 DEF lane, n, then
  <2> QED BY <1>3, <2>1, <2>2 DEF LosesOne
<1> QED BY <1>2, <1>25, LosesOneKept

\* The frame read is not put, and the loss is counted: the next one is stamped with it.
Discards(w, next) ==
  /\ DOMAIN next = DOMAIN w /\ next.queue = w.queue /\ next.dropped = w.dropped + 1
  /\ next.evicted = w.evicted /\ next.toldDropped = w.toldDropped
  /\ next.toldEvicted = w.toldEvicted
  /\ next.generation = w.generation /\ next.state = w.state
LEMMA NewestDiscarded ==
  ASSUME NEW k, Newest(k), NEW w, WsShape(k, w), NEW frames \in Seq(FeedFrames(k)), frames # <<>>,
         NEW g, GatesShape(g), NEW pub \in [FeedKeys -> SUBSET Nat], NEW had,
         LaneInv(k, w, frames, g, pub, had), NEW next, Discards(w, next)
  PROVE  /\ WsShape(k, next) /\ Tail(frames) \in Seq(FeedFrames(k))
         /\ LaneInv(k, next, Tail(frames), g, pub, had)
<1> DEFINE lane == Lane(w, frames, g)
           n == LaneEnd(w, frames)
           behind == Tail(frames)
           then == Lane(next, behind, g)
           d == Len(w.queue) + 1
<1>1. WsShape(k, next)
  BY DEF WsShape, Discards
<1>2. /\ Len(frames) \in Nat \ {0} /\ behind \in Seq(FeedFrames(k))
      /\ Len(behind) = Len(frames) - 1
      /\ \A i \in 1 .. Len(behind) : behind[i] = frames[i + 1]
  BY HeadTailProperties
<1> HIDE DEF behind
<1>3. /\ NextGen(next) = NextGen(w) /\ next.dropped = w.dropped + 1
      /\ next.toldDropped = w.toldDropped /\ next.state = w.state /\ next.queue = w.queue
      /\ LostYet(k, next) = LostYet(k, w)
  BY DEF NextGen, Discards, LostYet
<1>4. LaneIs(w, frames, g, lane, n)
  BY LaneFacts
<1>5. LaneIs(next, behind, g, then, LaneEnd(next, behind))
  BY <1>1, <1>2, LaneFacts
<1>6. LaneOk(k, lane, n) /\ w.dropped \in Nat
  BY DEF LaneInv, WsShape
<1> HIDE DEF lane, n, then
<1>7. /\ LaneEnd(next, behind) = n - 1 /\ n \in Nat /\ d \in 1 .. n - 1 /\ Len(w.queue) \in Nat
      /\ n = Len(w.queue) + Len(frames) + 1
  BY <1>2, <1>3, <1>4, <1>5 DEF LaneIs
<1>8. /\ LaneTyped(next, then, n - 1, g)
      /\ \A j \in 1 .. Len(w.queue) : then[j] = ItemCell(w.queue[j])
      /\ \A j \in d .. n - 2 :
           then[j] = FrameCell(behind[j - Len(w.queue)], NextGen(w), w.dropped + 1)
      /\ then[n - 1] = Cell({}, 0, NextGen(w), w.dropped + 1)
  <2>1. (n - 1) - 1 = n - 2
    BY <1>7
  <2> QED BY <1>3, <1>5, <1>7, <2>1 DEF LaneIs
<1>9. ASSUME NEW j \in 1 .. d - 1
      PROVE  /\ SameCell(then[j], lane[j]) /\ then[j].gen = lane[j].gen
             /\ then[j].stamp = lane[j].stamp
  <2>1. j \in 1 .. Len(w.queue)
    BY <1>7
  <2>2. then[j] = lane[j]
    BY <1>4, <1>8, <2>1 DEF LaneIs
  <2> QED BY <2>2 DEF SameCell
<1>10. ASSUME NEW j \in d .. n - 1
       PROVE  /\ SameCell(then[j], lane[j + 1]) /\ then[j].gen = lane[j + 1].gen
              /\ then[j].stamp = lane[j + 1].stamp + (IF j >= d THEN 1 ELSE 0)
  <2>1. j >= d
    BY <1>7
  <2>2. CASE j < n - 1
    <3>1. /\ j \in d .. n - 2 /\ j + 1 \in Len(w.queue) + 1 .. n - 1
          /\ (j + 1) - Len(w.queue) = (j - Len(w.queue)) + 1
          /\ j - Len(w.queue) \in 1 .. Len(behind)
      BY <1>2, <1>7, <2>2
    <3>2. then[j] = FrameCell(behind[j - Len(w.queue)], NextGen(w), w.dropped + 1)
      BY <1>8, <3>1
    <3>3. lane[j + 1] = FrameCell(frames[(j - Len(w.queue)) + 1], NextGen(w), w.dropped)
      BY <1>4, <3>1 DEF LaneIs
    <3>4. behind[j - Len(w.queue)] = frames[(j - Len(w.queue)) + 1]
      BY <1>2, <3>1
    <3> QED BY <2>1, <3>2, <3>3, <3>4 DEF FrameCell, Cell, SameCell
  <2>3. CASE j = n - 1
    <3>1. then[j] = Cell({}, 0, NextGen(w), w.dropped + 1) /\ j + 1 = n
      BY <1>7, <1>8, <2>3
    <3>2. lane[n] = Cell({}, 0, NextGen(w), w.dropped)
      BY <1>4 DEF LaneIs
    <3> QED BY <2>1, <3>1, <3>2 DEF Cell, SameCell
  <2> QED BY <1>7, <2>2, <2>3
<1>11. /\ then[0].of = {} /\ then[0].gen = lane[0].gen /\ then[0].stamp = lane[0].stamp
  <2>1. LaneTyped(w, lane, n, g)
    BY <1>4 DEF LaneIs
  <2> QED BY <1>3, <1>8, <2>1 DEF LaneTyped
<1>12. Loses(lane, n, then, d, d)
  <2>1. d \in d .. n - 1
    BY <1>7
  <2> QED BY <1>7, <1>9, <1>10, <1>11, <2>1 DEF Loses
<1>13. MarksAt(k, then, d, LostYet(k, next))
  <2>1. /\ then[d].gen = lane[n].gen /\ then[d].stamp = w.dropped + 1
        /\ lane[n].stamp = w.dropped /\ lane[n].gen # 0
    <3>1. LaneTyped(w, lane, n, g) /\ Len(next.queue) + 1 = d /\ d \in d .. n - 1
      BY <1>3, <1>4, <1>7 DEF LaneIs
    <3> QED BY <1>3, <1>8, <3>1 DEF LaneTyped
  <2>2. then[d - 1].gen = lane[d - 1].gen /\ then[d - 1].stamp = lane[d - 1].stamp
    <3>1. d - 1 = 0 \/ d - 1 \in 1 .. d - 1
      BY <1>7
    <3> QED BY <1>9, <1>11, <3>1
  <2>3. CASE lane[d - 1].gen = lane[n].gen
    <3>1. d - 1 \in 0 .. n - 1 /\ n \in 0 .. n
      BY <1>7
    <3>2. lane[d - 1].stamp <= lane[n].stamp /\ lane[d - 1].stamp \in Nat
      BY <1>6, <2>1, <2>3, <3>1 DEF LaneOk
    <3>3. then[d].stamp > then[d - 1].stamp
      BY <1>6, <2>1, <2>2, <3>2
    <3> QED BY <3>3 DEF MarksAt
  <2>4. CASE lane[d - 1].gen # lane[n].gen
    BY <2>1, <2>2, <2>4 DEF MarksAt
  <2> QED BY <2>3, <2>4
<1>14. LosesOne(k, w, frames, next, behind, g, d)
  <2>1. LaneEnd(next, behind) = LaneEnd(w, frames) - 1
    BY <1>7 DEF n
  <2>2. /\ Loses(Lane(w, frames, g), LaneEnd(w, frames), Lane(next, behind, g), d, d)
        /\ MarksAt(k, Lane(next, behind, g), d, LostYet(k, next))
    BY <1>12, <1>13 DEF lane, n, then
  <2>3. d \in Nat
    BY <1>7
  <2> QED BY <1>3, <2>1, <2>2, <2>3 DEF LosesOne
<1>15. LaneInv(k, next, behind, g, pub, had)
  <2>1. d \in Nat
    BY <1>7
  <2> HIDE DEF d
  <2> QED BY <1>1, <1>2, <1>14, <2>1, LosesOneKept
<1> QED BY <1>1, <1>2, <1>15 DEF behind

\* The end of the stream is put in when the transport has failed.
Closes(w, next) ==
  /\ DOMAIN next = DOMAIN w
  /\ next.queue = Append(w.queue, FeedPart!Closed) /\ next.dropped = w.dropped
  /\ next.evicted = w.evicted /\ next.toldDropped = w.toldDropped
  /\ next.toldEvicted = w.toldEvicted
  /\ next.generation = w.generation /\ next.state = "failed"
LEMMA ClosedPutIn ==
  ASSUME NEW k, NEW w, WsShape(k, w), w.state \notin {"connected", "failed"}, NEW g, GatesShape(g),
         NEW pub \in [FeedKeys -> SUBSET Nat], NEW had, LaneInv(k, w, <<>>, g, pub, had),
         NEW next, Closes(w, next)
  PROVE  WsShape(k, next) /\ LaneInv(k, next, <<>>, g, pub, had)
<1> DEFINE lane == Lane(w, <<>>, g)
           n == LaneEnd(w, <<>>)
           then == Lane(next, <<>>, g)
           lost == LostYet(k, w)
<1>1. <<>> \in Seq(FeedFrames(k)) /\ Len(<<>>) = 0
  OBVIOUS
<1>2. FeedPart!Closed \in FeedItems(k)
  BY DEF FeedItems
<1>3. /\ next.queue \in Seq(FeedItems(k)) /\ Len(next.queue) = Len(w.queue) + 1
      /\ Len(w.queue) \in Nat
      /\ \A i \in 1 .. Len(w.queue) : next.queue[i] = w.queue[i]
      /\ next.queue[Len(w.queue) + 1] = FeedPart!Closed
  BY <1>2, AppendProperties DEF WsShape, Closes
<1>4. WsShape(k, next)
  BY <1>3 DEF WsShape, Closes
<1>5. NextGen(next) = NextGen(w) /\ LostYet(k, next) = lost
  BY DEF NextGen, LostYet, Closes
<1>6. LaneIs(w, <<>>, g, lane, n)
  BY <1>1, LaneFacts
<1>7. LaneIs(next, <<>>, g, then, LaneEnd(next, <<>>))
  BY <1>1, <1>4, LaneFacts
<1>8. LaneOk(k, lane, n)
  BY DEF LaneInv
<1>9. Quiet(lane, n, g) /\ \A j \in 0 .. n : lane[j].gen # 0
  BY DEF LaneInv
<1>10. \A key \in FeedKeys : KeyLane(k, lane, n, key, g.tracker[key].last, had[key], pub[key], lost,
                                     key \in g.reconnected)
  BY DEF LaneInv
<1>11. lost \in BOOLEAN
  BY DEF LostYet
<1> HIDE DEF lane, n, then, lost
<1>12. n = Len(w.queue) + 1 /\ n \in Nat \ {0} /\ LaneEnd(next, <<>>) = n + 1
       /\ Len(next.queue) = n
  BY <1>1, <1>3, <1>6, <1>7 DEF LaneIs
<1>13. LaneTyped(next, then, n + 1, g) /\ LaneTyped(w, lane, n, g)
  BY <1>6, <1>7, <1>12 DEF LaneIs
<1>14. ASSUME NEW j \in 1 .. n - 1 PROVE then[j] = lane[j]
  <2>1. j \in 1 .. Len(w.queue) /\ j \in 1 .. Len(next.queue)
    BY <1>3, <1>12
  <2>2. then[j] = ItemCell(next.queue[j])
    BY <1>7, <2>1 DEF LaneIs
  <2>3. lane[j] = ItemCell(w.queue[j])
    BY <1>6, <2>1 DEF LaneIs
  <2> QED BY <1>3, <2>1, <2>2, <2>3
<1>15. then[n] = Cell({}, 0, 0, 0)
  <2>1. n \in 1 .. Len(next.queue) /\ next.queue[n] = FeedPart!Closed
    BY <1>3, <1>12
  <2>2. then[n] = ItemCell(next.queue[n])
    BY <1>7, <2>1 DEF LaneIs
  <2> QED BY <2>1, <2>2 DEF ItemCell
<1>16. /\ then[n].of = {} /\ then[n].number = 0 /\ then[n].gen = 0 /\ then[n].stamp = 0
  BY <1>15 DEF Cell
<1>17. /\ then[0].of = {} /\ then[0].gen = lane[0].gen /\ then[0].stamp = lane[0].stamp
       /\ then[n + 1].of = {} /\ then[n + 1].gen = lane[n].gen
       /\ then[n + 1].stamp = lane[n].stamp
       /\ \A j \in 0 .. n + 1 : /\ then[j].of \in SUBSET FeedKeys /\ then[j].number \in Nat
                                /\ then[j].gen \in Nat /\ then[j].stamp \in Nat
       /\ lane[n].gen \in Nat \ {0} /\ lane[0].gen # 0
  <2>1. next.toldDropped = w.toldDropped /\ next.dropped = w.dropped
    BY DEF Closes
  <2>2. lane[0].gen # 0
    BY <1>8 DEF LaneOk
  <2> QED BY <1>5, <1>13, <2>1, <2>2 DEF LaneTyped
<1>18. ASSUME NEW j \in 0 .. n - 1
       PROVE  then[j].gen = lane[j].gen /\ then[j].stamp = lane[j].stamp
  <2>1. j = 0 \/ j \in 1 .. n - 1
    OBVIOUS
  <2> QED BY <1>14, <1>17, <2>1
<1>19. LaneOk(k, then, n + 1)
  <2>1. ASSUME NEW j \in 0 .. n + 1 PROVE then[j].gen <= then[n + 1].gen
    <3>1. CASE j \in 0 .. n - 1
      BY <1>8, <1>12, <1>17, <1>18, <3>1 DEF LaneOk
    <3>2. CASE j = n
      BY <1>16, <1>17, <3>2
    <3>3. CASE j = n + 1
      BY <1>17, <3>3
    <3> QED BY <1>12, <3>1, <3>2, <3>3
  <2>2. ASSUME Newest(k), NEW j \in 0 .. n + 1, NEW i \in 0 .. j - 1,
               then[i].gen # 0, then[j].gen # 0
        PROVE  then[i].stamp <= then[j].stamp
    <3>1. i # n /\ j # n
      BY <1>16, <2>2
    <3>2. i \in 0 .. n - 1
      BY <1>12, <3>1
    <3>3. CASE j \in 0 .. n - 1
      <4>1. j \in 0 .. n
        BY <1>12, <3>3
      <4> QED BY <1>8, <1>18, <2>2, <3>2, <3>3, <4>1 DEF LaneOk
    <3>4. CASE j = n + 1
      <4>1. n \in 0 .. n
        BY <1>12
      <4> QED BY <1>8, <1>17, <1>18, <2>2, <3>2, <3>4, <4>1 DEF LaneOk
    <3> QED BY <1>12, <3>1, <3>3, <3>4
  <2>3. n + 1 \in Nat \ {0}
    BY <1>12
  <2> QED BY <1>17, <2>1, <2>2, <2>3 DEF LaneOk
<1>20. Quiet(then, n + 1, g)
  <2>1. CASE \A j \in 0 .. n - 1 : lane[j].gen < lane[n].gen
    <3>1. ASSUME NEW j \in 0 .. n PROVE then[j].gen < then[n + 1].gen
      <4>1. CASE j \in 0 .. n - 1
        BY <1>17, <1>18, <2>1, <4>1
      <4>2. CASE j = n
        BY <1>16, <1>17, <4>2
      <4> QED BY <1>12, <4>1, <4>2
    <3>2. (n + 1) - 1 = n
      BY <1>12
    <3> QED BY <3>1, <3>2 DEF Quiet
  <2>2. CASE \A key \in FeedKeys :
               g.tracker[key].last = 0 /\ \A j \in 1 .. n : ~OnLane(lane, j, key)
    <3>1. ASSUME NEW key \in FeedKeys, NEW j \in 1 .. n + 1 PROVE ~OnLane(then, j, key)
      <4>1. CASE j \in 1 .. n - 1
        BY <1>12, <1>14, <2>2, <4>1 DEF OnLane
      <4>2. CASE j \in {n, n + 1}
        BY <1>16, <1>17, <4>2 DEF OnLane
      <4> QED BY <1>12, <4>1, <4>2
    <3> QED BY <2>2, <3>1 DEF Quiet
  <2> QED BY <1>9, <2>1, <2>2 DEF Quiet
<1>21. ASSUME NEW j \in 1 .. n, MarksAt(k, lane, j, lost) PROVE MarksAt(k, then, j, lost)
  <2>1. CASE j \in 1 .. n - 1
    <3>1. j \in 0 .. n - 1 /\ j - 1 \in 0 .. n - 1
      BY <1>12, <2>1
    <3>2. /\ then[j].gen = lane[j].gen /\ then[j].stamp = lane[j].stamp
          /\ then[j - 1].gen = lane[j - 1].gen /\ then[j - 1].stamp = lane[j - 1].stamp
      BY <1>18, <3>1
    <3> QED BY <1>21, <3>2 DEF MarksAt
  <2>2. CASE j = n
    <3>1. n - 1 \in 0 .. n - 1 /\ n - 1 \in 0 .. n
      BY <1>12
    <3>2. then[n - 1].gen # 0
      BY <1>9, <1>18, <3>1
    <3> QED BY <1>16, <2>2, <3>2 DEF MarksAt
  <2> QED BY <1>12, <2>1, <2>2
<1>22. ASSUME NEW key \in FeedKeys
       PROVE  KeyLane(k, then, n + 1, key, g.tracker[key].last, had[key], pub[key], lost,
                      key \in g.reconnected)
  <2> DEFINE marked == key \in g.reconnected
             last == g.tracker[key].last
             old == had[key]
             seen == pub[key]
  <2>1. last \in Nat /\ seen \in SUBSET Nat /\ marked \in BOOLEAN
    BY DEF GatesShape, FeedTrackers
  <2>2. KeyLane(k, lane, n, key, last, old, seen, lost, marked)
    BY <1>10
  <2> HIDE DEF marked, last, old, seen
  <2>3. PutBehind(k, lane, n, then, lost, lost)
    BY <1>14, <1>17, <1>21 DEF SameCell, PutBehind
  <2>4. PutFor(k, then, n, key, last, old, seen, seen) /\ n \in Nat
    BY <1>12, <1>16 DEF OnLane, PutFor
  <2>5. KeyLane(k, then, n + 1, key, last, old, seen, lost, marked)
    BY <1>8, <1>11, <2>1, <2>2, <2>3, <2>4, CellPutIn
  <2> QED BY <2>5 DEF marked, last, old, seen
<1>23. /\ then = Lane(next, <<>>, g) /\ n + 1 = LaneEnd(next, <<>>) /\ lost = LostYet(k, next)
       /\ next.state = "failed"
  BY <1>5, <1>12 DEF then, Closes
<1>24. LaneInv(k, next, <<>>, g, pub, had)
  BY <1>19, <1>20, <1>22, <1>23 DEF LaneInv
<1> QED BY <1>4, <1>24

\* The venue sends a frame, which shows an event that comes after all that it published so
\* far, or that it had left out, or which is the last trade again, or which shows none.
Shows(k, f, g, pub, had, more) ==
  \A key \in FeedKeys :
    \/ ~(f.data /\ f.key = key) /\ more[key] = pub[key]
    \/ /\ f.data /\ f.key = key /\ more[key] = pub[key] \cup {f.number}
       /\ IsAhead(k, g.tracker[key].last, had[key], f.number)
       /\ \A a \in pub[key] : ComesAfter(k, a, f.number)
LEMMA FrameSent ==
  ASSUME NEW k, NEW w, WsShape(k, w), w.state = "connected", NEW frames \in Seq(FeedFrames(k)),
         NEW g, GatesShape(g), NEW pub \in [FeedKeys -> SUBSET Nat], NEW had,
         LaneInv(k, w, frames, g, pub, had), NEW f \in FeedFrames(k),
         NEW more \in [FeedKeys -> SUBSET Nat], Shows(k, f, g, pub, had, more)
  PROVE  LaneInv(k, w, Append(frames, f), g, more, had)
<1> DEFINE lane == Lane(w, frames, g)
           n == LaneEnd(w, frames)
           longer == Append(frames, f)
           then == Lane(w, longer, g)
           lost == LostYet(k, w)
           gen == NextGen(w)
<1>1. /\ longer \in Seq(FeedFrames(k)) /\ Len(longer) = Len(frames) + 1 /\ Len(frames) \in Nat
      /\ \A i \in 1 .. Len(frames) : longer[i] = frames[i]
      /\ longer[Len(frames) + 1] = f
  BY AppendProperties
<1> HIDE DEF longer
<1>2. LaneIs(w, frames, g, lane, n)
  BY LaneFacts
<1>3. LaneIs(w, longer, g, then, LaneEnd(w, longer))
  BY <1>1, LaneFacts
<1>4. LaneOk(k, lane, n)
  BY DEF LaneInv
<1>5. w.state # "failed" => \A j \in 0 .. n : lane[j].gen # 0
  BY DEF LaneInv
<1>6. \A key \in FeedKeys : KeyLane(k, lane, n, key, g.tracker[key].last, had[key], pub[key], lost,
                                     key \in g.reconnected)
  BY DEF LaneInv
<1>7. lost \in BOOLEAN
  BY DEF LostYet
<1> HIDE DEF lane, n, then, lost
<1>8. /\ n = Len(w.queue) + Len(frames) + 1 /\ n \in Nat \ {0} /\ LaneEnd(w, longer) = n + 1
      /\ Len(w.queue) \in Nat /\ n - Len(w.queue) = Len(frames) + 1
  <2>1. n = Len(w.queue) + Len(frames) + 1 /\ n \in Nat \ {0}
    BY <1>2 DEF LaneIs
  <2>2. Len(w.queue) \in Nat /\ LaneEnd(w, longer) = Len(w.queue) + Len(longer) + 1
    BY <1>3 DEF LaneIs
  <2>3. Len(longer) = Len(frames) + 1 /\ Len(frames) \in Nat
    BY <1>1
  <2>4. LaneEnd(w, longer) = n + 1 /\ n - Len(w.queue) = Len(frames) + 1
    <3>1. PICK a \in Nat : a = Len(w.queue)
      BY <2>2
    <3>2. PICK b \in Nat : b = Len(frames)
      BY <2>3
    <3>3. PICK c : c = Len(longer)
      OBVIOUS
    <3>4. PICK e : e = LaneEnd(w, longer)
      OBVIOUS
    <3>5. n = a + b + 1
      BY <2>1, <3>1, <3>2
    <3>6. c = b + 1
      BY <2>3, <3>2, <3>3
    <3>7. e = a + c + 1
      BY <2>2, <3>1, <3>3, <3>4
    <3>8. e = n + 1 /\ n - a = b + 1
      BY <3>5, <3>6, <3>7
    <3> QED BY <3>1, <3>2, <3>4, <3>8
  <2> QED BY <2>1, <2>2, <2>4
<1>9. LaneTyped(w, then, n + 1, g) /\ LaneTyped(w, lane, n, g)
  BY <1>2, <1>3, <1>8 DEF LaneIs
<1>10. ASSUME NEW j \in 1 .. n - 1 PROVE then[j] = lane[j]
  <2>1. CASE j \in 1 .. Len(w.queue)
    BY <1>2, <1>3, <2>1 DEF LaneIs
  <2>2. CASE j \in Len(w.queue) + 1 .. n - 1
    <3>1. /\ j \in Len(w.queue) + 1 .. (n + 1) - 1
          /\ j - Len(w.queue) \in 1 .. Len(frames)
      BY <1>8, <2>2
    <3>2. then[j] = FrameCell(longer[j - Len(w.queue)], gen, w.dropped)
      BY <1>3, <1>8, <3>1 DEF LaneIs
    <3>3. lane[j] = FrameCell(frames[j - Len(w.queue)], gen, w.dropped)
      BY <1>2, <2>2 DEF LaneIs
    <3> QED BY <1>1, <3>1, <3>2, <3>3
  <2> QED BY <1>8, <2>1, <2>2
<1>11. then[n] = FrameCell(f, gen, w.dropped)
  <2>1. n \in Len(w.queue) + 1 .. (n + 1) - 1
    BY <1>8
  <2>2. then[n] = FrameCell(longer[n - Len(w.queue)], gen, w.dropped)
    BY <1>3, <1>8, <2>1 DEF LaneIs
  <2> QED BY <1>1, <1>8, <2>2
<1>12. /\ then[0].of = {} /\ then[0].gen = lane[0].gen /\ then[0].stamp = lane[0].stamp
       /\ then[n + 1].of = {} /\ then[n + 1].gen = gen /\ then[n + 1].stamp = w.dropped
       /\ lane[n].gen = gen /\ lane[n].stamp = w.dropped
       /\ \A j \in 0 .. n + 1 : /\ then[j].of \in SUBSET FeedKeys /\ then[j].number \in Nat
                                /\ then[j].gen \in Nat /\ then[j].stamp \in Nat
       /\ gen \in Nat \ {0} /\ w.dropped \in Nat
  BY <1>9 DEF LaneTyped, WsShape
<1> HIDE DEF gen
<1>13. /\ then[n].gen = gen /\ then[n].stamp = w.dropped
       /\ f.data => /\ f.key \in FeedKeys /\ then[n].of = {f.key} /\ then[n].number = f.number
                    /\ f.number \in Nat
       /\ ~f.data => then[n].of = {}
  <2>1. gen \in Nat
    BY <1>12
  <2> QED BY <1>11, <1>12, <2>1, FrameCells
<1>14. ASSUME NEW j \in 0 .. n
       PROVE  then[j].gen = lane[j].gen /\ then[j].stamp = lane[j].stamp
  <2>1. j = 0 \/ j \in 1 .. n - 1 \/ j = n
    BY <1>8
  <2> QED BY <1>10, <1>12, <1>13, <2>1
<1>15. LaneOk(k, then, n + 1)
  <2>1. ASSUME NEW j \in 0 .. n + 1 PROVE then[j].gen <= then[n + 1].gen
    <3>1. CASE j \in 0 .. n
      BY <1>4, <1>12, <1>14, <3>1 DEF LaneOk
    <3>2. CASE j = n + 1
      BY <1>12, <3>2
    <3> QED BY <1>8, <3>1, <3>2
  <2>2. ASSUME Newest(k), NEW j \in 0 .. n + 1, NEW i \in 0 .. j - 1,
               then[i].gen # 0, then[j].gen # 0
        PROVE  then[i].stamp <= then[j].stamp
    <3>1. i \in 0 .. n
      BY <1>8
    <3>2. CASE j \in 0 .. n
      BY <1>4, <1>14, <2>2, <3>1, <3>2 DEF LaneOk
    <3>3. CASE j = n + 1
      <4>1. i = n \/ i \in 0 .. n - 1
        BY <1>8, <3>3
      <4>2. n \in 0 .. n
        BY <1>8
      <4>3. CASE i = n
        BY <1>12, <1>13, <3>3, <4>3
      <4>4. CASE i \in 0 .. n - 1
        <5>1. lane[i].gen # 0 /\ lane[n].gen # 0
          BY <1>12, <1>14, <2>2, <3>1
        <5>2. lane[i].stamp <= lane[n].stamp
          BY <1>4, <2>2, <4>2, <4>4, <5>1 DEF LaneOk
        <5>3. then[i].stamp = lane[i].stamp
          BY <1>14, <3>1
        <5>4. then[j].stamp = lane[n].stamp
          BY <1>12, <3>3
        <5> QED BY <5>2, <5>3, <5>4
      <4> QED BY <4>1, <4>3, <4>4
    <3>4. j \in 0 .. n \/ j = n + 1
      BY <1>8
    <3> QED BY <3>2, <3>3, <3>4
  <2>3. n + 1 \in Nat \ {0} /\ lane[0].gen # 0
    BY <1>4, <1>8 DEF LaneOk
  <2> QED BY <1>12, <2>1, <2>2, <2>3 DEF LaneOk
<1>16. ASSUME NEW j \in 1 .. n, MarksAt(k, lane, j, lost) PROVE MarksAt(k, then, j, lost)
  <2>1. j \in 0 .. n /\ j - 1 \in 0 .. n
    BY <1>8
  <2>2. /\ then[j].gen = lane[j].gen /\ then[j].stamp = lane[j].stamp
        /\ then[j - 1].gen = lane[j - 1].gen /\ then[j - 1].stamp = lane[j - 1].stamp
    BY <1>14, <2>1
  <2> QED BY <1>16, <2>2 DEF MarksAt
<1>17. \A j \in 0 .. n + 1 : then[j].gen # 0
  <2>1. \A j \in 0 .. n : then[j].gen # 0
    BY <1>5, <1>14
  <2>2. \A j \in 0 .. n + 1 : j \in 0 .. n \/ j = n + 1
    BY <1>8
  <2> QED BY <1>12, <2>1, <2>2
<1>18. ASSUME NEW key \in FeedKeys
       PROVE  KeyLane(k, then, n + 1, key, g.tracker[key].last, had[key], more[key], lost,
                      key \in g.reconnected)
  <2> DEFINE marked == key \in g.reconnected
             last == g.tracker[key].last
             old == had[key]
             seen == pub[key]
             after == more[key]
  <2>1. last \in Nat /\ seen \in SUBSET Nat /\ marked \in BOOLEAN /\ after \in SUBSET Nat
    BY DEF GatesShape, FeedTrackers
  <2>2. KeyLane(k, lane, n, key, last, old, seen, lost, marked)
    BY <1>6
  <2>3. PutBehind(k, lane, n, then, lost, lost)
    BY <1>10, <1>12, <1>16 DEF SameCell, PutBehind
  <2>4. n \in Nat
    BY <1>8
  <2>5. PutFor(k, then, n, key, last, old, seen, after)
    <3>1. CASE ~(f.data /\ f.key = key)
      BY <1>13, <3>1 DEF Shows, OnLane, PutFor
    <3>2. CASE f.data /\ f.key = key
      <4>1. then[n].number = f.number /\ then[n].of = {key} /\ f.number \in Nat
        BY <1>13, <3>2
      <4>2. /\ after = seen \cup {f.number} /\ IsAhead(k, last, old, f.number)
            /\ \A a \in seen : ComesAfter(k, a, f.number)
        BY <3>2 DEF Shows
      <4> HIDE DEF marked, last, old, seen, after
      <4> QED BY <4>1, <4>2 DEF OnLane, PutFor
    <3> QED BY <3>1, <3>2
  <2> HIDE DEF marked, last, old, seen, after
  <2>6. KeyLane(k, then, n + 1, key, last, old, after, lost, marked)
    BY <1>4, <1>7, <2>1, <2>2, <2>3, <2>4, <2>5, CellPutIn
  <2> QED BY <2>6 DEF marked, last, old, seen, after
<1>19. then = Lane(w, longer, g) /\ n + 1 = LaneEnd(w, longer) /\ lost = LostYet(k, w)
  BY <1>8 DEF then, lost
<1>20. LaneInv(k, w, longer, g, more, had)
  BY <1>15, <1>17, <1>18, <1>19 DEF LaneInv
<1> QED BY <1>20 DEF longer

\* The connection is lost: nothing of the wire will be read, and what comes next comes with
\* another connection.
Lost(w, next) ==
  /\ DOMAIN next = DOMAIN w /\ next.queue = w.queue /\ next.dropped = w.dropped
  /\ next.evicted = w.evicted /\ next.toldDropped = w.toldDropped
  /\ next.toldEvicted = w.toldEvicted
  /\ next.generation = w.generation /\ next.state = "reconnecting"
LEMMA ConnectionLost ==
  ASSUME NEW k, NEW w, WsShape(k, w), w.state = "connected", NEW frames \in Seq(FeedFrames(k)),
         NEW g, GatesShape(g), NEW pub \in [FeedKeys -> SUBSET Nat], NEW had,
         LaneInv(k, w, frames, g, pub, had), NEW next, Lost(w, next)
  PROVE  WsShape(k, next) /\ LaneInv(k, next, <<>>, g, pub, had)
<1> DEFINE lane == Lane(w, frames, g)
           n == LaneEnd(w, frames)
           then == Lane(next, <<>>, g)
           lost == LostYet(k, w)
           e == Len(w.queue) + 1
<1>1. <<>> \in Seq(FeedFrames(k)) /\ Len(<<>>) = 0
  OBVIOUS
<1>2. WsShape(k, next) /\ next.queue = w.queue
  BY DEF WsShape, Lost
<1>3. /\ NextGen(next) = w.generation + 1 /\ NextGen(w) = w.generation
      /\ w.generation \in Nat \ {0} /\ LostYet(k, next) = lost
  BY DEF NextGen, LostYet, Lost, WsShape
<1>4. LaneIs(w, frames, g, lane, n)
  BY LaneFacts
<1>5. LaneIs(next, <<>>, g, then, LaneEnd(next, <<>>))
  BY <1>1, <1>2, LaneFacts
<1>6. LaneOk(k, lane, n)
  BY DEF LaneInv
<1>7. \A j \in 0 .. n : lane[j].gen # 0
  BY DEF LaneInv
<1>8. \A key \in FeedKeys : KeyLane(k, lane, n, key, g.tracker[key].last, had[key], pub[key], lost,
                                     key \in g.reconnected)
  BY DEF LaneInv
<1>9. lost \in BOOLEAN
  BY DEF LostYet
<1> HIDE DEF lane, n, then, lost
<1>10. LaneEnd(next, <<>>) = e /\ e \in 1 .. n /\ n \in Nat \ {0} /\ Len(w.queue) \in Nat
  BY <1>1, <1>2, <1>4, <1>5 DEF LaneIs
<1>11. LaneTyped(next, then, e, g) /\ LaneTyped(w, lane, n, g)
  BY <1>4, <1>5, <1>10 DEF LaneIs
<1>12. ASSUME NEW j \in 1 .. e - 1 PROVE then[j] = lane[j]
  <2>1. j \in 1 .. Len(w.queue)
    BY <1>10
  <2> QED BY <1>2, <1>4, <1>5, <2>1 DEF LaneIs
<1>13. /\ then[0].of = {} /\ then[0].gen = lane[0].gen /\ then[0].stamp = lane[0].stamp
       /\ then[e].of = {} /\ then[e].gen = w.generation + 1 /\ then[e].stamp = lane[n].stamp
       /\ lane[n].gen = w.generation
       /\ \A j \in 0 .. e : /\ then[j].of \in SUBSET FeedKeys /\ then[j].number \in Nat
                            /\ then[j].gen \in Nat /\ then[j].stamp \in Nat
  BY <1>3, <1>11 DEF LaneTyped, Lost
<1>14. ASSUME NEW j \in 0 .. e - 1
       PROVE  /\ then[j].gen = lane[j].gen /\ then[j].stamp = lane[j].stamp
              /\ then[j].gen < then[e].gen
  <2>1. j = 0 \/ j \in 1 .. e - 1
    BY <1>10
  <2>2. then[j].gen = lane[j].gen /\ then[j].stamp = lane[j].stamp
    BY <1>12, <1>13, <2>1
  <2>3. j \in 0 .. n
    BY <1>10
  <2>4. lane[j].gen <= lane[n].gen /\ lane[j].gen \in Nat
    BY <1>6, <2>3 DEF LaneOk
  <2> QED BY <1>3, <1>13, <2>2, <2>4
<1>15. LaneOk(k, then, e)
  <2>1. ASSUME NEW j \in 0 .. e PROVE then[j].gen <= then[e].gen
    <3>1. j \in 0 .. e - 1 \/ j = e
      BY <1>10
    <3> QED BY <1>3, <1>13, <1>14, <3>1
  <2>2. ASSUME Newest(k), NEW j \in 0 .. e, NEW i \in 0 .. j - 1,
               then[i].gen # 0, then[j].gen # 0
        PROVE  then[i].stamp <= then[j].stamp
    <3>1. i \in 0 .. e - 1
      BY <1>10
    <3>2. CASE j \in 0 .. e - 1
      <4>1. j \in 0 .. n
        BY <1>10, <3>2
      <4> QED BY <1>6, <1>14, <2>2, <3>1, <3>2, <4>1 DEF LaneOk
    <3>3. CASE j = e
      <4>1. i \in 0 .. n - 1 /\ n \in 0 .. n
        BY <1>10, <3>1
      <4>2. lane[i].gen # 0 /\ lane[n].gen # 0
        BY <1>3, <1>13, <1>14, <2>2, <3>1
      <4>3. lane[i].stamp <= lane[n].stamp
        BY <1>6, <2>2, <4>1, <4>2 DEF LaneOk
      <4> QED BY <1>13, <1>14, <3>1, <3>3, <4>3
    <3> QED BY <1>10, <3>2, <3>3
  <2>3. e \in Nat \ {0} /\ lane[0].gen # 0 /\ then[e].gen # 0
    BY <1>3, <1>6, <1>10, <1>13 DEF LaneOk
  <2> QED BY <1>13, <2>1, <2>2, <2>3 DEF LaneOk
<1>16. Quiet(then, e, g)
  BY <1>14 DEF Quiet
<1>17. \A j \in 0 .. e : then[j].gen # 0
  <2>1. \A j \in 0 .. e - 1 : j \in 0 .. n
    BY <1>10
  <2>2. \A j \in 0 .. e : j \in 0 .. e - 1 \/ j = e
    BY <1>10
  <2>3. then[e].gen # 0
    BY <1>3, <1>13
  <2> QED BY <1>7, <1>14, <2>1, <2>2, <2>3
<1>18. ASSUME NEW j \in 1 .. e - 1, MarksAt(k, lane, j, lost) PROVE MarksAt(k, then, j, lost)
  <2>1. j \in 0 .. e - 1 /\ j - 1 \in 0 .. e - 1
    BY <1>10
  <2>2. /\ then[j].gen = lane[j].gen /\ then[j].stamp = lane[j].stamp
        /\ then[j - 1].gen = lane[j - 1].gen /\ then[j - 1].stamp = lane[j - 1].stamp
    BY <1>14, <2>1
  <2> QED BY <1>18, <2>2 DEF MarksAt
<1>19. MarksAt(k, then, e, lost)
  <2>1. e - 1 \in 0 .. e - 1
    BY <1>10
  <2>2. then[e - 1].gen < then[e].gen /\ then[e - 1].gen \in Nat /\ then[e].gen \in Nat
    <3>1. e - 1 \in 0 .. e /\ e \in 0 .. e
      BY <1>10
    <3> QED BY <1>13, <1>14, <2>1, <3>1
  <2> QED BY <2>2 DEF MarksAt
<1>20. ASSUME NEW key \in FeedKeys
       PROVE  KeyLane(k, then, e, key, g.tracker[key].last, had[key], pub[key], lost,
                      key \in g.reconnected)
  <2> DEFINE marked == key \in g.reconnected
             last == g.tracker[key].last
             old == had[key]
             seen == pub[key]
  <2>1. last \in Nat /\ seen \in SUBSET Nat /\ marked \in BOOLEAN
    BY DEF GatesShape, FeedTrackers
  <2>2. KeyLane(k, lane, n, key, last, old, seen, lost, marked)
    BY <1>8
  <2>3. CutAt(k, lane, then, e, lost)
    BY <1>12, <1>13, <1>18, <1>19 DEF SameCell, CutAt
  <2>4. n \in Nat
    BY <1>10
  <2> HIDE DEF marked, last, old, seen, e
  <2>5. KeyLane(k, then, e, key, last, old, seen, lost, marked)
    BY <1>6, <1>9, <1>10, <2>1, <2>2, <2>3, <2>4, LaneCut
  <2> QED BY <2>5 DEF marked, last, old, seen
<1>21. then = Lane(next, <<>>, g) /\ e = LaneEnd(next, <<>>) /\ lost = LostYet(k, next)
  BY <1>3, <1>10 DEF then
<1> HIDE DEF e
<1>22. LaneInv(k, next, <<>>, g, pub, had)
  BY <1>15, <1>16, <1>17, <1>20, <1>21 DEF LaneInv
<1> QED BY <1>2, <1>22

\* What a tracker makes of an event that comes as the lane says it does.
Judged(k, t, had, n, c) ==
  /\ c.next \in FeedTrackers
  /\ c.outcome \in {"first", "in_order", "gap", "out_of_order", "duplicate"}
  /\ c.next.last \in {t.last, n} /\ (k.feed # "plain" => c.next.last = n)
  /\ c.outcome = "duplicate" => c.next = t /\ k.feed = "contiguous"
  /\ c.outcome # "duplicate" => TrackOk(k, c.next, had \cup {n}) /\ n \notin had
  /\ c.outcome = "out_of_order" <=> c.outcome # "duplicate" /\ n < t.last
  /\ t.last # 0 /\ n > t.last + 1 => c.outcome = "gap"
LEMMA TrackerWith ==
  ASSUME NEW t \in FeedTrackers, NEW n, NEW lacks
  PROVE  /\ [t EXCEPT !.last = n, !.missing = lacks]
              = [last |-> n, first |-> t.first, missing |-> lacks]
         /\ [t EXCEPT !.first = n, !.missing = lacks]
              = [last |-> t.last, first |-> n, missing |-> lacks]
<1>1. [t EXCEPT !.last = n, !.missing = lacks]
        = [last |-> n, first |-> t.first, missing |-> lacks]
  <2> DEFINE u == [t EXCEPT !.last = n, !.missing = lacks]
             v == [last |-> n, first |-> t.first, missing |-> lacks]
  <2>1. DOMAIN u = DOMAIN v
    BY DEF FeedTrackers
  <2>2. u.last = v.last /\ u.first = v.first /\ u.missing = v.missing
    BY DEF FeedTrackers
  <2>3. \A x \in DOMAIN v : u[x] = v[x]
    BY <2>2
  <2> QED BY <2>1, <2>3
<1>2. [t EXCEPT !.first = n, !.missing = lacks]
        = [last |-> t.last, first |-> n, missing |-> lacks]
  <2> DEFINE u == [t EXCEPT !.first = n, !.missing = lacks]
             v == [last |-> t.last, first |-> n, missing |-> lacks]
  <2>1. DOMAIN u = DOMAIN v
    BY DEF FeedTrackers
  <2>2. u.last = v.last /\ u.first = v.first /\ u.missing = v.missing
    BY DEF FeedTrackers
  <2>3. \A x \in DOMAIN v : u[x] = v[x]
    BY <2>2
  <2> QED BY <2>1, <2>3
<1> QED BY <1>1, <1>2
LEMMA EventJudged ==
  ASSUME NEW k, k \in FeedPart!Kinds, NEW t \in FeedTrackers, NEW had \in SUBSET Nat,
         TrackOk(k, t, had), NEW n \in Nat \ {0}, IsAhead(k, t.last, had, n)
  PROVE  Judged(k, t, had, n, FeedPart!Classify(t, n))
<1> DEFINE c == FeedPart!Classify(t, n)
           next == c.next
<1>1. /\ DOMAIN t = {"last", "first", "missing"} /\ t.last \in Nat /\ t.first \in Nat
      /\ t.missing \in SUBSET Nat
      /\ t = [last |-> t.last, first |-> t.first, missing |-> t.missing]
  BY DEF FeedTrackers
<1>2. k.feed \in {"sparse", "contiguous", "plain"}
  BY DEF FeedPart!Kinds
<1>3. n \notin had \/ (k.feed = "contiguous" /\ n = t.last)
  BY <1>1, <1>2 DEF IsAhead, TrackOk
<1> DEFINE Rises(u) ==
             /\ u \in FeedTrackers /\ u.last = n /\ n > t.last
             /\ \/ t.last = 0 /\ u.first = n /\ u.missing = {}
                \/ /\ t.last # 0 /\ u.first = t.first
                   /\ u.missing = t.missing \cup (t.last + 1 .. n - 1)
<1>4. ASSUME NEW u, Rises(u) PROVE TrackOk(k, u, had \cup {n})
  <2>1. u.last = n /\ n \in Nat /\ u.first \in Nat /\ u.first # 0 /\ u.first <= u.last
    BY <1>1, <1>4 DEF TrackOk
  <2>2. \A m \in had \cup {n} : m <= u.last
    BY <1>1, <1>4 DEF TrackOk
  <2>3. \A m \in u.missing : u.first < m /\ m < u.last
    BY <1>1, <1>4 DEF TrackOk
  <2>4. ASSUME k.feed = "plain"
        PROVE  /\ u.first \in had \cup {n}
               /\ \A m \in had \cup {n} : u.first <= m /\ m \notin u.missing
               /\ \A m \in u.first .. u.last : m # 0 => m \in had \cup {n} \/ m \in u.missing
    BY <1>1, <1>4, <2>4 DEF TrackOk
  <2> QED BY <2>1, <2>2, <2>3, <2>4 DEF TrackOk
<1> HIDE DEF Rises
<1>5. CASE t.last = 0
  <2>1. c = [outcome |-> "first", next |-> [last |-> n, first |-> n, missing |-> {}]]
    BY <1>5 DEF FeedPart!Classify
  <2>2. /\ next \in FeedTrackers /\ next.last = n /\ next.first = n /\ next.missing = {}
        /\ c.outcome = "first"
    BY <2>1 DEF FeedTrackers
  <2>3. had = {}
    BY <1>5 DEF TrackOk
  <2> HIDE DEF next, c
  <2>4. Rises(next)
    BY <1>5, <2>2 DEF Rises
  <2>5. TrackOk(k, next, had \cup {n})
    BY <1>4, <2>4
  <2> QED BY <1>5, <2>2, <2>3, <2>5 DEF Judged, next, c
<1>6. CASE t.last # 0 /\ n = t.last + 1
  <2>1. c = [outcome |-> "in_order", next |-> [t EXCEPT !.last = n]]
    BY <1>6 DEF FeedPart!Classify
  <2>2. /\ next \in FeedTrackers /\ next.last = n /\ next.first = t.first
        /\ next.missing = t.missing /\ c.outcome = "in_order"
    BY <1>1, <2>1 DEF FeedTrackers
  <2> HIDE DEF next, c
  <2>3. t.missing = t.missing \cup (t.last + 1 .. n - 1)
    BY <1>1, <1>6
  <2>6. Rises(next)
    BY <1>1, <1>6, <2>2, <2>3 DEF Rises
  <2>4. TrackOk(k, next, had \cup {n})
    BY <1>4, <2>6
  <2>5. n \notin had /\ ~(n < t.last) /\ ~(n > t.last + 1)
    BY <1>1, <1>3, <1>6
  <2> QED BY <2>2, <2>4, <2>5 DEF Judged, next, c
<1>7. CASE t.last # 0 /\ n > t.last + 1
  <2>1. c = [outcome |-> "gap", next |-> [t EXCEPT !.last = n,
                                            !.missing = @ \cup (t.last + 1 .. n - 1)]]
    BY <1>1, <1>7 DEF FeedPart!Classify
  <2> DEFINE lacks == t.missing \cup (t.last + 1 .. n - 1)
  <2>10. next = [t EXCEPT !.last = n, !.missing = lacks] /\ c.outcome = "gap"
    BY <2>1
  <2>3. next = [last |-> n, first |-> t.first, missing |-> lacks]
    BY <2>10, TrackerWith
  <2>2. /\ next.last = n /\ next.first = t.first /\ next.missing = lacks
        /\ c.outcome = "gap"
    BY <2>3, <2>10
  <2>4. t.missing \cup (t.last + 1 .. n - 1) \in SUBSET Nat
    BY <1>1
  <2>5. next \in FeedTrackers
    BY <1>1, <2>3, <2>4 DEF FeedTrackers
  <2> HIDE DEF next, c
  <2>8. Rises(next)
    BY <1>1, <1>7, <2>2, <2>5 DEF Rises
  <2>6. TrackOk(k, next, had \cup {n})
    BY <1>4, <2>8
  <2>7. n \notin had /\ ~(n < t.last)
    BY <1>1, <1>3, <1>7
  <2> QED BY <2>2, <2>5, <2>6, <2>7 DEF Judged, next, c
<1>8. CASE t.last # 0 /\ n <= t.last /\ k.feed # "plain"
  <2>1. k.feed = "contiguous" /\ n = t.last
    BY <1>1, <1>2, <1>8 DEF IsAhead
  <2>2. n \notin t.missing /\ ~(n < t.first)
    BY <1>1, <2>1 DEF TrackOk
  <2>3. c = [outcome |-> "duplicate", next |-> t]
    BY <1>1, <1>8, <2>1, <2>2 DEF FeedPart!Classify
  <2>4. c.outcome = "duplicate" /\ c.next = t /\ ~(n > t.last + 1)
    BY <1>1, <2>1, <2>3
  <2> QED BY <2>1, <2>4 DEF Judged
<1>9. CASE t.last # 0 /\ n <= t.last /\ k.feed = "plain" /\ n < t.first
  <2>1. c = [outcome |-> "out_of_order", next |-> [t EXCEPT !.first = n,
                                            !.missing = @ \cup (n + 1 .. t.first - 1)]]
    BY <1>1, <1>9 DEF FeedPart!Classify
  <2> DEFINE lacks == t.missing \cup (n + 1 .. t.first - 1)
  <2>11. next = [t EXCEPT !.first = n, !.missing = lacks] /\ c.outcome = "out_of_order"
    BY <2>1
  <2>2. next = [last |-> t.last, first |-> n, missing |-> lacks]
    BY <2>11, TrackerWith
  <2>3. /\ next.last = t.last /\ next.first = n
        /\ next.missing = t.missing \cup (n + 1 .. t.first - 1) /\ c.outcome = "out_of_order"
    BY <2>2, <2>11
  <2>4. t.missing \cup (n + 1 .. t.first - 1) \in SUBSET Nat
    BY <1>1
  <2>5. next \in FeedTrackers
    BY <1>1, <2>2, <2>4 DEF FeedTrackers
  <2> HIDE DEF next, c
  <2>6. n < t.last /\ n \notin had /\ had # {} /\ t.last \in had /\ t.first \in had
    BY <1>1, <1>9 DEF TrackOk, IsAhead
  <2>7. /\ \A m \in had \cup {n} : m <= next.last /\ next.first <= m /\ m \notin next.missing
        /\ \A m \in next.missing : next.first < m /\ m < next.last
    <3>1. \A m \in had : t.first <= m /\ m <= t.last /\ m \notin t.missing /\ m \in Nat
      BY <1>9 DEF TrackOk
    <3>2. \A m \in t.missing : t.first < m /\ m < t.last /\ m \in Nat
      BY <1>1 DEF TrackOk
    <3> QED BY <1>1, <1>9, <2>3, <2>6, <3>1, <3>2
  <2>8. \A m \in next.first .. next.last : m # 0 => m \in had \cup {n} \/ m \in next.missing
    <3>1. \A m \in t.first .. t.last : m # 0 => m \in had \/ m \in t.missing
      BY <1>9 DEF TrackOk
    <3> QED BY <1>1, <1>9, <2>3, <2>6, <3>1
  <2>9. TrackOk(k, next, had \cup {n})
    BY <1>1, <1>9, <2>3, <2>6, <2>7, <2>8 DEF TrackOk
  <2>10. ~(n > t.last + 1)
    BY <1>1, <2>6
  <2> QED BY <1>9, <2>3, <2>5, <2>6, <2>9, <2>10 DEF Judged, next, c
<1>10. CASE t.last # 0 /\ n <= t.last /\ k.feed = "plain" /\ ~(n < t.first)
  <2>1. n \notin had /\ had # {} /\ t.last \in had /\ t.first \in had
    BY <1>1, <1>10 DEF TrackOk, IsAhead
  <2>2. n \in t.missing /\ n < t.last /\ t.first < n
    <3>1. n \in t.first .. t.last
      BY <1>1, <1>10
    <3>2. n \in t.missing
      BY <1>10, <2>1, <3>1 DEF TrackOk
    <3> QED BY <3>2 DEF TrackOk
  <2>3. c = [outcome |-> "out_of_order", next |-> [t EXCEPT !.missing = @ \ {n}]]
    BY <1>1, <1>10, <2>2 DEF FeedPart!Classify
  <2>4. next = [last |-> t.last, first |-> t.first, missing |-> t.missing \ {n}]
    BY <1>1, <2>3
  <2>5. /\ next.last = t.last /\ next.first = t.first /\ next.missing = t.missing \ {n}
        /\ c.outcome = "out_of_order"
    BY <2>3, <2>4
  <2>6. next \in FeedTrackers
    BY <1>1, <2>4 DEF FeedTrackers
  <2> HIDE DEF next, c
  <2>7. /\ \A m \in had \cup {n} : m <= next.last /\ next.first <= m /\ m \notin next.missing
        /\ \A m \in next.missing : next.first < m /\ m < next.last
    BY <1>1, <1>10, <2>1, <2>2, <2>5 DEF TrackOk
  <2>8. \A m \in next.first .. next.last : m # 0 => m \in had \cup {n} \/ m \in next.missing
    BY <1>1, <1>10, <2>5 DEF TrackOk
  <2>9. TrackOk(k, next, had \cup {n})
    <3>1. t.first <= t.last /\ t.first # 0
      BY <1>10 DEF TrackOk
    <3> QED BY <1>10, <2>1, <2>5, <2>7, <2>8, <3>1 DEF TrackOk
  <2>10. ~(n > t.last + 1)
    BY <1>1, <2>2
  <2> QED BY <1>10, <2>1, <2>2, <2>5, <2>6, <2>9, <2>10 DEF Judged, next, c
<1> QED BY <1>1, <1>5, <1>6, <1>7, <1>8, <1>9, <1>10

\* The consumer takes the first item: what the transport told it, and what the gates make of
\* it for each key.
Takes(k, w, next) ==
  /\ DOMAIN next = DOMAIN w /\ next.queue = Tail(w.queue) /\ next.dropped = w.dropped
  /\ next.evicted = w.evicted /\ next.toldEvicted = w.evicted
  /\ next.toldDropped = (IF ~Newest(k) THEN w.dropped
                         ELSE IF Head(w.queue).stamped > w.toldDropped
                         THEN Head(w.queue).stamped ELSE w.toldDropped)
  /\ next.generation = w.generation /\ next.state = w.state
Meets(k, w, frames, g, had, h, have) ==
  /\ h.seen = Head(w.queue).generation
  /\ \A key \in FeedKeys :
       TakenBy(k, Lane(w, frames, g), key, g.tracker[key].last, had[key], LostYet(k, w),
               key \in g.reconnected, h.tracker[key].last, have[key], key \in h.reconnected)
LEMMA LaneConsumed ==
  ASSUME NEW k, NEW w, WsShape(k, w), NEW frames \in Seq(FeedFrames(k)), NEW g, GatesShape(g),
         NEW pub \in [FeedKeys -> SUBSET Nat], NEW had, LaneInv(k, w, frames, g, pub, had),
         w.queue # <<>>, Head(w.queue) # FeedPart!Closed,
         NEW next, Takes(k, w, next), NEW h, GatesShape(h), NEW have,
         Meets(k, w, frames, g, had, h, have)
  PROVE  WsShape(k, next) /\ LaneInv(k, next, frames, h, pub, have)
<1> DEFINE lane == Lane(w, frames, g)
           n == LaneEnd(w, frames)
           then == Lane(next, frames, h)
           lost == LostYet(k, w)
           later == LostYet(k, next)
           item == Head(w.queue)
<1>1. /\ Len(w.queue) \in Nat \ {0} /\ item = w.queue[1] /\ item \in FeedItems(k)
      /\ Tail(w.queue) \in Seq(FeedItems(k)) /\ Len(Tail(w.queue)) = Len(w.queue) - 1
      /\ \A i \in 1 .. Len(Tail(w.queue)) : Tail(w.queue)[i] = w.queue[i + 1]
  BY HeadTailProperties DEF WsShape
<1>2. /\ item.generation \in Nat \ {0} /\ item.stamped \in Nat /\ item.frame \in FeedFrames(k)
      /\ ItemCell(item) = FrameCell(item.frame, item.generation, item.stamped)
  BY <1>1, ItemCells
<1>3. LaneIs(w, frames, g, lane, n)
  BY LaneFacts
<1>4. LaneOk(k, lane, n)
  BY DEF LaneInv
<1>5. /\ w.state # "connected" => Quiet(lane, n, g)
      /\ w.state # "failed" => \A j \in 0 .. n : lane[j].gen # 0
  BY DEF LaneInv
<1>6. \A key \in FeedKeys : KeyLane(k, lane, n, key, g.tracker[key].last, had[key], pub[key],
                                     lost, key \in g.reconnected)
  BY DEF LaneInv
<1>7. \A key \in FeedKeys :
        TakenBy(k, lane, key, g.tracker[key].last, had[key], lost, key \in g.reconnected,
                h.tracker[key].last, have[key], key \in h.reconnected)
  BY DEF Meets
<1>8. h.seen = item.generation /\ lost \in BOOLEAN /\ later \in BOOLEAN
  BY DEF Meets, LostYet
<1>9. Len(w.queue) \in Nat \ {0} /\ n \in Nat /\ n > 1 /\ n > Len(w.queue)
  BY <1>1, <1>3 DEF LaneIs
<1>10. lane[1].gen = item.generation /\ lane[1].stamp = item.stamped
  <2>1. 1 \in 1 .. Len(w.queue)
    BY <1>1
  <2>2. lane[1] = ItemCell(item)
    BY <1>1, <1>3, <2>1 DEF LaneIs
  <2> QED BY <1>2, <2>2, FrameCells
<1>11. /\ lane[0].gen = g.seen /\ lane[0].stamp = w.toldDropped /\ lane[n].stamp = w.dropped
       /\ w.toldDropped \in Nat /\ w.dropped \in Nat /\ w.toldDropped <= w.dropped
       /\ g.seen # 0 /\ lane[n].gen # 0
  <2>1. LaneTyped(w, lane, n, g)
    BY <1>3 DEF LaneIs
  <2> QED BY <1>4, <2>1 DEF LaneTyped, WsShape, GatesShape, LaneOk
<1> HIDE DEF lane, n, item
<1>12. ASSUME Newest(k)
       PROVE  w.toldDropped <= item.stamped /\ item.stamped <= w.dropped
  <2>1. 0 \in 0 .. 1 - 1 /\ 1 \in 0 .. n /\ 1 \in 0 .. n - 1 /\ n \in 0 .. n
    BY <1>9
  <2>2. lane[0].gen # 0 /\ lane[1].gen # 0
    BY <1>2, <1>10, <1>11
  <2>3. lane[0].stamp <= lane[1].stamp
    BY <1>4, <1>12, <2>1, <2>2 DEF LaneOk
  <2>4. lane[1].stamp <= lane[n].stamp
    BY <1>4, <1>11, <1>12, <2>1, <2>2 DEF LaneOk
  <2> QED BY <1>10, <1>11, <2>3, <2>4
<1>13. /\ Newest(k) => next.toldDropped = item.stamped
       /\ ~Newest(k) => next.toldDropped = w.dropped
       /\ next.toldDropped \in 0 .. w.dropped
  <2>1. next.toldDropped = (IF ~Newest(k) THEN w.dropped
                            ELSE IF item.stamped > w.toldDropped
                            THEN item.stamped ELSE w.toldDropped)
    BY DEF Takes, item
  <2>2. CASE Newest(k)
    BY <1>2, <1>11, <1>12, <2>1, <2>2
  <2>3. CASE ~Newest(k)
    BY <1>11, <2>1, <2>3
  <2> QED BY <2>2, <2>3
<1>14. WsShape(k, next)
  BY <1>1, <1>13 DEF WsShape, Takes
<1>15. ~later
  <2>1. next.dropped = w.dropped /\ next.evicted = w.evicted /\ next.toldEvicted = w.evicted
    BY DEF Takes
  <2>2. CASE Newest(k)
    BY <2>1, <2>2 DEF LostYet
  <2>3. CASE ~Newest(k)
    BY <1>11, <1>13, <2>1, <2>3 DEF LostYet
  <2> QED BY <2>2, <2>3
<1>16. NextGen(next) = NextGen(w)
  BY DEF NextGen, Takes
<1>17. LaneIs(next, frames, h, then, LaneEnd(next, frames))
  BY <1>14, LaneFacts
<1> HIDE DEF then, lost, later
<1>18. LaneEnd(next, frames) = n - 1 /\ Len(next.queue) = Len(w.queue) - 1
       /\ next.queue = Tail(w.queue) /\ next.dropped = w.dropped
  BY <1>1, <1>3, <1>17 DEF LaneIs, Takes
<1>19. ASSUME NEW j \in 1 .. n - 1 PROVE then[j] = lane[j + 1]
  <2>1. CASE j < Len(w.queue)
    <3>1. j \in 1 .. Len(next.queue) /\ j + 1 \in 1 .. Len(w.queue)
      BY <1>9, <1>18, <2>1
    <3>2. then[j] = ItemCell(next.queue[j])
      BY <1>17, <3>1 DEF LaneIs
    <3>3. lane[j + 1] = ItemCell(w.queue[j + 1])
      BY <1>3, <3>1 DEF LaneIs
    <3> QED BY <1>1, <1>18, <3>1, <3>2, <3>3
  <2>2. CASE j >= Len(w.queue) /\ j < n - 1
    <3>1. /\ j \in Len(next.queue) + 1 .. (n - 1) - 1
          /\ j + 1 \in Len(w.queue) + 1 .. n - 1
          /\ j - Len(next.queue) = (j + 1) - Len(w.queue)
      BY <1>9, <1>18, <2>2
    <3>2. then[j] = FrameCell(frames[j - Len(next.queue)], NextGen(w), w.dropped)
      BY <1>16, <1>17, <1>18, <3>1 DEF LaneIs
    <3>3. lane[j + 1] = FrameCell(frames[(j + 1) - Len(w.queue)], NextGen(w), w.dropped)
      BY <1>3, <3>1 DEF LaneIs
    <3> QED BY <3>1, <3>2, <3>3
  <2>3. CASE j = n - 1
    <3>1. j + 1 = n
      BY <1>9, <2>3
    <3>2. then[n - 1] = Cell({}, 0, NextGen(w), w.dropped)
      BY <1>16, <1>17, <1>18 DEF LaneIs
    <3> QED BY <1>3, <2>3, <3>1, <3>2 DEF LaneIs
  <2> QED BY <1>9, <2>1, <2>2, <2>3
<1>20. /\ then[0].of = {} /\ then[0].gen = lane[1].gen /\ then[n - 1].of = {}
       /\ then[0].stamp = next.toldDropped /\ then[0].number \in Nat
       /\ lane[1].gen \in Nat \ {0}
  <2>1. LaneTyped(next, then, n - 1, h)
    BY <1>17, <1>18 DEF LaneIs
  <2>2. 0 \in 0 .. n - 1
    BY <1>9
  <2> QED BY <1>2, <1>8, <1>10, <2>1, <2>2 DEF LaneTyped
<1>21. Newest(k) => then[0].stamp = lane[1].stamp
  BY <1>10, <1>13, <1>20
<1>22. ASSUME NEW j \in 0 .. n - 1
       PROVE  /\ then[j].gen = lane[j + 1].gen
              /\ Newest(k) => then[j].stamp = lane[j + 1].stamp
              /\ j + 1 \in 0 .. n
  <2>1. j + 1 \in 0 .. n /\ (j = 0 \/ j \in 1 .. n - 1)
    BY <1>9
  <2> QED BY <1>19, <1>20, <1>21, <2>1
<1>23. LaneOk(k, then, n - 1)
  <2>1. ASSUME NEW j \in 0 .. n - 1
        PROVE  /\ then[j].of \in SUBSET FeedKeys /\ then[j].number \in Nat
               /\ then[j].gen \in Nat /\ then[j].stamp \in Nat
    <3>1. LaneTyped(next, then, n - 1, h)
      BY <1>17, <1>18 DEF LaneIs
    <3> QED BY <3>1 DEF LaneTyped
  <2>2. ASSUME NEW j \in 0 .. n - 1 PROVE then[j].gen <= then[n - 1].gen
    <3>1. n - 1 \in 0 .. n - 1 /\ (n - 1) + 1 = n /\ j + 1 \in 0 .. n
      BY <1>9
    <3>2. lane[j + 1].gen <= lane[n].gen
      BY <1>4, <3>1 DEF LaneOk
    <3>3. then[n - 1].gen = lane[n].gen
      BY <1>22, <3>1
    <3> QED BY <1>22, <3>2, <3>3
  <2>3. ASSUME Newest(k), NEW j \in 0 .. n - 1, NEW i \in 0 .. j - 1,
               then[i].gen # 0, then[j].gen # 0
        PROVE  then[i].stamp <= then[j].stamp
    <3>1. i \in 0 .. n - 1 /\ i + 1 \in 0 .. (j + 1) - 1 /\ j + 1 \in 0 .. n
      BY <1>9
    <3>2. lane[i + 1].gen # 0 /\ lane[j + 1].gen # 0
      BY <1>22, <2>3, <3>1
    <3>3. lane[i + 1].stamp <= lane[j + 1].stamp
      BY <1>4, <2>3, <3>1, <3>2 DEF LaneOk
    <3> QED BY <1>22, <2>3, <3>1, <3>3
  <2>4. n - 1 \in Nat \ {0} /\ n - 1 \in 0 .. n - 1 /\ (n - 1) + 1 = n
    BY <1>9
  <2>5. then[0].gen # 0 /\ then[n - 1].gen # 0
    BY <1>11, <1>20, <1>22, <2>4
  <2> QED BY <1>20, <2>1, <2>2, <2>3, <2>4, <2>5 DEF LaneOk
<1>24. ASSUME NEW j \in 1 .. n - 1, MarksAt(k, lane, j + 1, lost) PROVE MarksAt(k, then, j, later)
  <2>1. j \in 0 .. n - 1 /\ j - 1 \in 0 .. n - 1 /\ (j - 1) + 1 = j /\ (j + 1) - 1 = j
        /\ j + 1 # 1
    BY <1>9
  <2>2. /\ then[j].gen = lane[j + 1].gen /\ then[j - 1].gen = lane[j].gen
        /\ Newest(k) => /\ then[j].stamp = lane[j + 1].stamp
                        /\ then[j - 1].stamp = lane[j].stamp
    BY <1>22, <2>1
  <2> QED BY <1>24, <2>1, <2>2 DEF MarksAt
<1>25. ASSUME w.state # "connected" PROVE Quiet(then, n - 1, h)
  <2>1. CASE \A j \in 0 .. n - 1 : lane[j].gen < lane[n].gen
    <3>1. n - 1 \in 0 .. n - 1 /\ (n - 1) + 1 = n
      BY <1>9
    <3>2. ASSUME NEW j \in 0 .. (n - 1) - 1 PROVE then[j].gen < then[n - 1].gen
      <4>1. j \in 0 .. n - 1 /\ j + 1 \in 0 .. n - 1
        BY <1>9
      <4> QED BY <1>22, <2>1, <3>1, <4>1
    <3> QED BY <3>2 DEF Quiet
  <2>2. CASE \A key \in FeedKeys :
               g.tracker[key].last = 0 /\ \A j \in 1 .. n : ~OnLane(lane, j, key)
    <3>1. ASSUME NEW key \in FeedKeys PROVE h.tracker[key].last = 0
      <4>1. ~OnLane(lane, 1, key) /\ g.tracker[key].last = 0
        BY <1>9, <2>2
      <4>2. TakenBy(k, lane, key, g.tracker[key].last, had[key], lost, key \in g.reconnected,
                    h.tracker[key].last, have[key], key \in h.reconnected)
        BY <1>7
      <4> QED BY <4>1, <4>2 DEF TakenBy
    <3>2. ASSUME NEW key \in FeedKeys, NEW j \in 1 .. n - 1 PROVE ~OnLane(then, j, key)
      <4>1. j + 1 \in 1 .. n
        BY <1>9
      <4> QED BY <1>19, <2>2, <4>1 DEF OnLane
    <3> QED BY <3>1, <3>2 DEF Quiet
  <2> QED BY <1>5, <1>25, <2>1, <2>2 DEF Quiet
<1>26. ASSUME w.state # "failed" PROVE \A j \in 0 .. n - 1 : then[j].gen # 0
  BY <1>5, <1>22, <1>26
<1>27. ShiftedOn(k, lane, n, then, lost, later)
  BY <1>19, <1>20, <1>24 DEF ShiftedOn, SameCell
<1>28. ASSUME NEW key \in FeedKeys
       PROVE  KeyLane(k, then, n - 1, key, h.tracker[key].last, have[key], pub[key], later,
                      key \in h.reconnected)
  <2> DEFINE marked == key \in g.reconnected
             marks == key \in h.reconnected
             last == g.tracker[key].last
             new == h.tracker[key].last
             old == had[key]
             given == have[key]
             seen == pub[key]
  <2>1. /\ last \in Nat /\ new \in Nat /\ seen \in SUBSET Nat
        /\ marked \in BOOLEAN /\ marks \in BOOLEAN
    BY DEF GatesShape, FeedTrackers
  <2>2. KeyLane(k, lane, n, key, last, old, seen, lost, marked)
    BY <1>6
  <2>3. TakenBy(k, lane, key, last, old, lost, marked, new, given, marks)
    BY <1>7
  <2> HIDE DEF marked, marks, last, new, old, given, seen
  <2>4. lost \in BOOLEAN /\ later \in BOOLEAN /\ n \in Nat /\ n > 1
    BY <1>8, <1>9
  <2>5. KeyLane(k, then, n - 1, key, new, given, seen, later, marks)
    BY <1>4, <1>27, <2>1, <2>2, <2>3, <2>4, CellConsumed
  <2> QED BY <2>5 DEF marks, new, given, seen
<1>29. then = Lane(next, frames, h) /\ n - 1 = LaneEnd(next, frames) /\ later = LostYet(k, next)
       /\ next.state = w.state
  BY <1>18 DEF then, later, Takes
<1>30. LaneInv(k, next, frames, h, pub, have)
  BY <1>23, <1>25, <1>26, <1>28, <1>29 DEF LaneInv
<1> QED BY <1>14, <1>30

\* The highest of some numbers.
LEMMA HighestIs ==
  ASSUME NEW numbers \in SUBSET Nat, NEW m \in numbers \cup {0}, \A n \in numbers : n <= m
  PROVE  FeedPart!Highest(numbers) = m
<1>1. m \in Nat /\ \A n \in numbers \cup {0} : n \in Nat /\ m >= n
  OBVIOUS
<1>2. \A x \in numbers \cup {0} : (\A n \in numbers \cup {0} : x >= n) => x = m
  BY <1>1
<1>3. FeedPart!Max(numbers \cup {0}) = m
  BY <1>1, <1>2 DEF FeedPart!Max
<1> QED BY <1>3 DEF FeedPart!Highest

\* An event that is not given yet, and says what was lost in front of it.
SaysSo(k, s, pub, e, had) ==
  /\ had = NumbersOf(s) /\ FeedPart!Highest(had) \in Nat
  /\ e.number \notin had /\ (e.late <=> e.number < FeedPart!Highest(had))
  /\ s # <<>> /\ ~e.late /\ (\E m \in FeedPart!Highest(had) + 1 .. e.number - 1 :
                              k.feed = "sparse" => m \in pub)
       => e.gap
LEMMA OneMoreGiven ==
  ASSUME NEW k, NEW s \in Seq(FeedEvents), NEW pub, HonestTo(k, s, pub),
         NEW e \in FeedEvents, NEW had, SaysSo(k, s, pub, e, had)
  PROVE  /\ HonestTo(k, Append(s, e), pub)
         /\ NumbersOf(Append(s, e)) = had \cup {e.number}
<1> USE DEF SaysSo
<1> DEFINE t == Append(s, e)
           n == Len(s) + 1
<1>1. /\ Len(s) \in Nat /\ DOMAIN s = 1 .. Len(s) /\ DOMAIN t = 1 .. n /\ t[n] = e
      /\ \A i \in 1 .. Len(s) : t[i] = s[i]
  BY AppendProperties
<1> HIDE DEF t
<1>2. ASSUME NEW i \in 1 .. n PROVE BeforeIn(t, i) = BeforeIn(s, i)
  <2>1. \A j \in 1 .. i - 1 : t[j] = s[j]
    BY <1>1
  <2> QED BY <2>1 DEF BeforeIn
<1>3. BeforeIn(s, n) = had
  <2>1. n - 1 = Len(s)
    BY <1>1
  <2> QED BY <1>1, <2>1 DEF BeforeIn, NumbersOf
<1>4. ASSUME NEW i \in 1 .. Len(s)
      PROVE  /\ FeedPart!Highest(BeforeIn(t, i)) \in Nat /\ t[i].number \notin BeforeIn(t, i)
             /\ t[i].late <=> t[i].number < FeedPart!Highest(BeforeIn(t, i))
             /\ i >= 2 /\ ~t[i].late /\ SkippedIn(k, t, i, pub) # {} => t[i].gap
  <2>1. t[i] = s[i] /\ BeforeIn(t, i) = BeforeIn(s, i) /\ i \in DOMAIN s
    BY <1>1, <1>2
  <2>2. SkippedIn(k, t, i, pub) = SkippedIn(k, s, i, pub)
    BY <2>1 DEF SkippedIn
  <2> QED BY <2>1, <2>2 DEF HonestTo
<1>5. /\ FeedPart!Highest(BeforeIn(t, n)) \in Nat /\ t[n].number \notin BeforeIn(t, n)
      /\ t[n].late <=> t[n].number < FeedPart!Highest(BeforeIn(t, n))
      /\ n >= 2 /\ ~t[n].late /\ SkippedIn(k, t, n, pub) # {} => t[n].gap
  <2>1. BeforeIn(t, n) = had /\ t[n] = e
    BY <1>1, <1>2, <1>3
  <2>2. ASSUME n >= 2, ~t[n].late, SkippedIn(k, t, n, pub) # {} PROVE t[n].gap
    <3>1. s # <<>>
      BY <1>1, <2>2
    <3>2. \E m \in FeedPart!Highest(had) + 1 .. e.number - 1 : k.feed = "sparse" => m \in pub
      BY <2>1, <2>2 DEF SkippedIn
    <3> QED BY <2>1, <2>2, <3>1, <3>2
  <2> QED BY <2>1, <2>2
<1>6. HonestTo(k, t, pub)
  <2>1. \A i \in DOMAIN t : i \in 1 .. Len(s) \/ i = n
    BY <1>1
  <2> QED BY <1>4, <1>5, <2>1 DEF HonestTo
<1>7. NumbersOf(t) = had \cup {e.number}
  <2>1. \A i \in DOMAIN t : i \in 1 .. Len(s) \/ i = n
    BY <1>1
  <2>2. n \in DOMAIN t /\ \A i \in DOMAIN s : i \in DOMAIN t
    BY <1>1
  <2> QED BY <1>1, <2>1, <2>2 DEF NumbersOf
<1> QED BY <1>6, <1>7 DEF t

LEMMA OneMorePublished ==
  ASSUME NEW k, NEW s \in Seq(FeedEvents), NEW pub, HonestTo(k, s, pub), NEW n \in Nat,
         k.feed = "sparse" => \A i \in DOMAIN s : s[i].number <= n
  PROVE  HonestTo(k, s, pub \cup {n})
<1>1. ASSUME NEW i \in DOMAIN s PROVE SkippedIn(k, s, i, pub \cup {n}) = SkippedIn(k, s, i, pub)
  <2>1. s[i].number \in Nat
    <3>1. s[i] \in FeedEvents
      OBVIOUS
    <3> QED BY <3>1 DEF FeedEvents
  <2>2. CASE k.feed = "sparse"
    <3>1. s[i].number <= n /\ FeedPart!Highest(BeforeIn(s, i)) \in Nat
      BY <2>2 DEF HonestTo
    <3>2. n \notin FeedPart!Highest(BeforeIn(s, i)) + 1 .. s[i].number - 1
      BY <2>1, <3>1
    <3> QED BY <3>2 DEF SkippedIn
  <2>3. CASE k.feed # "sparse"
    BY <2>3 DEF SkippedIn
  <2> QED BY <2>2, <2>3
<1> QED BY <1>1 DEF HonestTo

-------------------------------------------------------------------------------
\* What the step of the consumer does to the transport, and what it notices.
LEMMA TwoHighest ==
  ASSUME NEW a \in Nat, NEW b \in Nat
  PROVE  FeedPart!Max({a, b}) = (IF b > a THEN b ELSE a)
<1> DEFINE m == IF b > a THEN b ELSE a
<1>1. m \in {a, b} /\ \A y \in {a, b} : m >= y
  OBVIOUS
<1>2. \A x \in {a, b} : (\A y \in {a, b} : x >= y) => x = m
  OBVIOUS
<1> QED BY <1>1, <1>2 DEF FeedPart!Max

LEMMA ConsumerTakes ==
  ASSUME WsShape(feedKind, ws), ws.queue # <<>>, Head(ws.queue) # FeedPart!Closed,
         ws' = FeedPart!Told([ws EXCEPT !.queue = Tail(@)], Head(ws.queue).stamped)
  PROVE  Takes(feedKind, ws, ws')
<1> DEFINE stamped == Head(ws.queue).stamped
           w == [ws EXCEPT !.queue = Tail(@)]
<1>1. stamped \in Nat
  <2>1. Head(ws.queue) \in FeedItems(feedKind)
    BY HeadTailProperties DEF WsShape
  <2> QED BY <2>1, ItemCells
<1>2. /\ DOMAIN w = DOMAIN ws /\ w.queue = Tail(ws.queue) /\ w.dropped = ws.dropped
      /\ w.evicted = ws.evicted /\ w.toldEvicted = ws.toldEvicted
      /\ w.toldDropped = ws.toldDropped /\ w.generation = ws.generation /\ w.state = ws.state
  BY DEF WsShape
<1>3. ws.toldDropped \in Nat /\ ws.dropped \in Nat /\ ws.toldDropped <= ws.dropped
  BY DEF WsShape
<1> DEFINE told == IF feedKind.policy = "drop_newest" THEN FeedPart!Max({w.toldDropped, stamped})
                   ELSE FeedPart!Max({w.toldDropped, w.dropped})
<1> HIDE DEF stamped, w
<1>4. told = (IF ~Newest(feedKind) THEN ws.dropped
              ELSE IF stamped > ws.toldDropped THEN stamped ELSE ws.toldDropped)
  <2>1. CASE Newest(feedKind)
    <3>1. told = FeedPart!Max({ws.toldDropped, stamped})
      BY <1>2, <2>1 DEF Newest
    <3>2. told = (IF stamped > ws.toldDropped THEN stamped ELSE ws.toldDropped)
      BY <1>1, <1>3, <3>1, TwoHighest
    <3> QED BY <2>1, <3>2
  <2>2. CASE ~Newest(feedKind)
    <3>1. told = FeedPart!Max({ws.toldDropped, ws.dropped})
      BY <1>2, <2>2 DEF Newest
    <3>2. told = (IF ws.dropped > ws.toldDropped THEN ws.dropped ELSE ws.toldDropped)
      BY <1>3, <3>1, TwoHighest
    <3>3. told = ws.dropped
      BY <1>3, <3>2
    <3> QED BY <2>2, <3>3
  <2> QED BY <2>1, <2>2
<1>5. ws' = [w EXCEPT !.toldEvicted = w.evicted, !.toldDropped = told]
  BY <1>2 DEF FeedPart!Told, w, stamped
<1> HIDE DEF told
<1>6. /\ DOMAIN ws' = DOMAIN ws /\ ws'.queue = Tail(ws.queue) /\ ws'.dropped = ws.dropped
      /\ ws'.evicted = ws.evicted /\ ws'.toldEvicted = ws.evicted /\ ws'.toldDropped = told
      /\ ws'.generation = ws.generation /\ ws'.state = ws.state
  BY <1>2, <1>5 DEF WsShape
<1> QED BY <1>4, <1>6 DEF Takes, stamped

LEMMA ConsumerNotices ==
  ASSUME FeedShape, NEW item,
         NEW lost \in BOOLEAN
  PROVE  LET h == FeedPart!Noticed(item, lost)
         IN  /\ DOMAIN h = {"tracker", "reconnected", "seen", "open"}
             /\ h.tracker = gates.tracker /\ h.open = gates.open /\ h.seen = item.generation
             /\ h.reconnected =
                  IF item.generation # gates.seen \/ lost
                  THEN {k \in FeedKeys : gates.tracker[k].last # 0} ELSE gates.reconnected
<1>1. DOMAIN gates = {"tracker", "reconnected", "seen", "open"}
  BY DEF FeedShape, GatesShape
<1>2. CASE item.generation # gates.seen \/ lost
  <2> DEFINE g == [gates EXCEPT !.seen = item.generation]
             h == [g EXCEPT !.reconnected = {k \in FeedKeys : g.tracker[k].last # 0}]
  <2>1. /\ DOMAIN g = {"tracker", "reconnected", "seen", "open"} /\ g.tracker = gates.tracker
        /\ g.open = gates.open /\ g.seen = item.generation
    BY <1>1
  <2>2. FeedPart!Noticed(item, lost) = h
    BY <1>2 DEF FeedPart!Noticed, FeedPart!MarkReconnected
  <2> HIDE DEF g
  <2>3. /\ DOMAIN h = {"tracker", "reconnected", "seen", "open"} /\ h.tracker = gates.tracker
        /\ h.open = gates.open /\ h.seen = item.generation
        /\ h.reconnected = {k \in FeedKeys : gates.tracker[k].last # 0}
    BY <2>1
  <2> QED BY <1>2, <2>2, <2>3
<1>3. CASE ~(item.generation # gates.seen \/ lost)
  <2>1. FeedPart!Noticed(item, lost) = gates
    BY <1>3 DEF FeedPart!Noticed
  <2> QED BY <1>1, <1>3, <2>1
<1> QED BY <1>2, <1>3

\* It notices exactly what the first cell of the lane marks.
LEMMA NoticesMarks ==
  ASSUME FeedShape, NEW item, NEW lane, lane[1].gen = item.generation,
         lane[1].stamp = item.stamped, lane[0].gen = gates.seen,
         lane[0].stamp = ws.toldDropped
  PROVE  (item.generation # gates.seen \/ FeedPart!LostBefore(ws, item.stamped))
           <=> MarksAt(feedKind, lane, 1, LostYet(feedKind, ws))
<1>1. 1 - 1 = 0
  OBVIOUS
<1> QED BY <1>1 DEF MarksAt, LostYet, FeedPart!LostBefore, Newest

\* The item that the consumer takes is the first cell of the lane.
FirstCell(item, lane) ==
  /\ item.frame \in FeedFrames(feedKind) /\ item.generation \in Nat \ {0}
  /\ FeedPart!IsData(item.frame) <=> item.frame.data
  /\ item.frame.data => /\ item.frame \in DataFrames(feedKind) /\ item.frame.key \in FeedKeys
                        /\ item.frame.number \in Nat \ {0}
                        /\ lane[1].number = item.frame.number
  /\ \A q \in FeedKeys : OnLane(lane, 1, q) <=> item.frame.data /\ item.frame.key = q
  /\ (item.generation # gates.seen \/ FeedPart!LostBefore(ws, item.stamped))
       <=> MarksAt(feedKind, lane, 1, LostYet(feedKind, ws))
  /\ FeedPart!LostBefore(ws, item.stamped) \in BOOLEAN
LEMMA FirstCellIs ==
  ASSUME FeedInv, ws.queue # <<>>, Head(ws.queue) # FeedPart!Closed,
         NEW item, item = Head(ws.queue), NEW lane, lane = Lane(ws, wire, gates)
  PROVE  FirstCell(item, lane)
<1>1. FeedShape /\ WsShape(feedKind, ws) /\ wire \in Seq(FeedFrames(feedKind)) /\ GatesShape(gates)
  BY DEF FeedInv, FeedShape
<1>2. /\ Len(ws.queue) \in Nat \ {0} /\ item = ws.queue[1] /\ item \in FeedItems(feedKind)
  BY <1>1, HeadTailProperties DEF WsShape
<1>3. /\ item.generation \in Nat \ {0} /\ item.stamped \in Nat
      /\ item.frame \in FeedFrames(feedKind)
      /\ ItemCell(item) = FrameCell(item.frame, item.generation, item.stamped)
  BY <1>2, ItemCells
<1>4. LaneIs(ws, wire, gates, lane, LaneEnd(ws, wire))
  BY <1>1, LaneFacts
<1>5. lane[1] = FrameCell(item.frame, item.generation, item.stamped)
  <2>1. 1 \in 1 .. Len(ws.queue)
    BY <1>2
  <2> QED BY <1>2, <1>3, <1>4, <2>1 DEF LaneIs
<1>6. /\ lane[1].gen = item.generation /\ lane[1].stamp = item.stamped
      /\ FeedPart!IsData(item.frame) <=> item.frame.data
      /\ item.frame.data => /\ item.frame \in DataFrames(feedKind)
                            /\ item.frame.key \in FeedKeys
                            /\ item.frame.number \in Nat \ {0}
                            /\ lane[1].of = {item.frame.key}
                            /\ lane[1].number = item.frame.number
      /\ ~item.frame.data => lane[1].of = {}
  <2>1. item.generation \in Nat
    BY <1>3
  <2> QED BY <1>3, <1>5, <2>1, FrameCells
<1>7. lane[0].gen = gates.seen /\ lane[0].stamp = ws.toldDropped
  BY <1>4 DEF LaneIs, LaneTyped
<1>8. \A q \in FeedKeys : OnLane(lane, 1, q) <=> item.frame.data /\ item.frame.key = q
  BY <1>6 DEF OnLane
<1>9. (item.generation # gates.seen \/ FeedPart!LostBefore(ws, item.stamped))
        <=> MarksAt(feedKind, lane, 1, LostYet(feedKind, ws))
  BY <1>1, <1>6, <1>7, NoticesMarks
<1>10. FeedPart!LostBefore(ws, item.stamped) \in BOOLEAN
  <2>1. CASE feedKind.policy = "drop_newest"
    BY <2>1 DEF FeedPart!LostBefore
  <2>2. CASE feedKind.policy # "drop_newest"
    BY <2>2 DEF FeedPart!LostBefore
  <2> QED BY <2>1, <2>2
<1> QED BY <1>3, <1>6, <1>8, <1>9, <1>10 DEF FirstCell

\* What each case of the step must show, for each key.
MetFor(lane, q) ==
  /\ TakenBy(feedKind, lane, q, gates.tracker[q].last, HadBy[q], LostYet(feedKind, ws),
             q \in gates.reconnected, gates'.tracker[q].last, HadBy'[q],
             q \in gates'.reconnected)
  /\ HonestTo(feedKind, got'[q], FeedPart!Published(q))
  /\ NumbersOf(got'[q]) \subseteq FeedPart!Published(q)
  /\ gates'.tracker[q].last \in FeedPart!Published(q) \cup {0}
  /\ gates'.open => TrackOk(feedKind, gates'.tracker[q], NumbersOf(got'[q]))
\* A key that the item shows no event of: what it knows stays, and a mark is kept.
Untouched(h, q) ==
  /\ h.tracker[q] = gates.tracker[q] /\ got'[q] = got[q]
  /\ LET item == Head(ws.queue)
     IN  /\ gates.tracker[q].last # 0
         /\ \/ item.generation # gates.seen \/ FeedPart!LostBefore(ws, item.stamped)
            \/ q \in gates.reconnected
         => q \in h.reconnected
LEMMA UntouchedMet ==
  ASSUME FeedInv, gates.open, NEW lane, lane = Lane(ws, wire, gates),
         FirstCell(Head(ws.queue), lane), NEW q \in FeedKeys, Untouched(gates', q),
         ~OnLane(lane, 1, q)
  PROVE  MetFor(lane, q)
<1>1. HadBy[q] = NumbersOf(got[q]) /\ HadBy'[q] = NumbersOf(got'[q]) /\ got'[q] = got[q]
      /\ gates'.tracker[q] = gates.tracker[q]
  BY DEF HadBy, GivenTo, Untouched
<1>2. gates.tracker[q].last # 0
        /\ (q \in gates.reconnected \/ MarksAt(feedKind, lane, 1, LostYet(feedKind, ws)))
          => q \in gates'.reconnected
  BY DEF Untouched, FirstCell
<1>3. TakenBy(feedKind, lane, q, gates.tracker[q].last, HadBy[q], LostYet(feedKind, ws),
              q \in gates.reconnected, gates'.tracker[q].last, HadBy'[q],
              q \in gates'.reconnected)
  <2>1. gates'.tracker[q].last = gates.tracker[q].last /\ HadBy'[q] = HadBy[q]
    BY <1>1
  <2> QED BY <1>2, <2>1, Zenon DEF TakenBy
<1>4. /\ HonestTo(feedKind, got[q], FeedPart!Published(q))
      /\ NumbersOf(got[q]) \subseteq FeedPart!Published(q)
      /\ gates.tracker[q].last \in FeedPart!Published(q) \cup {0}
      /\ TrackOk(feedKind, gates.tracker[q], NumbersOf(got[q]))
  BY DEF FeedInv, PublishedOk, GivenTo
<1> QED BY <1>1, <1>3, <1>4 DEF MetFor

\* What the consumer notices before it judges the event.
NoticedBy(item, h) ==
  /\ GatesShape(h) /\ h.tracker = gates.tracker /\ h.open = gates.open
  /\ h.seen = item.generation
  /\ \A q \in FeedKeys :
       gates.tracker[q].last # 0
         /\ \/ item.generation # gates.seen \/ FeedPart!LostBefore(ws, item.stamped)
            \/ q \in gates.reconnected
         => q \in h.reconnected
LEMMA NoticedIs ==
  ASSUME FeedInv, NEW item, item.generation \in Nat \ {0},
         FeedPart!LostBefore(ws, item.stamped) \in BOOLEAN,
         NEW h, h = FeedPart!Noticed(item, FeedPart!LostBefore(ws, item.stamped))
  PROVE  NoticedBy(item, h)
<1>1. FeedShape /\ GatesShape(gates)
  BY DEF FeedInv, FeedShape
<1> DEFINE noticed == item.generation # gates.seen \/ FeedPart!LostBefore(ws, item.stamped)
<1>2. /\ DOMAIN h = {"tracker", "reconnected", "seen", "open"}
      /\ h.tracker = gates.tracker /\ h.open = gates.open /\ h.seen = item.generation
      /\ h.reconnected = IF noticed THEN {q \in FeedKeys : gates.tracker[q].last # 0}
                         ELSE gates.reconnected
  BY <1>1, ConsumerNotices
<1> HIDE DEF noticed
<1>3. GatesShape(h)
  BY <1>1, <1>2 DEF GatesShape
<1>4. ASSUME NEW q \in FeedKeys, gates.tracker[q].last # 0, noticed \/ q \in gates.reconnected
      PROVE  q \in h.reconnected
  BY <1>2, <1>4
<1> QED BY <1>2, <1>3, <1>4 DEF NoticedBy, noticed

\* The event comes as the lane says: published, ahead of what was given, and after a mark
\* where something in between is lost.
EventIs(item, key, h) ==
  /\ item.frame.number \in FeedPart!Published(key)
  /\ IsAhead(feedKind, gates.tracker[key].last, HadBy[key], item.frame.number)
  /\ feedKind.feed = "sparse" /\ gates.tracker[key].last # 0
       /\ (\E m \in FeedPart!Published(key) :
             gates.tracker[key].last < m /\ m < item.frame.number)
     => key \in h.reconnected
LEMMA EventIsAhead ==
  ASSUME FeedInv, ws.queue # <<>>, NEW lane, lane = Lane(ws, wire, gates), NEW item,
         FirstCell(item, lane), item.frame.data, NEW key, key = item.frame.key,
         NEW h, NoticedBy(item, h)
  PROVE  EventIs(item, key, h)
<1>1. /\ WsShape(feedKind, ws) /\ wire \in Seq(FeedFrames(feedKind)) /\ key \in FeedKeys
      /\ OnLane(lane, 1, key) /\ lane[1].number = item.frame.number
  BY DEF FeedInv, FeedShape, FirstCell
<1> DEFINE n == LaneEnd(ws, wire)
           last == gates.tracker[key].last
           pub == FeedPart!Published(key)
           lost == LostYet(feedKind, ws)
           marked == key \in gates.reconnected
<1>2. 1 \in 1 .. n /\ n # 1
  <2>1. Len(ws.queue) # 0 /\ Len(ws.queue) \in Nat
    BY <1>1 DEF WsShape
  <2> QED BY <1>1, <2>1, LaneLength
<1>3. KeyLane(feedKind, lane, n, key, last, HadBy[key], pub, lost, marked)
  BY <1>1 DEF FeedInv, LaneInv, PubBy
<1> HIDE DEF n, last, pub, lost, marked
<1>4. lane[1].number \in pub /\ IsAhead(feedKind, last, HadBy[key], lane[1].number)
  BY <1>1, <1>2, <1>3 DEF KeyLane, Ordered
<1>5. ASSUME feedKind.feed = "sparse", last # 0, NEW m \in pub, last < m, m < lane[1].number
      PROVE  key \in h.reconnected
  <2>1. \A q \in 1 .. 1 - 1 : FALSE
    OBVIOUS
  <2>2. Beyond(lane, 1, key, last, m)
    BY <1>5, <2>1 DEF Beyond
  <2>3. IsMarked(feedKind, lane, 1, key, lost, marked)
    BY <1>1, <1>2, <1>3, <1>5, <2>2 DEF KeyLane, Covered
  <2>4. PICK p \in 0 .. 1 : IF p = 0 THEN marked ELSE MarksAt(feedKind, lane, p, lost)
    BY <2>3 DEF IsMarked
  <2>5. marked \/ MarksAt(feedKind, lane, 1, lost)
    <3>1. p = 0 \/ p = 1
      BY <2>4
    <3> QED BY <2>4, <3>1
  <2> QED BY <1>1, <1>5, <2>5 DEF NoticedBy, FirstCell, last, lost, marked
<1> QED BY <1>1, <1>4, <1>5 DEF EventIs, last, pub

\* The event is given, or it is not: it was given before, or the caller asked to be stopped.
AdmittedAs(key, h, c, e) ==
  /\ gates'.tracker[key] = c.next
  /\ e.gap <=> \/ feedKind.feed = "sparse" /\ key \in h.reconnected
               \/ feedKind.feed # "sparse" /\ c.outcome = "gap"
  /\ e.late <=> c.outcome = "out_of_order"
  /\ \/ c.outcome # "duplicate" /\ got'[key] = Append(got[key], e)
     \/ got'[key] = got[key] /\ (gates'.open => c.outcome = "duplicate")
Gives(item, key, h, c, e) ==
  /\ EventIs(item, key, h) /\ AdmittedAs(key, h, c, e) /\ e.number = item.frame.number
  /\ Judged(feedKind, gates.tracker[key], NumbersOf(got[key]), e.number, c)
  /\ got'[key] = Append(got[key], e) /\ c.outcome # "duplicate" /\ gates.open
NowGiven(key, e) == NumbersOf(got'[key]) = NumbersOf(got[key]) \cup {e.number}
LEMMA EventGiven ==
  ASSUME FeedInv, NEW item, NEW key \in FeedKeys, NEW h,
         NEW e \in FeedEvents, NEW c, Gives(item, key, h, c, e)
  PROVE  HonestTo(feedKind, got'[key], FeedPart!Published(key)) /\ NowGiven(key, e)
<1> USE DEF Gives
<1> DEFINE t == gates.tracker[key]
           s == got[key]
           had == NumbersOf(s)
           pub == FeedPart!Published(key)
           n == e.number
<1>1. /\ s \in Seq(FeedEvents) /\ t \in FeedTrackers /\ HonestTo(feedKind, s, pub)
      /\ TrackOk(feedKind, t, had) /\ had \in SUBSET pub
      /\ feedKind \in FeedPart!Kinds
  BY DEF FeedInv, FeedShape, GatesShape, PublishedOk, GivenTo
<1>2. n \in Nat \ {0} /\ t.last \in Nat
  BY <1>1 DEF FeedEvents, FeedTrackers
<1>3. IsAhead(feedKind, t.last, had, n)
  BY DEF EventIs, HadBy, GivenTo
<1>4. had \in SUBSET (Nat \ {0})
  <2>1. ASSUME NEW i \in DOMAIN s PROVE s[i].number \in Nat \ {0}
    <3>1. s[i] \in FeedEvents
      BY <1>1
    <3> QED BY <3>1 DEF FeedEvents
  <2> QED BY <2>1 DEF NumbersOf
<1>5. s # <<>> => had # {}
  <2>1. ASSUME s # <<>> PROVE 1 \in DOMAIN s
    BY <1>1, <2>1
  <2> QED BY <2>1 DEF NumbersOf
<1> HIDE DEF t, had, n, pub
<1>6. CASE had # {}
  <2>1. t.last \in had /\ \A m \in had : m <= t.last
    BY <1>1, <1>6 DEF TrackOk
  <2>2. FeedPart!Highest(had) = t.last
    <3>1. had \in SUBSET Nat /\ t.last \in had \cup {0}
      BY <1>4, <2>1
    <3> QED BY <2>1, <3>1, HighestIs
  <2>3. t.last # 0
    BY <1>4, <2>1
  <2>4. e.late <=> n < t.last
    BY DEF Judged, AdmittedAs, t, n
  <2>5. ASSUME ~e.late, NEW m \in t.last + 1 .. n - 1, feedKind.feed = "sparse" => m \in pub
        PROVE  e.gap
    <3>1. t.last < m /\ m < n /\ n > t.last + 1
      BY <1>2, <2>5
    <3>2. CASE feedKind.feed = "sparse"
      BY <2>3, <2>5, <3>1, <3>2 DEF EventIs, AdmittedAs, t, n, pub
    <3>3. CASE feedKind.feed # "sparse"
      BY <2>3, <3>1, <3>3 DEF Judged, AdmittedAs, t, n
    <3> QED BY <3>2, <3>3
  <2>6. n \notin had
    BY DEF Judged, n, had
  <2>7. HonestTo(feedKind, Append(s, e), pub) /\ NumbersOf(Append(s, e)) = had \cup {e.number}
    <3>1. SaysSo(feedKind, s, pub, e, had)
      BY <1>2, <2>2, <2>4, <2>5, <2>6 DEF SaysSo, had, n
    <3> HIDE DEF s
    <3> QED BY <1>1, <3>1, OneMoreGiven
  <2> QED BY <2>7 DEF had, pub, NowGiven
<1>7. CASE had = {}
  <2>1. FeedPart!Highest(had) = 0
    BY <1>7, HighestIs
  <2>2. ~e.late
    <3>1. t.last <= n
      BY <1>1, <1>2, <1>3, <1>7 DEF IsAhead, TrackOk
    <3> QED BY <1>2, <3>1 DEF Judged, AdmittedAs, t, n
  <2>3. s = <<>>
    BY <1>5, <1>7
  <2>4. HonestTo(feedKind, Append(s, e), pub) /\ NumbersOf(Append(s, e)) = had \cup {e.number}
    <3>1. (e.late <=> e.number < 0) /\ e.number \notin had /\ 0 \in Nat
      BY <1>2, <1>7, <2>2 DEF n
    <3>2. SaysSo(feedKind, s, pub, e, had)
      BY <2>1, <2>3, <3>1 DEF SaysSo, had
    <3> HIDE DEF s
    <3> QED BY <1>1, <3>2, OneMoreGiven
  <2> QED BY <2>4 DEF had, pub, NowGiven
<1> QED BY <1>6, <1>7

LEMMA AdmittedMet ==
  ASSUME FeedInv, gates.open, ws.queue # <<>>, NEW lane, lane = Lane(ws, wire, gates), NEW item,
         FirstCell(item, lane), item.frame.data, NEW key, key = item.frame.key,
         NEW h, NoticedBy(item, h), NEW e \in FeedEvents, e.number = item.frame.number, NEW c,
         c = FeedPart!Classify(gates.tracker[key], item.frame.number),
         AdmittedAs(key, h, c, e)
  PROVE  /\ MetFor(lane, key) /\ c.next \in FeedTrackers
         /\ got'[key] \in Seq(FeedEvents)
<1> DEFINE t == gates.tracker[key]
           had == NumbersOf(got[key])
           pub == FeedPart!Published(key)
           n == e.number
<1>1. /\ key \in FeedKeys /\ n \in Nat \ {0} /\ lane[1].number = n /\ OnLane(lane, 1, key)
  BY DEF FirstCell
<1>2. /\ got[key] \in Seq(FeedEvents) /\ t \in FeedTrackers
      /\ HonestTo(feedKind, got[key], pub) /\ TrackOk(feedKind, t, had) /\ had \in SUBSET pub
      /\ t.last \in pub \cup {0} /\ feedKind \in FeedPart!Kinds
  BY <1>1 DEF FeedInv, FeedShape, GatesShape, PublishedOk, GivenTo
<1>3. had \in SUBSET Nat
  <2>1. ASSUME NEW i \in DOMAIN got[key] PROVE got[key][i].number \in Nat
    <3>1. got[key][i] \in FeedEvents
      BY <1>2
    <3> QED BY <3>1 DEF FeedEvents
  <2> QED BY <2>1 DEF NumbersOf
<1>4. EventIs(item, key, h)
  BY EventIsAhead
<1>5. HadBy[key] = had /\ HadBy'[key] = NumbersOf(got'[key])
  BY <1>1 DEF HadBy, GivenTo
<1>6. n \in pub /\ IsAhead(feedKind, t.last, had, n)
  BY <1>4, <1>5 DEF EventIs
<1>7. Judged(feedKind, t, had, n, c)
  <2> HIDE DEF t, had
  <2>1. c = FeedPart!Classify(t, n)
    BY DEF t
  <2> QED BY <1>1, <1>2, <1>3, <1>6, <2>1, EventJudged
<1> DEFINE have == NumbersOf(got'[key])
<1>8. /\ HonestTo(feedKind, got'[key], pub) /\ have \subseteq had \cup {n}
      /\ gates'.open => TrackOk(feedKind, c.next, have)
      /\ got'[key] \in Seq(FeedEvents)
  <2>1. CASE c.outcome # "duplicate" /\ got'[key] = Append(got[key], e)
    <3>1. HonestTo(feedKind, got'[key], pub) /\ have = had \cup {n}
      <4>1. Gives(item, key, h, c, e)
        BY <1>4, <1>7, <2>1 DEF Gives
      <4>2. key \in FeedKeys
        BY <1>1
      <4>3. HonestTo(feedKind, got'[key], pub)
        BY <4>1, <4>2, EventGiven
      <4>4. NowGiven(key, e)
        BY <4>1, <4>2, EventGiven
      <4> QED BY <4>3, <4>4 DEF NowGiven
    <3>2. TrackOk(feedKind, c.next, had \cup {n})
      BY <1>7, <2>1 DEF Judged
    <3>3. Append(got[key], e) \in Seq(FeedEvents)
      BY <1>2
    <3> QED BY <2>1, <3>1, <3>2, <3>3
  <2>2. CASE got'[key] = got[key] /\ (gates'.open => c.outcome = "duplicate")
    BY <1>2, <1>7, <2>2 DEF Judged
  <2> QED BY <2>1, <2>2 DEF AdmittedAs
<1> HIDE DEF t, had, pub, n, have
<1>9. c.next \in FeedTrackers /\ c.next.last \in {t.last, n}
      /\ (feedKind.feed # "plain" => c.next.last = n)
  BY <1>7 DEF Judged
<1>10. TakenBy(feedKind, lane, key, t.last, had, LostYet(feedKind, ws),
               key \in gates.reconnected, c.next.last, have, key \in gates'.reconnected)
  BY <1>1, <1>8, <1>9 DEF TakenBy
<1>11. gates'.tracker[key] = c.next
  BY DEF AdmittedAs
<1>12. have \subseteq pub /\ c.next.last \in pub \cup {0}
  BY <1>2, <1>6, <1>8, <1>9
<1> QED BY <1>5, <1>8, <1>9, <1>10, <1>11, <1>12 DEF MetFor, t, had, pub, have

\* The three cases of the step: control, the event that seeds a tracker, and any other.
Consuming(item, lane, h) ==
  /\ FeedInv /\ gates.open /\ ws.queue # <<>> /\ item = Head(ws.queue)
  /\ item # FeedPart!Closed /\ lane = Lane(ws, wire, gates)
  /\ h = FeedPart!Noticed(item, FeedPart!LostBefore(ws, item.stamped))
StepMet(item, lane) ==
  /\ GatesShape(gates') /\ got' \in [FeedKeys -> Seq(FeedEvents)]
  /\ gates'.seen = item.generation /\ \A q \in FeedKeys : MetFor(lane, q)
LEMMA ConsumingFacts ==
  ASSUME NEW item, NEW lane, NEW h, Consuming(item, lane, h)
  PROVE  FirstCell(item, lane) /\ NoticedBy(item, h) /\ FeedShape
<1>1. FirstCell(item, lane)
  BY FirstCellIs DEF Consuming
<1>2. NoticedBy(item, h)
  <2>1. item.generation \in Nat \ {0} /\ FeedPart!LostBefore(ws, item.stamped) \in BOOLEAN
    BY <1>1 DEF FirstCell
  <2> QED BY <2>1, NoticedIs DEF Consuming
<1> QED BY <1>1, <1>2 DEF Consuming, FeedInv

LEMMA OthersMet ==
  ASSUME NEW item, NEW lane, NEW h, Consuming(item, lane, h), NEW q \in FeedKeys,
         ~(item.frame.data /\ item.frame.key = q), got'[q] = got[q],
         gates'.tracker[q] = h.tracker[q], q \in h.reconnected => q \in gates'.reconnected
  PROVE  MetFor(lane, q)
<1>1. FirstCell(item, lane) /\ NoticedBy(item, h)
  BY ConsumingFacts
<1>2. Untouched(gates', q)
  BY <1>1 DEF Untouched, NoticedBy, Consuming
<1>3. ~OnLane(lane, 1, q)
  BY <1>1 DEF FirstCell
<1> QED BY <1>1, <1>2, <1>3, UntouchedMet DEF Consuming

LEMMA ControlMet ==
  ASSUME NEW item, NEW lane, NEW h, Consuming(item, lane, h), ~item.frame.data,
         gates' = h, got' = got
  PROVE  StepMet(item, lane)
<1>1. FirstCell(item, lane) /\ NoticedBy(item, h) /\ FeedShape
  BY ConsumingFacts
<1>2. \A q \in FeedKeys : MetFor(lane, q)
  <2>1. ASSUME NEW q \in FeedKeys PROVE MetFor(lane, q)
    <3>1. /\ got'[q] = got[q] /\ gates'.tracker[q] = h.tracker[q]
          /\ q \in h.reconnected => q \in gates'.reconnected
      OBVIOUS
    <3> QED BY <3>1, OthersMet
  <2> QED BY <2>1
<1> QED BY <1>1, <1>2 DEF StepMet, NoticedBy, FeedShape

LEMMA SeedMet ==
  ASSUME NEW item, NEW lane, NEW h, Consuming(item, lane, h), item.frame.data,
         FeedPart!Seeds(h, item.frame), FeedPart!Seed(h, item.frame)
  PROVE  StepMet(item, lane)
<1> DEFINE key == item.frame.key
           n == item.frame.number
           t == gates.tracker[key]
           c == FeedPart!Classify(t, n)
           had == NumbersOf(got[key])
           pub == FeedPart!Published(key)
<1>1. FirstCell(item, lane) /\ NoticedBy(item, h) /\ FeedShape
  BY ConsumingFacts
<1>2. /\ key \in FeedKeys /\ n \in Nat \ {0} /\ item.frame \in DataFrames(feedKind)
      /\ OnLane(lane, 1, key) /\ lane[1].number = n
  BY <1>1 DEF FirstCell
<1>3. item.frame.last /\ t.last = 0 /\ got' = got
  BY <1>1 DEF FeedPart!Seeds, FeedPart!Seed, NoticedBy
<1>4. feedKind.feed = "contiguous"
  BY <1>2, <1>3 DEF DataFrames
<1>5. /\ GatesShape(h) /\ h.tracker = gates.tracker /\ h.open = gates.open
      /\ h.seen = item.generation
  BY <1>1 DEF NoticedBy
<1>6. gates' = [h EXCEPT !.tracker[key] = c.next]
  BY <1>2, <1>5 DEF FeedPart!Seed, GatesShape
<1> HIDE DEF c
<1>7. /\ DOMAIN gates' = {"tracker", "reconnected", "seen", "open"}
      /\ gates'.tracker = [gates.tracker EXCEPT ![key] = c.next]
      /\ gates'.reconnected = h.reconnected /\ gates'.seen = h.seen /\ gates'.open = h.open
  BY <1>5, <1>6 DEF GatesShape
<1>8. gates.tracker \in [FeedKeys -> FeedTrackers]
  BY <1>1 DEF FeedShape, GatesShape
<1>9. /\ t \in FeedTrackers /\ TrackOk(feedKind, t, had) /\ had = {}
      /\ HonestTo(feedKind, got[key], pub) /\ feedKind \in FeedPart!Kinds
  <2>1. TrackOk(feedKind, t, had)
    BY <1>2 DEF Consuming, FeedInv, GivenTo
  <2>2. had = {}
    BY <1>3, <2>1 DEF TrackOk
  <2> QED BY <1>1, <1>2, <1>8, <2>1, <2>2 DEF Consuming, FeedInv, FeedShape
<1>10. n \in pub
  <2>1. EventIs(item, key, h)
    BY <1>1, EventIsAhead DEF Consuming
  <2> QED BY <2>1 DEF EventIs
<1>11. Judged(feedKind, t, {}, n, c)
  <2>1. IsAhead(feedKind, t.last, {}, n)
    BY <1>2, <1>3, <1>4 DEF IsAhead
  <2>2. TrackOk(feedKind, t, {}) /\ {} \in SUBSET Nat
    BY <1>9
  <2> HIDE DEF t
  <2> QED BY <1>2, <1>9, <2>1, <2>2, EventJudged DEF c
<1>12. c.next \in FeedTrackers /\ c.next.last = n /\ TrackOk(feedKind, c.next, {})
  <2>1. c.next \in FeedTrackers /\ c.next.last = n
    BY <1>4, <1>11 DEF Judged
  <2>2. c.outcome # "duplicate"
    BY <1>2, <1>3, <1>11, <2>1 DEF Judged
  <2>3. TrackOk(feedKind, c.next, {} \cup {n})
    BY <1>11, <2>2 DEF Judged
  <2>4. TrackOk(feedKind, c.next, {})
    BY <1>4, <2>3 DEF TrackOk
  <2> QED BY <2>1, <2>4
<1>13. MetFor(lane, key)
  <2>1. HadBy[key] = {} /\ HadBy'[key] = {} /\ NumbersOf(got'[key]) = {} /\ got'[key] = got[key]
    BY <1>2, <1>3, <1>9 DEF HadBy, GivenTo
  <2>2. gates'.tracker[key] = c.next
    BY <1>2, <1>7, <1>8
  <2> HIDE DEF t, pub, n, key
  <2>3. TakenBy(feedKind, lane, key, t.last, {}, LostYet(feedKind, ws),
                key \in gates.reconnected, c.next.last, {}, key \in gates'.reconnected)
    BY <1>2, <1>4, <1>12 DEF TakenBy
  <2> QED BY <1>9, <1>10, <1>12, <2>1, <2>2, <2>3 DEF MetFor, t, pub
<1>14. ASSUME NEW q \in FeedKeys, q # key PROVE MetFor(lane, q)
  <2>1. /\ got'[q] = got[q] /\ gates'.tracker[q] = h.tracker[q]
        /\ q \in h.reconnected => q \in gates'.reconnected
    BY <1>3, <1>5, <1>7, <1>8, <1>14
  <2> QED BY <1>14, <2>1, OthersMet
<1>15. GatesShape(gates')
  <2>1. gates'.tracker \in [FeedKeys -> FeedTrackers]
    BY <1>7, <1>8, <1>12
  <2> QED BY <1>5, <1>7, <2>1 DEF GatesShape
<1> HIDE DEF key
<1> QED BY <1>1, <1>3, <1>5, <1>7, <1>13, <1>14, <1>15 DEF StepMet, FeedShape

LEMMA AdmitMet ==
  ASSUME NEW item, NEW lane, NEW h, Consuming(item, lane, h), item.frame.data,
         FeedPart!Admit(h, item.frame)
  PROVE  StepMet(item, lane)
<1> DEFINE key == item.frame.key
           n == item.frame.number
           t == gates.tracker[key]
           c == FeedPart!Classify(t, n)
           gap == FeedPart!GapFlag(c.outcome, key, h)
           given == c.outcome # "duplicate"
           isLate == c.outcome = "out_of_order"
           e == [number |-> n, gap |-> gap, late |-> isLate]
<1>1. FirstCell(item, lane) /\ NoticedBy(item, h) /\ FeedShape
  BY ConsumingFacts
<1>2. key \in FeedKeys /\ n \in Nat \ {0}
  BY <1>1 DEF FirstCell
<1>3. /\ GatesShape(h) /\ h.tracker = gates.tracker /\ h.open = gates.open
      /\ h.seen = item.generation
  BY <1>1 DEF NoticedBy
<1>4. /\ gap \in BOOLEAN
      /\ gap <=> \/ feedKind.feed = "sparse" /\ key \in h.reconnected
                 \/ feedKind.feed # "sparse" /\ c.outcome = "gap"
  <2> HIDE DEF c, key
  <2>1. CASE feedKind.feed = "sparse"
    <3>1. gap = (key \in h.reconnected)
      BY <2>1, Zenon DEF FeedPart!GapFlag
    <3> HIDE DEF gap
    <3>2. gap \in BOOLEAN /\ (gap <=> key \in h.reconnected)
      <4>1. CASE key \in h.reconnected
        <5>1. gap = TRUE
          BY <3>1, <4>1, Zenon
        <5> QED BY <4>1, <5>1
      <4>2. CASE key \notin h.reconnected
        <5>1. (key \in h.reconnected) = FALSE
          BY <4>2
        <5>2. gap = FALSE
          BY <3>1, <5>1, Zenon
        <5> QED BY <4>2, <5>2
      <4> QED BY <4>1, <4>2
    <3> QED BY <2>1, <3>2
  <2>2. CASE feedKind.feed # "sparse"
    <3>1. gap = (c.outcome = "gap")
      BY <2>2, Zenon DEF FeedPart!GapFlag
    <3> HIDE DEF gap
    <3>2. gap \in BOOLEAN /\ (gap <=> c.outcome = "gap")
      BY <3>1, Zenon
    <3> QED BY <2>2, <3>2
  <2> QED BY <2>1, <2>2
<1>5. /\ gates' = [h EXCEPT !.tracker[key] = c.next,
                            !.reconnected = IF given THEN @ \ {key} ELSE @,
                            !.open = ~(given /\ gap /\ feedKind.raises)]
      /\ got' = IF given /\ ~(gap /\ feedKind.raises)
                THEN [got EXCEPT ![key] = Append(@, e)] ELSE got
  BY <1>3 DEF FeedPart!Admit
<1> HIDE DEF c, gap
<1>6. /\ DOMAIN gates' = {"tracker", "reconnected", "seen", "open"}
      /\ gates'.tracker = [gates.tracker EXCEPT ![key] = c.next]
      /\ gates'.reconnected = (IF given THEN h.reconnected \ {key} ELSE h.reconnected)
      /\ gates'.seen = h.seen /\ gates'.open = ~(given /\ gap /\ feedKind.raises)
  BY <1>3, <1>5 DEF GatesShape
<1>7. gates.tracker \in [FeedKeys -> FeedTrackers] /\ got \in [FeedKeys -> Seq(FeedEvents)]
      /\ feedKind.raises \in BOOLEAN
  BY <1>1 DEF FeedShape, GatesShape, FeedPart!Kinds
<1>8. gates'.tracker[key] = c.next
  BY <1>2, <1>6, <1>7
<1>9. e \in FeedEvents
  BY <1>2, <1>4 DEF FeedEvents
<1>10. \/ given /\ got'[key] = Append(got[key], e)
       \/ got'[key] = got[key] /\ (gates'.open => c.outcome = "duplicate")
  <2> HIDE DEF e
  <2>1. CASE given /\ ~(gap /\ feedKind.raises)
    <3>1. got' = [got EXCEPT ![key] = Append(@, e)]
      BY <1>5, <2>1
    <3>2. got'[key] = Append(got[key], e)
      BY <1>2, <1>7, <3>1
    <3> QED BY <2>1, <3>2
  <2>2. CASE ~(given /\ ~(gap /\ feedKind.raises))
    <3>1. got' = got
      BY <1>5, <2>2
    <3>2. gates'.open => c.outcome = "duplicate"
      BY <1>6, <2>2
    <3> QED BY <3>1, <3>2
  <2> QED BY <2>1, <2>2
<1>11. AdmittedAs(key, h, c, e)
  <2>1. e.gap = gap /\ e.late = isLate
    OBVIOUS
  <2> HIDE DEF e
  <2> QED BY <1>4, <1>8, <1>10, <2>1 DEF AdmittedAs
<1>12. MetFor(lane, key) /\ c.next \in FeedTrackers /\ got'[key] \in Seq(FeedEvents)
  <2>1. e.number = n
    OBVIOUS
  <2> HIDE DEF e
  <2> QED BY <1>1, <1>9, <1>11, <2>1, AdmittedMet DEF Consuming, c
<1>13. ASSUME NEW q \in FeedKeys, q # key PROVE got'[q] = got[q]
  <2> HIDE DEF e
  <2> QED BY <1>5, <1>7, <1>13
<1>14. ASSUME NEW q \in FeedKeys, q # key PROVE MetFor(lane, q)
  <2>1. gates'.tracker[q] = h.tracker[q]
    BY <1>3, <1>6, <1>7, <1>14
  <2>2. q \in h.reconnected => q \in gates'.reconnected
    BY <1>6, <1>14
  <2> QED BY <1>13, <1>14, <2>1, <2>2, OthersMet
<1>15. GatesShape(gates')
  <2>1. gates'.tracker \in [FeedKeys -> FeedTrackers]
    BY <1>6, <1>7, <1>12
  <2>2. gates'.reconnected \in SUBSET FeedKeys
    BY <1>3, <1>6 DEF GatesShape
  <2>3. gates'.open \in BOOLEAN /\ gates'.seen \in Nat \ {0}
    BY <1>3, <1>6 DEF GatesShape
  <2> QED BY <1>6, <2>1, <2>2, <2>3 DEF GatesShape
<1>16. got' \in [FeedKeys -> Seq(FeedEvents)]
  <2>1. \A q \in FeedKeys : got'[q] \in Seq(FeedEvents)
    BY <1>7, <1>12, <1>13
  <2>2. got' = [q \in FeedKeys |-> got'[q]]
    <3> HIDE DEF e
    <3> QED BY <1>5, <1>7
  <2> QED BY <2>1, <2>2
<1> HIDE DEF key
<1> QED BY <1>3, <1>6, <1>12, <1>14, <1>15, <1>16 DEF StepMet

LEMMA PublishedBy ==
  ASSUME FeedShape
  PROVE  /\ PubBy \in [FeedKeys -> SUBSET Nat]
         /\ \A key \in FeedKeys : FeedPart!Published(key) \in SUBSET (Nat \ {0})
         /\ \A key \in FeedKeys : PubBy[key] = FeedPart!Published(key)
<1>1. ASSUME NEW key \in FeedKeys PROVE FeedPart!Published(key) \in SUBSET (Nat \ {0})
  <2>1. published[key] \in Seq(Nat \ {0})
    BY DEF FeedShape
  <2>2. \A i \in DOMAIN published[key] : published[key][i] \in Nat \ {0}
    BY <2>1
  <2> QED BY <2>2 DEF FeedPart!Published
<1> QED BY <1>1 DEF PubBy

LEMMA ConsumesMeets ==
  ASSUME NEW item, NEW lane, NEW h, Consuming(item, lane, h), FeedPart!Consumes
  PROVE  StepMet(item, lane)
<1>1. FirstCell(item, lane)
  BY ConsumingFacts
<1>2. FeedPart!IsData(item.frame) <=> item.frame.data
  BY <1>1 DEF FirstCell
<1>3. IF ~FeedPart!IsData(item.frame) THEN gates' = h /\ UNCHANGED got
      ELSE IF FeedPart!Seeds(h, item.frame) THEN FeedPart!Seed(h, item.frame)
      ELSE FeedPart!Admit(h, item.frame)
  BY DEF FeedPart!Consumes, Consuming
<1>4. CASE ~item.frame.data
  BY <1>2, <1>3, <1>4, ControlMet
<1>5. CASE item.frame.data /\ FeedPart!Seeds(h, item.frame)
  BY <1>2, <1>3, <1>5, SeedMet
<1>6. CASE item.frame.data /\ ~FeedPart!Seeds(h, item.frame)
  BY <1>2, <1>3, <1>6, AdmitMet
<1> QED BY <1>4, <1>5, <1>6

LEMMA ConsumesKept ==
  ASSUME FeedInv, FeedPart!Consumes
  PROVE  FeedInv'
<1> DEFINE item == Head(ws.queue)
           lane == Lane(ws, wire, gates)
           h == FeedPart!Noticed(item, FeedPart!LostBefore(ws, item.stamped))
<1>1. /\ gates.open /\ ws.queue # <<>> /\ item # FeedPart!Closed
      /\ ws' = FeedPart!Told([ws EXCEPT !.queue = Tail(@)], item.stamped)
      /\ feedKind' = feedKind /\ published' = published /\ wire' = wire
  BY DEF FeedPart!Consumes
<1>2. /\ FeedShape /\ WsShape(feedKind, ws) /\ wire \in Seq(FeedFrames(feedKind))
      /\ GatesShape(gates) /\ PublishedOk
      /\ LaneInv(feedKind, ws, wire, gates, PubBy, HadBy)
  BY DEF FeedInv, FeedShape
<1>3. StepMet(item, lane)
  <2>1. Consuming(item, lane, h)
    BY <1>1 DEF Consuming
  <2> HIDE DEF item, lane, h
  <2> QED BY <2>1, ConsumesMeets
<1>4. Takes(feedKind, ws, ws')
  BY <1>1, <1>2, ConsumerTakes
<1>5. Meets(feedKind, ws, wire, gates, HadBy, gates', HadBy')
  BY <1>3 DEF StepMet, MetFor, Meets
<1>6. WsShape(feedKind, ws') /\ LaneInv(feedKind, ws', wire, gates', PubBy, HadBy')
  <2>1. PubBy \in [FeedKeys -> SUBSET Nat] /\ GatesShape(gates')
    BY <1>2, <1>3, PublishedBy DEF StepMet
  <2> HIDE DEF item
  <2>2. ws.queue # <<>> /\ Head(ws.queue) # FeedPart!Closed
    BY <1>1 DEF item
  <2> QED BY <1>2, <1>4, <1>5, <2>1, <2>2, LaneConsumed
<1>7. PubBy' = PubBy /\ \A key \in FeedKeys : FeedPart!Published(key)' = FeedPart!Published(key)
  BY <1>1 DEF PubBy, FeedPart!Published
<1> HIDE DEF item, lane, h
<1>8. FeedShape'
  <2>1. ws'.state = ws.state
    BY <1>4 DEF Takes
  <2> QED BY <1>1, <1>2, <1>3, <1>6, <2>1 DEF FeedShape, StepMet
<1>9. ASSUME NEW key \in FeedKeys
      PROVE  /\ HonestTo(feedKind, got'[key], FeedPart!Published(key))
             /\ GivenTo(key)' \subseteq FeedPart!Published(key)
             /\ gates'.tracker[key].last \in FeedPart!Published(key) \cup {0}
             /\ gates'.open => TrackOk(feedKind, gates'.tracker[key], GivenTo(key)')
  BY <1>3 DEF StepMet, MetFor, GivenTo
<1>10. PublishedOk'
  <2> SUFFICES ASSUME NEW key \in FeedKeys
               PROVE  /\ GivenTo(key)' \in SUBSET FeedPart!Published(key)
                      /\ FeedPart!Highest(FeedPart!Published(key))
                           \in FeedPart!Published(key) \cup {0}
                      /\ \A n \in FeedPart!Published(key) :
                           n <= FeedPart!Highest(FeedPart!Published(key))
                      /\ gates'.tracker[key].last \in FeedPart!Published(key) \cup {0}
                      /\ feedKind.feed = "contiguous" =>
                           FeedPart!Published(key)
                             = 1 .. FeedPart!Highest(FeedPart!Published(key))
    BY <1>1, <1>7 DEF PublishedOk
  <2> QED BY <1>2, <1>9 DEF PublishedOk
<1> QED BY <1>1, <1>6, <1>7, <1>8, <1>9, <1>10 DEF FeedInv

-------------------------------------------------------------------------------
(* The reader and the venue. *)

\* A step of the transport that gives the caller nothing keeps what holds, with the lane.
TransportMoves ==
  /\ feedKind' = feedKind /\ published' = published /\ gates' = gates /\ got' = got
  /\ WsShape(feedKind, ws') /\ wire' \in Seq(FeedFrames(feedKind))
  /\ ws'.state # "connected" => wire' = <<>>
  /\ LaneInv(feedKind, ws', wire', gates, PubBy, HadBy)
LEMMA TransportKept ==
  ASSUME FeedInv, TransportMoves
  PROVE  FeedInv'
<1> USE DEF TransportMoves
<1>1. /\ PubBy' = PubBy /\ HadBy' = HadBy
      /\ \A key \in FeedKeys : /\ FeedPart!Published(key)' = FeedPart!Published(key)
                               /\ GivenTo(key)' = GivenTo(key)
  BY DEF PubBy, HadBy, GivenTo, FeedPart!Published
<1>2. FeedShape'
  BY DEF FeedInv, FeedShape
<1>3. PublishedOk'
  BY <1>1 DEF FeedInv, PublishedOk
<1> QED BY <1>1, <1>2, <1>3 DEF FeedInv

\* The transport's records, field by field.
LEMMA WsFields ==
  ASSUME NEW k, NEW w, WsShape(k, w), NEW x
  PROVE  LET a == [w EXCEPT !.queue = Tail(@), !.dropped = @ + 1]
             b == [w EXCEPT !.queue = Append(@, x)]
             c == [w EXCEPT !.dropped = @ + 1]
         IN  /\ DOMAIN a = DOMAIN w /\ a.queue = Tail(w.queue) /\ a.dropped = w.dropped + 1
             /\ a.state = w.state /\ a.attempt = w.attempt /\ a.evicted = w.evicted
             /\ a.toldDropped = w.toldDropped /\ a.toldEvicted = w.toldEvicted
             /\ a.generation = w.generation
             /\ DOMAIN b = DOMAIN w /\ b.queue = Append(w.queue, x) /\ b.dropped = w.dropped
             /\ b.state = w.state /\ b.attempt = w.attempt /\ b.evicted = w.evicted
             /\ b.toldDropped = w.toldDropped /\ b.toldEvicted = w.toldEvicted
             /\ b.generation = w.generation
             /\ DOMAIN c = DOMAIN w /\ c.queue = w.queue /\ c.dropped = w.dropped + 1
             /\ c.state = w.state /\ c.attempt = w.attempt /\ c.evicted = w.evicted
             /\ c.toldDropped = w.toldDropped /\ c.toldEvicted = w.toldEvicted
             /\ c.generation = w.generation
  BY DEF WsShape

\* What is put when room is made: as if it were put first, and the oldest then given up.
RoomMade(k, w, x, next) ==
  /\ DOMAIN next = DOMAIN w /\ next.queue = Append(Tail(w.queue), x)
  /\ next.dropped = w.dropped + 1
  /\ next.evicted \in {w.evicted, w.evicted + 1} /\ (Newest(k) => next.evicted = w.evicted + 1)
  /\ next.toldDropped = w.toldDropped /\ next.toldEvicted = w.toldEvicted
  /\ next.generation = w.generation /\ next.state = w.state
LEMMA RoomMadeGivesUp ==
  ASSUME NEW k, NEW w, WsShape(k, w), w.queue # <<>>, NEW x \in FeedItems(k),
         NEW next, RoomMade(k, w, x, next)
  PROVE  GivesUp(k, FeedPart!PutIn(w, x), next) /\ FeedPart!PutIn(w, x).queue # <<>>
<1>1. /\ Tail(Append(w.queue, x)) = Append(Tail(w.queue), x) /\ Append(w.queue, x) # <<>>
  BY TailOfAppend DEF WsShape
<1> DEFINE u == FeedPart!PutIn(w, x)
<1>2. /\ DOMAIN u = DOMAIN w /\ u.queue = Append(w.queue, x) /\ u.dropped = w.dropped
      /\ u.evicted = w.evicted /\ u.toldDropped = w.toldDropped
      /\ u.toldEvicted = w.toldEvicted /\ u.generation = w.generation /\ u.state = w.state
  BY WsFields DEF FeedPart!PutIn
<1> HIDE DEF u
<1>3. GivesUp(k, u, next) /\ u.queue # <<>>
  BY <1>1, <1>2 DEF GivesUp, RoomMade
<1> QED BY <1>3 DEF u

LEMMA FullHasOldest ==
  ASSUME QueueSize \in Nat \ {0}, NEW k, NEW w, WsShape(k, w), ~(Len(w.queue) < QueueSize)
  PROVE  w.queue # <<>>
<1>1. Len(w.queue) \in Nat
  BY DEF WsShape
<1>2. Len(w.queue) # 0
  BY <1>1
<1> QED BY <1>2

LEMMA ForcedIs ==
  ASSUME QueueSize \in Nat \ {0}, NEW k, NEW w, WsShape(k, w), NEW x, NEW next,
         next = FeedPart!Forced(w, x)
  PROVE  next = FeedPart!PutIn(w, x) \/ (w.queue # <<>> /\ RoomMade(k, w, x, next))
<1>1. CASE Len(w.queue) < QueueSize
  BY <1>1 DEF FeedPart!Forced
<1>2. CASE ~(Len(w.queue) < QueueSize)
  <2> DEFINE a == FeedPart!GiveUpOldest(w)
             b == [a EXCEPT !.evicted = @ + 1]
  <2>1. /\ DOMAIN a = DOMAIN w /\ a.queue = Tail(w.queue) /\ a.dropped = w.dropped + 1
        /\ a.state = w.state /\ a.evicted = w.evicted
        /\ a.toldDropped = w.toldDropped /\ a.toldEvicted = w.toldEvicted
        /\ a.generation = w.generation
    BY WsFields DEF FeedPart!GiveUpOldest
  <2>2. next = FeedPart!PutIn(b, x)
    BY <1>2 DEF FeedPart!Forced
  <2> HIDE DEF a
  <2>3. /\ DOMAIN b = DOMAIN w /\ b.queue = Tail(w.queue) /\ b.dropped = w.dropped + 1
        /\ b.state = w.state /\ b.evicted = w.evicted + 1
        /\ b.toldDropped = w.toldDropped /\ b.toldEvicted = w.toldEvicted
        /\ b.generation = w.generation
    BY <2>1 DEF WsShape
  <2> HIDE DEF b
  <2>4. /\ DOMAIN next = DOMAIN b /\ next.queue = Append(b.queue, x)
        /\ next.dropped = b.dropped /\ next.state = b.state /\ next.evicted = b.evicted
        /\ next.toldDropped = b.toldDropped /\ next.toldEvicted = b.toldEvicted
        /\ next.generation = b.generation
    BY <2>2, <2>3 DEF FeedPart!PutIn, WsShape
  <2>5. RoomMade(k, w, x, next)
    BY <2>3, <2>4 DEF RoomMade
  <2> QED BY <1>2, <2>5, FullHasOldest
<1> QED BY <1>1, <1>2

LEMMA EnqueueIs ==
  ASSUME QueueSize \in Nat \ {0}, NEW w, WsShape(feedKind, w), NEW x, NEW next,
         next = FeedPart!Enqueue(w, x)
  PROVE  \/ next = FeedPart!PutIn(w, x)
         \/ Newest(feedKind) /\ Discards(w, next)
         \/ w.queue # <<>> /\ RoomMade(feedKind, w, x, next)
<1>1. CASE Len(w.queue) < QueueSize
  BY <1>1 DEF FeedPart!Enqueue
<1>2. CASE ~(Len(w.queue) < QueueSize) /\ Newest(feedKind)
  <2>1. next = [w EXCEPT !.dropped = @ + 1]
    BY <1>2 DEF FeedPart!Enqueue, Newest
  <2>2. Discards(w, next)
    BY <2>1, WsFields DEF Discards
  <2> QED BY <1>2, <2>2
<1>3. CASE ~(Len(w.queue) < QueueSize) /\ ~Newest(feedKind)
  <2> DEFINE b == FeedPart!GiveUpOldest(w)
  <2>1. /\ DOMAIN b = DOMAIN w /\ b.queue = Tail(w.queue) /\ b.dropped = w.dropped + 1
        /\ b.state = w.state /\ b.evicted = w.evicted
        /\ b.toldDropped = w.toldDropped /\ b.toldEvicted = w.toldEvicted
        /\ b.generation = w.generation
    BY WsFields DEF FeedPart!GiveUpOldest
  <2>2. next = FeedPart!PutIn(b, x)
    BY <1>3 DEF FeedPart!Enqueue, Newest
  <2> HIDE DEF b
  <2>3. /\ DOMAIN next = DOMAIN b /\ next.queue = Append(b.queue, x)
        /\ next.dropped = b.dropped /\ next.state = b.state /\ next.evicted = b.evicted
        /\ next.toldDropped = b.toldDropped /\ next.toldEvicted = b.toldEvicted
        /\ next.generation = b.generation
    BY <2>1, <2>2 DEF FeedPart!PutIn, WsShape
  <2>4. RoomMade(feedKind, w, x, next)
    BY <1>3, <2>1, <2>3 DEF RoomMade
  <2> QED BY <1>3, <2>4, FullHasOldest
<1> QED BY <1>1, <1>2, <1>3

LEMMA FrameReadKept ==
  ASSUME NEW k, k \in FeedPart!Kinds, NEW w, WsShape(k, w), w.state = "connected",
         NEW frames \in Seq(FeedFrames(k)), frames # <<>>, NEW g, GatesShape(g),
         NEW pub \in [FeedKeys -> SUBSET Nat], NEW had, LaneInv(k, w, frames, g, pub, had),
         NEW item, item = [frame |-> Head(frames), generation |-> w.generation,
                           stamped |-> w.dropped], NEW next,
         \/ next = FeedPart!PutIn(w, item)
         \/ Newest(k) /\ Discards(w, next)
         \/ w.queue # <<>> /\ RoomMade(k, w, item, next)
  PROVE  /\ LaneInv(k, next, Tail(frames), g, pub, had) /\ WsShape(k, next)
         /\ next.state = "connected" /\ Tail(frames) \in Seq(FeedFrames(k))
<1>1. /\ LaneInv(k, FeedPart!PutIn(w, item), Tail(frames), g, pub, had)
      /\ WsShape(k, FeedPart!PutIn(w, item)) /\ Tail(frames) \in Seq(FeedFrames(k))
  BY ReadFrame
<1>2. CASE next = FeedPart!PutIn(w, item)
  <2>1. FeedPart!PutIn(w, item).state = w.state
    BY WsFields DEF FeedPart!PutIn
  <2> QED BY <1>1, <1>2, <2>1
<1>3. CASE Newest(k) /\ Discards(w, next)
  <2>1. next.state = "connected"
    BY <1>3 DEF Discards
  <2> QED BY <1>3, <2>1, NewestDiscarded
<1>4. CASE w.queue # <<>> /\ RoomMade(k, w, item, next)
  <2>1. item \in FeedItems(k)
    <3>1. /\ Head(frames) \in FeedFrames(k) /\ w.generation \in Nat \ {0} /\ w.dropped \in Nat
      BY HeadTailProperties DEF WsShape
    <3> QED BY <3>1, StampedItem
  <2> DEFINE u == FeedPart!PutIn(w, item)
             behind == Tail(frames)
  <2>2. GivesUp(k, u, next) /\ u.queue # <<>>
    BY <1>4, <2>1, RoomMadeGivesUp
  <2>3. LaneInv(k, u, behind, g, pub, had) /\ WsShape(k, u) /\ behind \in Seq(FeedFrames(k))
    BY <1>1
  <2> HIDE DEF u, behind
  <2>4. WsShape(k, next) /\ LaneInv(k, next, behind, g, pub, had)
    BY <2>2, <2>3, OldestGivenUp
  <2>5. next.state = "connected"
    BY <1>4 DEF RoomMade
  <2> QED BY <2>3, <2>4, <2>5 DEF behind
<1> QED BY <1>2, <1>3, <1>4

LEMMA ReadsKept ==
  ASSUME QueueSize \in Nat \ {0}, FeedInv, FeedPart!Reads
  PROVE  FeedInv'
<1> DEFINE f == Head(wire)
           data == FeedPart!IsData(f)
           w == IF data THEN [ws EXCEPT !.attempt = 0] ELSE ws
           item == FeedPart!Stamp(f)
<1>1. /\ ws.state = "connected" /\ wire # <<>> /\ wire' = Tail(wire)
      /\ ws' = FeedPart!Put(w, item, data)
      /\ feedKind' = feedKind /\ published' = published /\ gates' = gates /\ got' = got
  BY DEF FeedPart!Reads
<1>2. /\ FeedShape /\ WsShape(feedKind, ws) /\ wire \in Seq(FeedFrames(feedKind))
      /\ GatesShape(gates) /\ feedKind \in FeedPart!Kinds
      /\ LaneInv(feedKind, ws, wire, gates, PubBy, HadBy)
  BY DEF FeedInv, FeedShape
<1>3. /\ DOMAIN w = DOMAIN ws /\ w.queue = ws.queue /\ w.dropped = ws.dropped
      /\ w.evicted = ws.evicted /\ w.toldDropped = ws.toldDropped
      /\ w.toldEvicted = ws.toldEvicted /\ w.generation = ws.generation
      /\ w.state = ws.state
  BY <1>2 DEF WsShape
<1>4. item = [frame |-> f, generation |-> ws.generation, stamped |-> ws.dropped]
  BY DEF FeedPart!Stamp
<1> HIDE DEF f, data, w, item
<1>5. WsShape(feedKind, w)
  BY <1>2, <1>3 DEF WsShape
<1>6. LaneInv(feedKind, w, wire, gates, PubBy, HadBy)
  <2>1. NextGen(w) = NextGen(ws)
    BY <1>3 DEF NextGen
  <2> QED BY <1>2, <1>3, <2>1, SameLane
<1>7. \/ ws' = FeedPart!PutIn(w, item)
      \/ Newest(feedKind) /\ Discards(w, ws')
      \/ w.queue # <<>> /\ RoomMade(feedKind, w, item, ws')
  <2>1. \/ ws' = FeedPart!PutIn(w, item) \/ ws' = FeedPart!Enqueue(w, item)
        \/ ws' = FeedPart!Forced(w, item)
    <3>1. CASE feedKind.policy = "block"
      BY <1>1, <3>1, Zenon DEF FeedPart!Put
    <3>2. CASE feedKind.policy # "block" /\ data
      BY <1>1, <3>2, Zenon DEF FeedPart!Put
    <3>3. CASE feedKind.policy # "block" /\ ~data
      BY <1>1, <3>3, Zenon DEF FeedPart!Put
    <3> QED BY <3>1, <3>2, <3>3
  <2> DEFINE next == ws'
  <2>2. next = ws'
    OBVIOUS
  <2> HIDE DEF next
  <2>3. CASE ws' = FeedPart!PutIn(w, item)
    BY <2>3
  <2>4. CASE ws' = FeedPart!Enqueue(w, item)
    BY <1>5, <2>4, EnqueueIs
  <2>5. CASE ws' = FeedPart!Forced(w, item)
    BY <1>5, <2>5, ForcedIs
  <2> QED BY <2>1, <2>3, <2>4, <2>5
<1>8. /\ LaneInv(feedKind, ws', Tail(wire), gates, PubBy, HadBy) /\ WsShape(feedKind, ws')
      /\ ws'.state = "connected" /\ Tail(wire) \in Seq(FeedFrames(feedKind))
  <2>1. PubBy \in [FeedKeys -> SUBSET Nat]
    BY <1>2, PublishedBy
  <2>2. item = [frame |-> Head(wire), generation |-> w.generation, stamped |-> w.dropped]
    BY <1>3, <1>4 DEF f
  <2>3. w.state = "connected"
    BY <1>1, <1>3
  <2> QED BY <1>1, <1>2, <1>5, <1>6, <1>7, <2>1, <2>2, <2>3, FrameReadKept
<1> QED BY <1>1, <1>8, TransportKept DEF TransportMoves

-------------------------------------------------------------------------------
\* A connection refused or lost.
SameQueue(w, v) ==
  /\ DOMAIN v = DOMAIN w /\ v.queue = w.queue /\ v.dropped = w.dropped
  /\ v.evicted = w.evicted /\ v.toldDropped = w.toldDropped
  /\ v.toldEvicted = w.toldEvicted /\ v.generation = w.generation
NotConnected(k, w, g, pub, had) ==
  WsShape(k, w) /\ w.state # "connected" /\ LaneInv(k, w, <<>>, g, pub, had)
LEMMA FailKept ==
  ASSUME QueueSize \in Nat \ {0}, NEW k, k \in FeedPart!Kinds, NEW w, w.state # "failed",
         NEW g, GatesShape(g), NEW pub \in [FeedKeys -> SUBSET Nat], NEW had,
         NotConnected(k, w, g, pub, had), NEW v, SameQueue(w, v), NEW next,
         next = FeedPart!Fail(v)
  PROVE  NotConnected(k, next, g, pub, had)
<1> DEFINE u == [v EXCEPT !.state = "failed"]
           closed == FeedPart!Closed
           put == FeedPart!PutIn(u, closed)
<1>1. WsShape(k, w) /\ w.state \notin {"connected", "failed"} /\ LaneInv(k, w, <<>>, g, pub, had)
  BY DEF NotConnected
<1>2. SameQueue(w, u) /\ u.state = "failed"
  BY <1>1 DEF SameQueue, WsShape
<1>3. next = FeedPart!Forced(u, closed)
  BY DEF FeedPart!Fail
<1>4. closed \in FeedItems(k) /\ <<>> \in Seq(FeedFrames(k))
  BY DEF FeedItems
<1> HIDE DEF u, closed
<1>5. WsShape(k, u)
  BY <1>1, <1>2 DEF SameQueue, WsShape
<1>6. /\ DOMAIN put = DOMAIN w /\ put.queue = Append(w.queue, closed)
      /\ put.dropped = w.dropped /\ put.evicted = w.evicted
      /\ put.toldDropped = w.toldDropped /\ put.toldEvicted = w.toldEvicted
      /\ put.generation = w.generation /\ put.state = "failed"
  BY <1>2, <1>5, WsFields DEF FeedPart!PutIn, SameQueue
<1> HIDE DEF put
<1>7. Closes(w, put)
  BY <1>6 DEF Closes, closed
<1>8. WsShape(k, put) /\ LaneInv(k, put, <<>>, g, pub, had)
  BY <1>1, <1>7, ClosedPutIn
<1>9. CASE next = put
  BY <1>6, <1>8, <1>9 DEF NotConnected
<1>10. CASE u.queue # <<>> /\ RoomMade(k, u, closed, next)
  <2>1. GivesUp(k, put, next) /\ put.queue # <<>>
    BY <1>4, <1>5, <1>10, RoomMadeGivesUp DEF put
  <2> DEFINE none == <<>>
  <2>2. none \in Seq(FeedFrames(k)) /\ LaneInv(k, put, none, g, pub, had)
    BY <1>4, <1>8
  <2> HIDE DEF none
  <2>3. WsShape(k, next) /\ LaneInv(k, next, none, g, pub, had)
    BY <1>8, <2>1, <2>2, OldestGivenUp
  <2>4. next.state # "connected"
    BY <1>6, <2>1 DEF GivesUp
  <2> QED BY <2>3, <2>4 DEF NotConnected, none
<1> QED BY <1>3, <1>5, <1>9, <1>10, ForcedIs DEF put

LEMMA AgainKept ==
  ASSUME QueueSize \in Nat \ {0}, NEW k, k \in FeedPart!Kinds, NEW w, w.state # "failed",
         NEW g, GatesShape(g), NEW pub \in [FeedKeys -> SUBSET Nat], NEW had,
         NotConnected(k, w, g, pub, had), NEW v, SameQueue(w, v), NEW next,
         next = FeedPart!Again(v)
  PROVE  NotConnected(k, next, g, pub, had)
<1>1. DOMAIN v = {"state", "attempt", "queue", "dropped", "evicted", "toldDropped",
                  "toldEvicted", "generation"}
  BY DEF NotConnected, WsShape, SameQueue
<1>2. CASE v.attempt + 1 > MaxReconnects
  <2> DEFINE u == [v EXCEPT !.attempt = @ + 1]
  <2>1. next = FeedPart!Fail(u)
    BY <1>2 DEF FeedPart!Again
  <2>2. SameQueue(w, u)
    BY <1>1 DEF SameQueue
  <2> HIDE DEF u
  <2> QED BY <2>1, <2>2, FailKept
<1>3. CASE ~(v.attempt + 1 > MaxReconnects)
  <2>1. next = [v EXCEPT !.state = "reconnecting", !.attempt = @ + 1]
    BY <1>3 DEF FeedPart!Again
  <2>2. SameQueue(w, next) /\ next.state = "reconnecting"
    BY <1>1, <2>1 DEF SameQueue
  <2>3. NextGen(next) = NextGen(w)
    BY <2>2 DEF SameQueue, NextGen, NotConnected
  <2>4. LaneInv(k, next, <<>>, g, pub, had)
    BY <2>2, <2>3, SameLane DEF SameQueue, NotConnected
  <2>5. WsShape(k, next)
    BY <2>2 DEF SameQueue, NotConnected, WsShape
  <2> QED BY <2>2, <2>4, <2>5 DEF NotConnected
<1> QED BY <1>2, <1>3

LEMMA RefusedKept ==
  ASSUME QueueSize \in Nat \ {0}, FeedInv, FeedPart!Refused
  PROVE  FeedInv'
<1>1. /\ ws.state \in {"connecting", "reconnecting"}
      /\ ws' = FeedPart!Fail(ws) \/ ws' = FeedPart!Again(ws)
      /\ feedKind' = feedKind /\ published' = published /\ gates' = gates /\ got' = got
      /\ wire' = wire
  BY DEF FeedPart!Refused
<1>2. /\ FeedShape /\ GatesShape(gates) /\ feedKind \in FeedPart!Kinds /\ wire = <<>>
      /\ PubBy \in [FeedKeys -> SUBSET Nat]
  BY <1>1, PublishedBy DEF FeedInv, FeedShape
<1>3. NotConnected(feedKind, ws, gates, PubBy, HadBy)
  BY <1>1, <1>2 DEF NotConnected, FeedInv, FeedShape
<1>4. SameQueue(ws, ws) /\ ws.state # "failed"
  BY <1>1 DEF SameQueue
<1>5. NotConnected(feedKind, ws', gates, PubBy, HadBy)
  <2>1. CASE ws' = FeedPart!Fail(ws)
    BY <1>2, <1>3, <1>4, <2>1, FailKept
  <2>2. CASE ws' = FeedPart!Again(ws)
    BY <1>2, <1>3, <1>4, <2>2, AgainKept
  <2> QED BY <1>1, <2>1, <2>2
<1>6. wire' \in Seq(FeedFrames(feedKind))
  BY <1>1, <1>2
<1> QED BY <1>1, <1>2, <1>5, <1>6, TransportKept DEF TransportMoves, NotConnected

LEMMA DropsKept ==
  ASSUME QueueSize \in Nat \ {0}, FeedInv, FeedPart!Drops
  PROVE  FeedInv'
<1>1. /\ ws.state = "connected" /\ ws' = FeedPart!Again(ws) /\ wire' = <<>>
      /\ feedKind' = feedKind /\ published' = published /\ gates' = gates /\ got' = got
  BY DEF FeedPart!Drops
<1>2. /\ FeedShape /\ GatesShape(gates) /\ feedKind \in FeedPart!Kinds
      /\ WsShape(feedKind, ws) /\ wire \in Seq(FeedFrames(feedKind))
      /\ LaneInv(feedKind, ws, wire, gates, PubBy, HadBy)
      /\ PubBy \in [FeedKeys -> SUBSET Nat]
  BY PublishedBy DEF FeedInv, FeedShape
<1> DEFINE w == [ws EXCEPT !.state = "reconnecting"]
<1>3. SameQueue(ws, w) /\ SameQueue(w, ws) /\ w.state = "reconnecting"
  BY <1>2 DEF WsShape, SameQueue
<1> HIDE DEF w
<1>4. Lost(ws, w)
  BY <1>3 DEF Lost, SameQueue
<1>5. NotConnected(feedKind, w, gates, PubBy, HadBy)
  BY <1>1, <1>2, <1>3, <1>4, ConnectionLost DEF NotConnected
<1>6. NotConnected(feedKind, ws', gates, PubBy, HadBy)
  <2>1. w.state # "failed"
    BY <1>3
  <2> QED BY <1>1, <1>2, <1>3, <1>5, <2>1, AgainKept
<1>7. wire' \in Seq(FeedFrames(feedKind))
  BY <1>1
<1> QED BY <1>1, <1>6, <1>7, TransportKept DEF TransportMoves, NotConnected

-------------------------------------------------------------------------------
\* A connection is found, and the venue sends.
LEMMA SendsControlKept ==
  ASSUME FeedInv, FeedPart!SendsControl
  PROVE  FeedInv'
<1> DEFINE f == FeedPart!Control
<1>1. /\ ws.state = "connected" /\ wire' = Append(wire, f) /\ ws' = ws
      /\ feedKind' = feedKind /\ published' = published /\ gates' = gates /\ got' = got
  BY DEF FeedPart!SendsControl
<1>2. /\ FeedShape /\ GatesShape(gates) /\ WsShape(feedKind, ws)
      /\ wire \in Seq(FeedFrames(feedKind)) /\ LaneInv(feedKind, ws, wire, gates, PubBy, HadBy)
      /\ PubBy \in [FeedKeys -> SUBSET Nat]
  BY PublishedBy DEF FeedInv, FeedShape
<1>3. f \in FeedFrames(feedKind) /\ ~f.data
  BY DEF FeedFrames, FeedPart!Control
<1> HIDE DEF f
<1>4. Shows(feedKind, f, gates, PubBy, HadBy, PubBy)
  BY <1>3 DEF Shows
<1>5. LaneInv(feedKind, ws, wire', gates, PubBy, HadBy)
  BY <1>1, <1>2, <1>3, <1>4, FrameSent
<1>6. wire' \in Seq(FeedFrames(feedKind))
  BY <1>1, <1>2, <1>3
<1> QED BY <1>1, <1>2, <1>5, <1>6, TransportKept DEF TransportMoves

LEMMA LastMatchShows ==
  ASSUME FeedInv, NEW key \in FeedKeys, feedKind.feed = "contiguous", published[key] # <<>>,
         NEW f, f = [FeedPart!Data(key, FeedPart!Highest(FeedPart!Published(key)))
                       EXCEPT !.last = TRUE]
  PROVE  f \in FeedFrames(feedKind) /\ Shows(feedKind, f, gates, PubBy, HadBy, PubBy)
<1> DEFINE pub == FeedPart!Published(key)
           high == FeedPart!Highest(pub)
<1>1. /\ pub \in SUBSET (Nat \ {0}) /\ high \in pub \cup {0} /\ \A n \in pub : n <= high
      /\ pub = 1 .. high /\ gates.tracker[key].last \in pub \cup {0}
      /\ published[key] \in Seq(Nat \ {0}) /\ PubBy[key] = pub
  BY PublishedBy DEF FeedInv, PublishedOk, FeedShape
<1>2. high \in pub /\ high \in Nat \ {0}
  <2>1. 1 \in DOMAIN published[key]
    BY <1>1
  <2>2. pub # {}
    BY <2>1 DEF FeedPart!Published
  <2> QED BY <1>1, <2>2
<1>3. f = [data |-> TRUE, key |-> key, number |-> high, last |-> TRUE]
  BY DEF FeedPart!Data
<1> HIDE DEF high, pub
<1>4. f \in FeedFrames(feedKind)
  <2> DEFINE lasts == IF feedKind.feed = "contiguous" THEN BOOLEAN ELSE {FALSE}
  <2>3. lasts = BOOLEAN
    BY Zenon
  <2> HIDE DEF lasts
  <2>1. TRUE \in lasts
    BY <2>3
  <2>2. f \in [data : {TRUE}, key : FeedKeys, number : Nat \ {0}, last : lasts]
    <3>1. TRUE \in {TRUE}
      OBVIOUS
    <3>2. key \in FeedKeys /\ high \in Nat \ {0}
      BY <1>2
    <3>3. [data |-> TRUE, key |-> key, number |-> high, last |-> TRUE]
             \in [data : {TRUE}, key : FeedKeys, number : Nat \ {0}, last : lasts]
      BY <2>1, <3>1, <3>2, FrameWith, Zenon
    <3> QED BY <1>3, <3>3, Zenon
  <2> QED BY <2>2 DEF FeedFrames, DataFrames, lasts
<1>5. f.data /\ f.key = key /\ f.number = high
  BY <1>3
<1>6. IsAhead(feedKind, gates.tracker[key].last, HadBy[key], high)
  <2>1. gates.tracker[key].last <= high
    BY <1>1, <1>2
  <2> QED BY <2>1 DEF IsAhead
<1>7. \A a \in pub : ComesAfter(feedKind, a, high)
  BY <1>1 DEF ComesAfter
<1>8. pub = pub \cup {high}
  BY <1>2
<1>9. Shows(feedKind, f, gates, PubBy, HadBy, PubBy)
  <2> SUFFICES ASSUME NEW q \in FeedKeys
               PROVE  \/ ~(f.data /\ f.key = q) /\ PubBy[q] = PubBy[q]
                      \/ /\ f.data /\ f.key = q /\ PubBy[q] = PubBy[q] \cup {f.number}
                         /\ IsAhead(feedKind, gates.tracker[q].last, HadBy[q], f.number)
                         /\ \A a \in PubBy[q] : ComesAfter(feedKind, a, f.number)
    BY DEF Shows
  <2>1. CASE q = key
    BY <1>1, <1>5, <1>6, <1>7, <1>8, <2>1
  <2>2. CASE q # key
    BY <1>5, <2>2
  <2> QED BY <2>1, <2>2
<1> QED BY <1>4, <1>9

LEMMA ConnectsKept ==
  ASSUME FeedInv, FeedPart!Connects
  PROVE  FeedInv'
<1>1. /\ ws.state \in {"connecting", "reconnecting"}
      /\ ws' = [ws EXCEPT !.state = "connected", !.generation = @ + 1]
      /\ feedKind' = feedKind /\ published' = published /\ gates' = gates /\ got' = got
  BY DEF FeedPart!Connects
<1>2. PICK key \in FeedKeys : wire' \in FeedPart!LastMatch(key)
  BY DEF FeedPart!Connects
<1>3. /\ FeedShape /\ GatesShape(gates) /\ WsShape(feedKind, ws) /\ wire = <<>>
      /\ LaneInv(feedKind, ws, wire, gates, PubBy, HadBy)
      /\ PubBy \in [FeedKeys -> SUBSET Nat]
  BY <1>1, PublishedBy DEF FeedInv, FeedShape
<1>4. /\ DOMAIN ws' = DOMAIN ws /\ ws'.queue = ws.queue /\ ws'.dropped = ws.dropped
      /\ ws'.evicted = ws.evicted /\ ws'.toldDropped = ws.toldDropped
      /\ ws'.toldEvicted = ws.toldEvicted /\ ws'.generation = ws.generation + 1
      /\ ws'.state = "connected"
  BY <1>1, <1>3 DEF WsShape
<1>5. WsShape(feedKind, ws')
  BY <1>3, <1>4 DEF WsShape
<1>6. LaneInv(feedKind, ws', wire, gates, PubBy, HadBy)
  <2>1. NextGen(ws') = NextGen(ws)
    BY <1>1, <1>4 DEF NextGen
  <2> QED BY <1>1, <1>3, <1>4, <2>1, SameLane
<1>7. CASE wire' = <<>>
  <2>1. wire' \in Seq(FeedFrames(feedKind)) /\ wire' = wire
    BY <1>3, <1>7
  <2> QED BY <1>1, <1>4, <1>5, <1>6, <2>1, TransportKept DEF TransportMoves
<1>8. CASE wire' # <<>>
  <2> DEFINE f == [FeedPart!Data(key, FeedPart!Highest(FeedPart!Published(key)))
                     EXCEPT !.last = TRUE]
  <2>1. feedKind.feed = "contiguous" /\ published[key] # <<>> /\ wire' = <<f>>
    BY <1>2, <1>8 DEF FeedPart!LastMatch
  <2>2. f \in FeedFrames(feedKind) /\ Shows(feedKind, f, gates, PubBy, HadBy, PubBy)
    BY <2>1, LastMatchShows
  <2> HIDE DEF f
  <2>3. wire \in Seq(FeedFrames(feedKind)) /\ wire' = Append(wire, f)
    BY <1>3, <2>1
  <2>4. LaneInv(feedKind, ws', Append(wire, f), gates, PubBy, HadBy)
    BY <1>3, <1>4, <1>5, <1>6, <2>2, <2>3, FrameSent
  <2>5. wire' \in Seq(FeedFrames(feedKind))
    BY <2>2, <2>3
  <2> QED BY <1>1, <1>4, <1>5, <2>3, <2>4, <2>5, TransportKept DEF TransportMoves
<1> QED BY <1>7, <1>8

LEMMA EndsKept ==
  ASSUME FeedInv, FeedPart!Ends
  PROVE  FeedInv'
<1>1. /\ gates' = [gates EXCEPT !.open = FALSE] /\ feedKind' = feedKind
      /\ published' = published /\ ws' = ws /\ wire' = wire /\ got' = got
  BY DEF FeedPart!Ends
<1>2. GatesShape(gates)
  BY DEF FeedInv, FeedShape
<1>3. /\ DOMAIN gates' = DOMAIN gates /\ gates'.tracker = gates.tracker
      /\ gates'.reconnected = gates.reconnected /\ gates'.seen = gates.seen
      /\ gates'.open = FALSE
  BY <1>1, <1>2 DEF GatesShape
<1>4. GatesShape(gates')
  BY <1>2, <1>3 DEF GatesShape
<1>5. /\ PubBy' = PubBy /\ HadBy' = HadBy
      /\ \A key \in FeedKeys : /\ FeedPart!Published(key)' = FeedPart!Published(key)
                               /\ GivenTo(key)' = GivenTo(key)
  BY <1>1 DEF PubBy, HadBy, GivenTo, FeedPart!Published
<1>6. LaneInv(feedKind, ws, wire, gates', PubBy, HadBy)
  <2>1. LaneInv(feedKind, ws, wire, gates, PubBy, HadBy)
    BY DEF FeedInv
  <2>2. Lane(ws, wire, gates') = Lane(ws, wire, gates)
    BY <1>3 DEF Lane
  <2>3. \A lane, n : Quiet(lane, n, gates) => Quiet(lane, n, gates')
    BY <1>3 DEF Quiet
  <2> QED BY <1>3, <2>1, <2>2, <2>3 DEF LaneInv
<1>7. FeedShape'
  BY <1>1, <1>4 DEF FeedInv, FeedShape
<1>8. PublishedOk'
  BY <1>1, <1>3, <1>5 DEF FeedInv, PublishedOk
<1> QED BY <1>1, <1>3, <1>5, <1>6, <1>7, <1>8 DEF FeedInv

\* What is published next comes after all that was, on a sparse or a contiguous feed, and is
\* new on any other.
Fresh(k, pub, had, last, n) ==
  /\ n \in Nat \ {0} /\ n \notin had
  /\ k.feed = "sparse" => \A a \in pub : a < n
  /\ k.feed = "contiguous" => pub \cup {n} = 1 .. n
  /\ IsAhead(k, last, had, n) /\ \A a \in pub : ComesAfter(k, a, n)
NowPublished(key, n) ==
  /\ \A q \in FeedKeys : q # key => FeedPart!Published(q)' = FeedPart!Published(q)
  /\ FeedPart!Published(key)' = FeedPart!Published(key) \cup {n}
  /\ published' \in [FeedKeys -> Seq(Nat \ {0})]
LEMMA NextIsFresh ==
  ASSUME FeedInv, NEW key \in FeedKeys, NEW n \in FeedPart!NextNumbers(key)
  PROVE  Fresh(feedKind, FeedPart!Published(key), HadBy[key], gates.tracker[key].last, n)
<1> DEFINE pub == FeedPart!Published(key)
           high == FeedPart!Highest(pub)
           last == gates.tracker[key].last
           had == HadBy[key]
<1>1. /\ pub \in SUBSET (Nat \ {0}) /\ high \in pub \cup {0} /\ \A m \in pub : m <= high
      /\ (feedKind.feed = "contiguous" => pub = 1 .. high) /\ last \in pub \cup {0}
      /\ feedKind.feed \in {"sparse", "contiguous", "plain"}
  BY PublishedBy DEF FeedInv, PublishedOk, FeedShape, FeedPart!Kinds
<1>2. had \in SUBSET pub
  BY DEF FeedInv, PublishedOk, HadBy
<1>3. IF feedKind.feed = "sparse" THEN n \in {high + 1, high + 2}
      ELSE n \in {high + 1} \cup ((1 .. high) \ pub)
                   \cup (IF feedKind.feed = "plain" THEN {high + 2} ELSE {})
  BY DEF FeedPart!NextNumbers
<1> HIDE DEF pub, high, last, had
<1>4. high \in Nat
  BY <1>1
<1>5. CASE feedKind.feed = "sparse"
  <2>1. n \in Nat \ {0} /\ n > high
    BY <1>3, <1>4, <1>5
  <2>2. \A a \in pub : a < n
    BY <1>1, <1>4, <2>1
  <2>3. last < n
    BY <1>1, <2>1, <2>2
  <2> QED BY <1>2, <1>5, <2>1, <2>2, <2>3
         DEF Fresh, IsAhead, ComesAfter, pub, last, had
<1>6. CASE feedKind.feed = "contiguous"
  <2>1. n = high + 1
    BY <1>1, <1>3, <1>4, <1>6
  <2>2. \A a \in pub : a < n /\ a <= n
    BY <1>1, <1>4, <2>1
  <2>3. last <= n
    BY <1>1, <1>4, <2>1, <2>2
  <2>4. pub \cup {n} = 1 .. n
    BY <1>1, <1>4, <1>6, <2>1
  <2>5. n \in Nat \ {0} /\ n \notin had
    BY <1>1, <1>2, <1>4, <2>1, <2>2
  <2> QED BY <1>6, <2>2, <2>3, <2>4, <2>5 DEF Fresh, IsAhead, ComesAfter, pub, last, had
<1>7. CASE feedKind.feed = "plain"
  <2>1. n \in Nat \ {0} /\ n \notin pub
    BY <1>1, <1>3, <1>4, <1>7
  <2>2. n \notin had /\ \A a \in pub : a # n
    BY <1>2, <2>1
  <2> QED BY <1>7, <2>1, <2>2 DEF Fresh, IsAhead, ComesAfter, pub, last, had
<1> QED BY <1>1, <1>5, <1>6, <1>7

LEMMA PublishesMore ==
  ASSUME FeedShape, NEW key \in FeedKeys, NEW n \in Nat \ {0},
         published' = [published EXCEPT ![key] = Append(@, n)]
  PROVE  NowPublished(key, n)
<1>1. published \in [FeedKeys -> Seq(Nat \ {0})]
  BY DEF FeedShape
<1>2. published' \in [FeedKeys -> Seq(Nat \ {0})]
  <2>1. Append(published[key], n) \in Seq(Nat \ {0})
    BY <1>1
  <2> QED BY <1>1, <2>1
<1>3. ASSUME NEW q \in FeedKeys, q # key
      PROVE  FeedPart!Published(q)' = FeedPart!Published(q)
  <2>1. published'[q] = published[q]
    BY <1>1, <1>3
  <2> QED BY <2>1 DEF FeedPart!Published
<1>4. FeedPart!Published(key)' = FeedPart!Published(key) \cup {n}
  <2> DEFINE s == published[key]
             t == published'[key]
  <2>1. t = Append(s, n) /\ s \in Seq(Nat \ {0})
    BY <1>1
  <2>2. FeedPart!Published(key)' = {t[i] : i \in DOMAIN t}
        /\ FeedPart!Published(key) = {s[i] : i \in DOMAIN s}
    BY DEF FeedPart!Published
  <2> HIDE DEF s, t
  <2>3. /\ Len(t) = Len(s) + 1 /\ Len(s) \in Nat /\ DOMAIN s = 1 .. Len(s)
        /\ t[Len(s) + 1] = n /\ \A i \in 1 .. Len(s) : t[i] = s[i]
    BY <2>1, AppendProperties
  <2>4. DOMAIN t = 1 .. Len(s) + 1
    BY <2>1, <2>3
  <2>5. {t[i] : i \in DOMAIN t} = {s[i] : i \in DOMAIN s} \cup {n}
    <3>1. \A i \in DOMAIN t : i \in DOMAIN s \/ i = Len(s) + 1
      BY <2>3, <2>4
    <3>2. Len(s) + 1 \in DOMAIN t /\ \A i \in DOMAIN s : i \in DOMAIN t
      BY <2>3, <2>4
    <3> QED BY <2>3, <3>1, <3>2
  <2> QED BY <2>2, <2>5
<1> QED BY <1>2, <1>3, <1>4 DEF NowPublished

LEMMA PublishedStays ==
  ASSUME FeedInv, NEW key \in FeedKeys, NEW n \in Nat, feedKind' = feedKind, gates' = gates,
         got' = got, NowPublished(key, n),
         Fresh(feedKind, FeedPart!Published(key), HadBy[key], gates.tracker[key].last, n)
  PROVE  /\ PublishedOk'
         /\ \A q \in FeedKeys : HonestTo(feedKind, got[q], FeedPart!Published(q)')
<1> DEFINE pub == FeedPart!Published(key)
           more == FeedPart!Published(key)'
           high == FeedPart!Highest(pub)
           most == IF n > high THEN n ELSE high
<1>1. /\ pub \in SUBSET (Nat \ {0}) /\ high \in pub \cup {0} /\ \A m \in pub : m <= high
      /\ (feedKind.feed = "contiguous" => pub = 1 .. high)
      /\ GivenTo(key) \in SUBSET pub /\ gates.tracker[key].last \in pub \cup {0}
  BY PublishedBy DEF FeedInv, PublishedOk
<1>2. more = pub \cup {n}
  BY DEF NowPublished
<1>3. FeedPart!Highest(more) = most /\ most \in more \cup {0} /\ \A m \in more : m <= most
  <2> HIDE DEF pub, more, high
  <2>1. high \in Nat /\ most \in Nat /\ high <= most /\ n <= most
    BY <1>1
  <2>2. most \in more \cup {0}
    BY <1>1, <1>2
  <2>3. \A m \in more : m <= most
    BY <1>1, <1>2, <2>1
  <2>4. more \in SUBSET Nat
    BY <1>1, <1>2
  <2> HIDE DEF most
  <2> QED BY <2>2, <2>3, <2>4, HighestIs
<1>4. feedKind.feed = "contiguous" => more = 1 .. most
  <2> SUFFICES ASSUME feedKind.feed = "contiguous" PROVE more = 1 .. most
    OBVIOUS
  <2>1. more = 1 .. n
    BY <1>2 DEF Fresh
  <2>2. most = n
    <3> HIDE DEF pub, more, high
    <3>1. high \in Nat /\ (high # 0 => high <= n)
      BY <1>1, <1>2, <2>1
    <3> QED BY <3>1
  <2> QED BY <2>1, <2>2
<1>5. /\ GivenTo(key)' \in SUBSET more /\ gates'.tracker[key].last \in more \cup {0}
  BY <1>1, <1>2 DEF GivenTo
<1>6. PublishedOk'
  <2> SUFFICES ASSUME NEW q \in FeedKeys
               PROVE  /\ GivenTo(q)' \in SUBSET FeedPart!Published(q)'
                      /\ FeedPart!Highest(FeedPart!Published(q)')
                           \in FeedPart!Published(q)' \cup {0}
                      /\ \A m \in FeedPart!Published(q)' :
                           m <= FeedPart!Highest(FeedPart!Published(q)')
                      /\ gates'.tracker[q].last \in FeedPart!Published(q)' \cup {0}
                      /\ feedKind.feed = "contiguous" =>
                           FeedPart!Published(q)' = 1 .. FeedPart!Highest(FeedPart!Published(q)')
    BY DEF PublishedOk
  <2>1. CASE q = key
    BY <1>3, <1>4, <1>5, <2>1
  <2>2. CASE q # key
    <3>1. FeedPart!Published(q)' = FeedPart!Published(q) /\ GivenTo(q)' = GivenTo(q)
      BY <2>2 DEF NowPublished, GivenTo
    <3> QED BY <3>1 DEF FeedInv, PublishedOk
  <2> QED BY <2>1, <2>2
<1>7. ASSUME NEW q \in FeedKeys PROVE HonestTo(feedKind, got[q], FeedPart!Published(q)')
  <2>1. HonestTo(feedKind, got[q], FeedPart!Published(q)) /\ got[q] \in Seq(FeedEvents)
    BY DEF FeedInv, FeedShape
  <2>2. CASE q = key
    <3>1. ASSUME feedKind.feed = "sparse", NEW i \in DOMAIN got[key]
          PROVE  got[key][i].number <= n
      <4>1. got[key][i].number \in pub
        BY <1>1 DEF GivenTo, NumbersOf
      <4>2. got[key][i].number < n
        BY <3>1, <4>1 DEF Fresh
      <4> QED BY <1>1, <4>1, <4>2
    <3>2. HonestTo(feedKind, got[key], pub \cup {n})
      BY <2>1, <2>2, <3>1, OneMorePublished
    <3> QED BY <1>2, <2>2, <3>2
  <2>3. CASE q # key
    BY <2>1, <2>3 DEF NowPublished
  <2> QED BY <2>2, <2>3
<1> QED BY <1>6, <1>7

LEMMA LanePublishes ==
  ASSUME FeedInv, NEW key \in FeedKeys, NEW n \in Nat, NowPublished(key, n),
         PubBy' \in [FeedKeys -> SUBSET Nat], ws.state # "connected",
         Fresh(feedKind, FeedPart!Published(key), HadBy[key], gates.tracker[key].last, n)
  PROVE  LaneInv(feedKind, ws, wire, gates, PubBy', HadBy)
<1> DEFINE lane == Lane(ws, wire, gates)
           end == LaneEnd(ws, wire)
<1>1. /\ LaneInv(feedKind, ws, wire, gates, PubBy, HadBy)
      /\ WsShape(feedKind, ws) /\ GatesShape(gates) /\ wire \in Seq(FeedFrames(feedKind))
      /\ FeedShape
  BY DEF FeedInv, FeedShape
<1>2. /\ LaneOk(feedKind, lane, end) /\ Quiet(lane, end, gates)
      /\ \A q \in FeedKeys :
           KeyLane(feedKind, lane, end, q, gates.tracker[q].last, HadBy[q], PubBy[q],
                   LostYet(feedKind, ws), q \in gates.reconnected)
  BY <1>1 DEF LaneInv
<1>3. end \in Nat \ {0}
  BY <1>1, LaneLength
<1> HIDE DEF lane, end
<1>4. ASSUME NEW q \in FeedKeys
      PROVE  KeyLane(feedKind, lane, end, q, gates.tracker[q].last, HadBy[q], PubBy'[q],
                     LostYet(feedKind, ws), q \in gates.reconnected)
  <2>1. CASE q # key
    <3>1. PubBy'[q] = PubBy[q]
      BY <2>1 DEF PubBy, NowPublished
    <3> QED BY <1>2, <3>1
  <2>2. CASE q = key
    <3>1. PubBy'[q] = PubBy[q] \cup {n} /\ PubBy[q] = FeedPart!Published(key)
      BY <2>2 DEF PubBy, NowPublished
    <3>2. \/ lane[end - 1].gen # lane[end].gen
          \/ gates.tracker[q].last = 0 /\ \A j \in 1 .. end : ~OnLane(lane, j, q)
      <4>1. CASE \A j \in 0 .. end - 1 : lane[j].gen < lane[end].gen
        <5>1. end - 1 \in 0 .. end - 1 /\ lane[end - 1].gen \in Nat /\ lane[end].gen \in Nat
          BY <1>2, <1>3 DEF LaneOk
        <5>2. lane[end - 1].gen < lane[end].gen
          BY <4>1, <5>1
        <5> QED BY <5>1, <5>2
      <4>2. CASE \A x \in FeedKeys : gates.tracker[x].last = 0
                   /\ \A j \in 1 .. end : ~OnLane(lane, j, x)
        BY <4>2
      <4> QED BY <1>2, <4>1, <4>2 DEF Quiet
    <3>3. gates.tracker[q].last \in Nat /\ PubBy[q] \in SUBSET Nat
      BY <1>1, PublishedBy DEF GatesShape, FeedTrackers
    <3>4. feedKind.feed = "sparse" => \A a \in PubBy[q] : a < n
      BY <3>1 DEF Fresh
    <3> DEFINE lost == LostYet(feedKind, ws)
               marked == q \in gates.reconnected
               last == gates.tracker[q].last
               pub == PubBy[q]
               had == HadBy[q]
    <3>5. lost \in BOOLEAN /\ marked \in BOOLEAN
      BY DEF LostYet
    <3>6. KeyLane(feedKind, lane, end, q, last, had, pub, lost, marked)
      BY <1>2
    <3> HIDE DEF lost, marked, had
    <3>7. KeyLane(feedKind, lane, end, q, last, had, pub \cup {n}, lost, marked)
      <4> HIDE DEF last, pub
      <4>1. /\ last \in Nat /\ pub \in SUBSET Nat
            /\ feedKind.feed = "sparse" => \A a \in pub : a < n
            /\ \/ lane[end - 1].gen # lane[end].gen
               \/ last = 0 /\ \A j \in 1 .. end : ~OnLane(lane, j, q)
        BY <3>2, <3>3, <3>4 DEF last, pub
      <4> QED BY <1>2, <1>3, <3>5, <3>6, <4>1, Unseen
    <3> QED BY <3>1, <3>7 DEF lost, marked, had
  <2> QED BY <2>1, <2>2
<1> QED BY <1>1, <1>2, <1>4 DEF LaneInv, lane, end

LEMMA PublishesKept ==
  ASSUME FeedInv, NEW key \in FeedKeys, FeedPart!Publishes(key)
  PROVE  FeedInv'
<1>1. PICK n \in FeedPart!NextNumbers(key) :
        /\ published' = [published EXCEPT ![key] = Append(@, n)]
        /\ FeedPart!Sends(FeedPart!Data(key, n))
  BY DEF FeedPart!Publishes
<1> DEFINE f == FeedPart!Data(key, n)
<1>2. /\ feedKind' = feedKind /\ ws' = ws /\ gates' = gates /\ got' = got
      /\ wire' = IF ws.state = "connected" THEN Append(wire, f) ELSE wire
  BY <1>1 DEF FeedPart!Publishes, FeedPart!Sends
<1>3. /\ FeedShape /\ GatesShape(gates) /\ WsShape(feedKind, ws)
      /\ wire \in Seq(FeedFrames(feedKind)) /\ LaneInv(feedKind, ws, wire, gates, PubBy, HadBy)
      /\ PubBy \in [FeedKeys -> SUBSET Nat]
  BY PublishedBy DEF FeedInv, FeedShape
<1>4. Fresh(feedKind, FeedPart!Published(key), HadBy[key], gates.tracker[key].last, n)
  BY NextIsFresh
<1>5. n \in Nat \ {0}
  BY <1>4 DEF Fresh
<1>6. NowPublished(key, n)
  BY <1>1, <1>3, <1>5, PublishesMore
<1>7. /\ PublishedOk'
      /\ \A q \in FeedKeys : HonestTo(feedKind, got[q], FeedPart!Published(q)')
  BY <1>2, <1>4, <1>5, <1>6, PublishedStays
<1>8. HadBy' = HadBy /\ \A q \in FeedKeys : GivenTo(q)' = GivenTo(q)
  BY <1>2 DEF HadBy, GivenTo
<1>9. PubBy' \in [FeedKeys -> SUBSET Nat]
  <2>1. \A q \in FeedKeys : FeedPart!Published(q)' \in SUBSET Nat
    <3>1. ASSUME NEW q \in FeedKeys PROVE FeedPart!Published(q)' \in SUBSET Nat
      <4>1. FeedPart!Published(q) \in SUBSET Nat
        BY <1>3, PublishedBy
      <4>2. CASE q = key
        BY <1>5, <1>6, <4>1, <4>2 DEF NowPublished
      <4>3. CASE q # key
        BY <1>6, <4>1, <4>3 DEF NowPublished
      <4> QED BY <4>2, <4>3
    <3> QED BY <3>1
  <2>2. PubBy' = [q \in FeedKeys |-> FeedPart!Published(q)']
    BY DEF PubBy
  <2> QED BY <2>1, <2>2
<1>10. /\ f \in FeedFrames(feedKind) /\ f.data /\ f.key = key /\ f.number = n
  <2> DEFINE lasts == IF feedKind.feed = "contiguous" THEN BOOLEAN ELSE {FALSE}
  <2>1. FALSE \in lasts
    BY Zenon
  <2>2. f = [data |-> TRUE, key |-> key, number |-> n, last |-> FALSE]
    BY DEF FeedPart!Data
  <2> HIDE DEF lasts, f
  <2>3. TRUE \in {TRUE}
    OBVIOUS
  <2>4. [data |-> TRUE, key |-> key, number |-> n, last |-> FALSE]
           \in [data : {TRUE}, key : FeedKeys, number : Nat \ {0}, last : lasts]
    BY <1>5, <2>1, <2>3, FrameWith, Zenon
  <2>5. f \in DataFrames(feedKind)
    BY <2>2, <2>4, Zenon DEF DataFrames, lasts
  <2> QED BY <2>2, <2>5 DEF FeedFrames
<1> HIDE DEF f
<1>11. LaneInv(feedKind, ws, wire', gates, PubBy', HadBy)
  <2>1. CASE ws.state = "connected"
    <3>1. ASSUME NEW q \in FeedKeys
          PROVE  \/ ~(f.data /\ f.key = q) /\ PubBy'[q] = PubBy[q]
                 \/ /\ f.data /\ f.key = q /\ PubBy'[q] = PubBy[q] \cup {f.number}
                    /\ IsAhead(feedKind, gates.tracker[q].last, HadBy[q], f.number)
                    /\ \A a \in PubBy[q] : ComesAfter(feedKind, a, f.number)
      <4>1. CASE q = key
        <5>1. PubBy'[key] = PubBy[key] \cup {n} /\ PubBy[key] = FeedPart!Published(key)
          BY <1>6 DEF PubBy, NowPublished
        <5> QED BY <1>4, <1>10, <4>1, <5>1 DEF Fresh
      <4>2. CASE q # key
        <5>1. PubBy'[q] = PubBy[q]
          BY <1>6, <4>2 DEF PubBy, NowPublished
        <5> QED BY <1>10, <4>2, <5>1
      <4> QED BY <4>1, <4>2
    <3>2. Shows(feedKind, f, gates, PubBy, HadBy, PubBy')
      BY <3>1 DEF Shows
    <3>3. LaneInv(feedKind, ws, Append(wire, f), gates, PubBy', HadBy)
      BY <1>3, <1>9, <1>10, <2>1, <3>2, FrameSent
    <3> QED BY <1>2, <2>1, <3>3
  <2>2. CASE ws.state # "connected"
    <3>1. LaneInv(feedKind, ws, wire, gates, PubBy', HadBy)
      BY <1>4, <1>5, <1>6, <1>9, <2>2, LanePublishes
    <3> QED BY <1>2, <2>2, <3>1
  <2> QED BY <2>1, <2>2
<1>12. FeedShape'
  <2>1. wire' \in Seq(FeedFrames(feedKind))
    BY <1>2, <1>3, <1>10
  <2>2. ws.state # "connected" => wire' = <<>>
    BY <1>2, <1>3 DEF FeedShape
  <2> QED BY <1>2, <1>3, <1>6, <2>1, <2>2 DEF FeedShape, NowPublished
<1> QED BY <1>2, <1>7, <1>8, <1>11, <1>12 DEF FeedInv

-------------------------------------------------------------------------------
LEMMA FeedStarts ==
  ASSUME FeedPart!Init
  PROVE  FeedInv
<1>1. /\ feedKind \in FeedPart!Kinds /\ published = [q \in FeedKeys |-> <<>>] /\ wire = <<>>
      /\ ws = [state |-> "connecting", attempt |-> 0, queue |-> <<>>, dropped |-> 0,
               evicted |-> 0, toldDropped |-> 0, toldEvicted |-> 0, generation |-> 0]
      /\ gates = [tracker |-> [q \in FeedKeys |-> FeedPart!NewTracker], reconnected |-> {},
                  seen |-> 1, open |-> TRUE]
      /\ got = [q \in FeedKeys |-> <<>>]
  BY DEF FeedPart!Init
<1>2. FeedPart!NewTracker \in FeedTrackers /\ FeedPart!NewTracker.last = 0
      /\ FeedPart!NewTracker = [last |-> 0, first |-> 0, missing |-> {}]
  BY DEF FeedPart!NewTracker, FeedTrackers
<1>3. /\ GatesShape(gates) /\ gates.open /\ gates.seen = 1 /\ gates.reconnected = {}
      /\ \A q \in FeedKeys : gates.tracker[q] = FeedPart!NewTracker
  BY <1>1, <1>2 DEF GatesShape
<1>4. /\ WsShape(feedKind, ws) /\ ws.state = "connecting" /\ ws.queue = <<>> /\ ws.dropped = 0
      /\ ws.evicted = 0 /\ ws.toldDropped = 0 /\ ws.toldEvicted = 0 /\ ws.generation = 0
  BY <1>1 DEF WsShape
<1>5. wire \in Seq(FeedFrames(feedKind))
  BY <1>1
<1>6. FeedShape
  BY <1>1, <1>3, <1>4, <1>5 DEF FeedShape
<1>7. \A q \in FeedKeys : FeedPart!Published(q) = {} /\ GivenTo(q) = {} /\ got[q] = <<>>
  BY <1>1 DEF FeedPart!Published, GivenTo, NumbersOf
<1>8. FeedPart!Highest({}) = 0
  BY HighestIs
<1>9. PublishedOk
  <2>1. {} = 1 .. 0
    OBVIOUS
  <2>2. \A q \in FeedKeys : gates.tracker[q].last = 0
    BY <1>2, <1>3
  <2> QED BY <1>7, <1>8, <2>1, <2>2 DEF PublishedOk
<1>10. \A q \in FeedKeys : HonestTo(feedKind, got[q], FeedPart!Published(q))
  BY <1>7 DEF HonestTo
<1>11. \A q \in FeedKeys : TrackOk(feedKind, gates.tracker[q], GivenTo(q))
  BY <1>2, <1>3, <1>7 DEF TrackOk
<1> DEFINE lane == Lane(ws, wire, gates)
           end == LaneEnd(ws, wire)
<1>12. /\ end = 1 /\ lane[0] = Cell({}, 0, 1, 0) /\ lane[1] = Cell({}, 0, 1, 0)
  <2>1. end = 1
    BY <1>1, <1>4 DEF LaneEnd
  <2>2. NextGen(ws) = 1
    BY <1>4 DEF NextGen
  <2>3. /\ lane[0] = Cell({}, 0, gates.seen, ws.toldDropped)
        /\ lane[end] = Cell({}, 0, NextGen(ws), ws.dropped)
    BY <1>4, <1>5, LaneCells
  <2> HIDE DEF end, lane
  <2> QED BY <1>3, <1>4, <2>1, <2>2, <2>3
<1> HIDE DEF end, lane
<1>13. \A j \in 0 .. 1 : lane[j].of = {} /\ lane[j].number = 0 /\ lane[j].gen = 1
                         /\ lane[j].stamp = 0
  <2>1. \A j \in 0 .. 1 : j = 0 \/ j = 1
    OBVIOUS
  <2> QED BY <1>12, <2>1 DEF Cell
<1>14. LaneOk(feedKind, lane, end)
  BY <1>12, <1>13 DEF LaneOk
<1>15. \A q \in FeedKeys, j \in 0 .. 1 : ~OnLane(lane, j, q)
  BY <1>13 DEF OnLane
<1>16. Quiet(lane, end, gates)
  BY <1>2, <1>3, <1>12, <1>15 DEF Quiet
<1>17. ASSUME NEW q \in FeedKeys, NEW lost, NEW marked
       PROVE  KeyLane(feedKind, lane, end, q, gates.tracker[q].last, HadBy[q], PubBy[q],
                      lost, marked)
  <2>1. PubBy[q] = {}
    BY <1>7 DEF PubBy
  <2> QED BY <1>12, <1>15, <2>1 DEF KeyLane, Ordered, Covered
<1>18. LaneInv(feedKind, ws, wire, gates, PubBy, HadBy)
  <2>1. \A j \in 0 .. end : lane[j].gen # 0
    BY <1>12, <1>13
  <2> QED BY <1>14, <1>16, <1>17, <2>1 DEF LaneInv, lane, end
<1> QED BY <1>6, <1>9, <1>10, <1>11, <1>18 DEF FeedInv

LEMMA FeedSteps ==
  ASSUME QueueSize \in Nat \ {0}, FeedInv, [FeedPart!Next]_FeedPart!feedVars
  PROVE  FeedInv'
<1>1. CASE FeedPart!Next
  BY <1>1, ConnectsKept, RefusedKept, DropsKept, ReadsKept, ConsumesKept, EndsKept,
     SendsControlKept, PublishesKept DEF FeedPart!Next
<1>2. CASE UNCHANGED FeedPart!feedVars
  <2>1. /\ feedKind' = feedKind /\ published' = published /\ wire' = wire /\ ws' = ws
        /\ gates' = gates /\ got' = got
    BY <1>2 DEF FeedPart!feedVars
  <2>2. FeedShape
    BY DEF FeedInv
  <2> QED BY <2>1, <2>2, TransportKept DEF TransportMoves, FeedInv, FeedShape
<1> QED BY <1>1, <1>2

\* A loss on the socket, at a full queue or to a control message is flagged on the next event
\* of its key, and no event is given twice (ws.py, normalize/_common.py, quality.py), for any
\* keys, any bounded queue and any number of events, outages and reconnections.
THEOREM FeedStaysHonest ==
  ASSUME QueueSize \in Nat \ {0}
  PROVE  FeedPart!Spec => []FeedIsHonest
<1>1. ASSUME FeedInv PROVE FeedIsHonest
  <2>1. ASSUME NEW key \in FeedKeys PROVE HonestTo(feedKind, got[key], FeedPart!Published(key))
    BY <1>1 DEF FeedInv
  <2>2. \A key : \A i :
          /\ FeedPart!Before(key, i) = BeforeIn(got[key], i)
          /\ FeedPart!Skipped(key, i)
               = SkippedIn(feedKind, got[key], i, FeedPart!Published(key))
    BY DEF FeedPart!Before, FeedPart!Skipped, BeforeIn, SkippedIn
  <2>3. \A key \in FeedKeys : DOMAIN got[key] = 1 .. Len(got[key]) /\ Len(got[key]) \in Nat
    BY <1>1 DEF FeedInv, FeedShape
  <2>4. FeedPart!GivenOnce
    BY <2>1, <2>2 DEF FeedPart!GivenOnce, HonestTo
  <2>5. FeedPart!LossIsFlagged
    <3> SUFFICES ASSUME NEW key \in FeedKeys, NEW i \in 2 .. Len(got[key]),
                        ~got[key][i].late /\ FeedPart!Skipped(key, i) # {}
                 PROVE  got[key][i].gap
      BY DEF FeedPart!LossIsFlagged
    <3>1. i \in DOMAIN got[key] /\ i >= 2
      BY <2>3
    <3> QED BY <2>1, <2>2, <3>1 DEF HonestTo
  <2> QED BY <2>4, <2>5 DEF FeedIsHonest, FeedPart!FeedIsHonest
<1> QED BY <1>1, FeedStarts, FeedSteps, PTL DEF FeedPart!Spec
===============================================================================
