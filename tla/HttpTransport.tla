---------------------------- MODULE HttpTransport ----------------------------
(***************************************************************************)
(* The REST transport of src/ismet/transport: HttpTransport.request of     *)
(* http.py with its retries (backoff.py) and the circuit breaker of        *)
(* circuit.py that all calls of one transport share.  Calls are tasks of   *)
(* one event loop; a call waits for its rate limit, for the server and     *)
(* before a retry, and may be cancelled at each of these.                  *)
(*                                                                         *)
(* Abstractions.  A request is a read, sent once, or declared idempotent.  *)
(* Time is whether the breaker's recovery timeout has passed.  "acted"     *)
(* stands for all a request can do at the server; a refusal with a status  *)
(* of 400 to 499 means that the server did not act on that attempt.        *)
(***************************************************************************)
EXTENDS Integers, FiniteSets

CONSTANTS Calls,       \* calls that may be under way together
          MaxAttempts, \* RetryPolicy.max_attempts
          Threshold,   \* CircuitBreaker.failure_threshold
          MaxCalls     \* how many calls begin

ASSUME PolicyIsValid == MaxAttempts \in Nat \ {0} /\ Threshold \in Nat \ {0}
ASSUME MaxCallsIsNatural == MaxCalls \in Nat

Kinds == {"read", "once", "idempotent"}

\* What one attempt ends in.  A connect failure cannot have reached the server.
Outcomes == {"success", "not_sent", "broken", "server_error", "redirect", "throttled", "refused"}

\* What the caller gets: a plain TransportError says that nothing was done.
Errors == {"transport", "circuit_open", "ambiguous", "rate_limited", "venue_error"}
Answers == Errors \cup {"none", "ok", "cancelled"}

VARIABLES
  state,    \* "closed", "open" or "half_open"
  failures, \* consecutive failures, counted up to Threshold
  probing,  \* whether the half-open probe is taken
  elapsed,  \* whether the recovery timeout has passed since the breaker opened
  at,       \* the pc of each call
  kind,     \* what each call requests
  attempt,  \* the number of its attempt
  reached,  \* whether the server acted on this attempt
  answer,   \* what its caller got
  begun,    \* how many calls have begun
  acted,    \* history: whether the server acted on any attempt of the call
  probes    \* history: the calls that took the probe since the breaker half-opened

breakerVars == <<state, failures, probing, elapsed>>
callVars == <<at, kind, attempt, reached, answer, begun, acted>>
vars == <<breakerVars, callVars, probes>>

InFlight == {c \in Calls : at[c] \in {"limited", "sent"}}

-------------------------------------------------------------------------------
\* The circuit breaker.
HalfOpens == state = "open" /\ elapsed
Admits == state = "closed" \/ HalfOpens \/ (state = "half_open" /\ ~probing)

\* A check that lets the call through takes the probe unless the circuit is closed.
Check(c) ==
  /\ Admits
  /\ state' = IF HalfOpens THEN "half_open" ELSE state
  /\ probing' = (state # "closed")
  /\ probes' = IF HalfOpens THEN {c} ELSE IF state = "closed" THEN probes ELSE probes \cup {c}
  /\ UNCHANGED <<failures, elapsed>>

RecordSuccess ==
  /\ state' = "closed" /\ failures' = 0 /\ probing' = FALSE /\ probes' = {}
  /\ UNCHANGED elapsed

ReleaseProbe ==
  /\ probing' = (probing /\ state # "half_open")
  /\ UNCHANGED <<state, failures, elapsed, probes>>

RecordFailure ==
  LET count == IF failures < Threshold THEN failures + 1 ELSE failures
  IN  /\ failures' = count
      /\ IF state = "half_open" \/ count >= Threshold
         THEN /\ state' = "open" /\ elapsed' = FALSE /\ probing' = FALSE /\ probes' = {}
         ELSE UNCHANGED <<state, elapsed, probing, probes>>

TimeoutElapses ==
  /\ state = "open" /\ ~elapsed /\ elapsed' = TRUE
  /\ UNCHANGED <<state, failures, probing, callVars, probes>>

-------------------------------------------------------------------------------
\* request.
Repeatable(c) == kind[c] # "once"
Attempts(c) == IF Repeatable(c) THEN MaxAttempts ELSE 1

Begin(c, k) ==
  /\ at[c] = "idle" /\ begun < MaxCalls /\ begun' = begun + 1
  /\ kind' = [kind EXCEPT ![c] = k] /\ attempt' = [attempt EXCEPT ![c] = 1]
  /\ answer' = [answer EXCEPT ![c] = "none"] /\ acted' = [acted EXCEPT ![c] = FALSE]
  /\ reached' = [reached EXCEPT ![c] = FALSE] /\ at' = [at EXCEPT ![c] = "trying"]
  /\ UNCHANGED <<breakerVars, probes>>

Returns(c, what) ==
  /\ at' = [at EXCEPT ![c] = "idle"] /\ answer' = [answer EXCEPT ![c] = what]
  /\ UNCHANGED attempt

\* Behind an open circuit a call is not attempted, and CircuitOpen is not retried.
Try(c) ==
  /\ at[c] = "trying"
  /\ \/ Check(c) /\ at' = [at EXCEPT ![c] = "limited"] /\ UNCHANGED <<answer, attempt>>
     \/ ~Admits /\ Returns(c, "circuit_open") /\ UNCHANGED <<breakerVars, probes>>
  /\ UNCHANGED <<kind, reached, begun, acted>>

Send(c) ==
  /\ at[c] = "limited" /\ at' = [at EXCEPT ![c] = "sent"]
  /\ reached' = [reached EXCEPT ![c] = FALSE]
  /\ UNCHANGED <<breakerVars, kind, attempt, answer, begun, acted, probes>>

ServerActs(c) ==
  /\ at[c] = "sent" /\ ~reached[c]
  /\ reached' = [reached EXCEPT ![c] = TRUE] /\ acted' = [acted EXCEPT ![c] = TRUE]
  /\ UNCHANGED <<breakerVars, at, kind, attempt, answer, begun, probes>>

Possible(c, outcome) ==
  /\ outcome = "success" => reached[c]
  /\ outcome \in {"not_sent", "throttled", "refused"} => ~reached[c]

Told == {"success", "refused", "throttled"}
Undone(c, outcome) == outcome = "not_sent" \/ kind[c] = "read"
SlipMapped(c, outcome) ==
  CASE outcome = "success" -> "ok"
    [] outcome = "refused" -> "venue_error"
    [] outcome = "throttled" -> "rate_limited"
    [] outcome \notin Told /\ (Undone(c, outcome) \/ outcome = "redirect") -> "transport"
    [] OTHER -> "ambiguous"
Mapped(c, outcome) ==
  CASE outcome = "success" -> "ok"
    [] outcome = "refused" -> "venue_error"
    [] outcome = "throttled" -> "rate_limited"
    [] outcome \notin Told /\ Undone(c, outcome) -> "transport"
    [] OTHER -> "ambiguous"

\* Redirects and refusals are final; a stated wait may be too long to retry after.
Retries(c, outcome) ==
  /\ attempt[c] < Attempts(c)
  /\ outcome \in {"not_sent", "broken", "server_error", "throttled"}
Judges(c, outcome) ==
  \/ Retries(c, outcome) /\ at' = [at EXCEPT ![c] = "backoff"] /\ UNCHANGED <<answer, attempt>>
  \/ /\ ~Retries(c, outcome) \/ outcome = "throttled"
     /\ Returns(c, Mapped(c, outcome))

\* The outcome is counted, the probe given up and the retry decided without an await.
AttemptEnds(c, outcome) ==
  /\ at[c] = "sent" /\ Possible(c, outcome)
  /\ \/ outcome = "success" /\ RecordSuccess
     \/ outcome = "refused" /\ ReleaseProbe
     \/ outcome \notin {"success", "refused"} /\ RecordFailure
  /\ Judges(c, outcome)
  /\ UNCHANGED <<kind, reached, begun, acted>>

TryAgain(c) ==
  /\ at[c] = "backoff" /\ at' = [at EXCEPT ![c] = "trying"]
  /\ attempt' = [attempt EXCEPT ![c] = @ + 1]
  /\ UNCHANGED <<breakerVars, kind, reached, answer, begun, acted, probes>>

SlipCancel(c) ==
  /\ at[c] # "idle" /\ Returns(c, "cancelled")
  /\ UNCHANGED <<breakerVars, probes, kind, reached, begun, acted>>
Cancel(c) ==
  /\ at[c] # "idle" /\ Returns(c, "cancelled")
  /\ IF c \in InFlight THEN ReleaseProbe ELSE UNCHANGED <<breakerVars, probes>>
  /\ UNCHANGED <<kind, reached, begun, acted>>

-------------------------------------------------------------------------------
Init ==
  /\ state = "closed" /\ failures = 0 /\ probing = FALSE /\ elapsed = FALSE
  /\ at = [c \in Calls |-> "idle"] /\ kind = [c \in Calls |-> "read"]
  /\ attempt = [c \in Calls |-> 1] /\ reached = [c \in Calls |-> FALSE]
  /\ answer = [c \in Calls |-> "none"] /\ begun = 0
  /\ acted = [c \in Calls |-> FALSE] /\ probes = {}

Next ==
  \/ \E c \in Calls :
       \/ \E k \in Kinds : Begin(c, k)
       \/ Try(c) \/ Send(c) \/ ServerActs(c)
       \/ \E outcome \in Outcomes : AttemptEnds(c, outcome)
       \/ TryAgain(c) \/ Cancel(c)
  \/ TimeoutElapses

Spec == Init /\ [][Next]_vars

-------------------------------------------------------------------------------
(***************************************************************************)
(* Properties.                                                             *)
(***************************************************************************)
\* The variables keep their types, and a circuit is open or half open only after
\* Threshold failures in a row.
TypeOK ==
  /\ state \in {"closed", "open", "half_open"} /\ failures \in 0..Threshold
  /\ probing \in BOOLEAN /\ elapsed \in BOOLEAN /\ begun \in 0..MaxCalls
  /\ at \in [Calls -> {"idle", "trying", "limited", "sent", "backoff"}]
  /\ kind \in [Calls -> Kinds] /\ attempt \in [Calls -> 1..MaxAttempts]
  /\ reached \in [Calls -> BOOLEAN] /\ answer \in [Calls -> Answers]
  /\ acted \in [Calls -> BOOLEAN] /\ probes \subseteq Calls
  /\ state # "closed" => failures = Threshold

\* While the probe is taken the call that took it is on its way: however it ends, by an
\* answer that does not count or a cancellation, the next call may probe, and the
\* circuit is never stuck (release_probe).
ProbeIsHeld == probing => state = "half_open" /\ probes \cap InFlight # {}

\* A request that is neither a read nor declared idempotent is sent once, and if its
\* caller is told it was not sent, throttled or refused, the server did not act on it.
SentOnceAndKnown ==
  \A c \in Calls : kind[c] = "once" =>
    /\ attempt[c] = 1
    /\ answer[c] \in Errors \ {"ambiguous"} => ~acted[c]

\* http.py:17 says of every method but the reads that a failure that may have reached the
\* server raises AmbiguousOutcome, "whether or not it was declared idempotent".
AmbiguityReachesCaller ==
  \A c \in Calls : kind[c] # "read" /\ answer[c] \in {"transport", "circuit_open"} => ~acted[c]

\* circuit.py:21 says that after recovery_timeout "one probe call is allowed".
OneProbe == Cardinality(probes \cap InFlight) <= 1
===============================================================================
