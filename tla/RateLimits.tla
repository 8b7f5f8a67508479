------------------------------ MODULE RateLimits ------------------------------
(***************************************************************************)
(* The budget of src/ismet/transport/ratelimit.py as the Binance adapter   *)
(* spends it (_WeightLimiter and the hooks of _stream in                   *)
(* src/ismet/providers/binance/__init__.py): token buckets that requests   *)
(* of several weights and stream handshakes take from, and the hold that   *)
(* a 429 or 418 puts on all of them, while some are already waiting.       *)
(*                                                                         *)
(* One event loop: a step lies between two awaits.  The lock of a bucket   *)
(* is fair, and is held over the sleep of the one who waits for tokens.    *)
(*                                                                         *)
(* Abstractions.  Time is in ticks, with one token a tick; a sleep ends    *)
(* late or on time.  The retries of HttpTransport are new callers.         *)
(***************************************************************************)
EXTENDS Integers, Sequences, FiniteSetsExt

CONSTANTS Requests, Handshakes,  \* callers
          Weight,                \* of each caller's tokens
          Capacity,              \* of each bucket
          MaxTime, MaxSends, MaxHolds

VARIABLES
  now,     \* the clock
  buckets, \* _tokens and _last of each bucket, and who has or awaits its lock
  tasks,   \* per caller, where it is and when it wakes
  hold,    \* _hold_until, and how often it was asked for
  sent     \* what went out: by which bucket, of what weight, when, under which hold, and
           \* how much had gone out by each bucket then

limitVars == <<now, buckets, tasks, hold, sent>>

Callers == Requests \cup Handshakes
Buckets == {"weight", "connect"}
BucketOf(c) == IF c \in Requests THEN "weight" ELSE "connect"
Idle == [pc |-> "idle", due |-> 0]
Init ==
  /\ now = 0 /\ sent = <<>> /\ hold = [until |-> 0, asked |-> 0]
  /\ buckets = [k \in Buckets |-> [tokens |-> Capacity[k], last |-> 0, queue |-> <<>>]]
  /\ tasks = [c \in Callers |-> Idle]

-------------------------------------------------------------------------------
\* _refill.
Refilled(b, k) == [b EXCEPT !.tokens = Min({Capacity[k], @ + (now - b.last)}), !.last = now]
Rests(c) == tasks' = [tasks EXCEPT ![c] = Idle]
SleepsUntil(c, pc, due) == tasks' = [tasks EXCEPT ![c] = [pc |-> pc, due |-> due]]
GoneOut(k) == IF sent = <<>> THEN 0 ELSE sent[Len(sent)].out[k]
Sends(c) ==
  /\ Rests(c)
  /\ sent' = Append(sent, [bucket |-> BucketOf(c), weight |-> Weight[c], at |-> now,
                           held |-> hold.until,
                           out |-> [k \in Buckets |->
                                      GoneOut(k) + IF k = BucketOf(c) THEN Weight[c] ELSE 0]])
\* wait_out_hold; its check may give up.
WaitsOutHold(c) ==
  IF hold.until > now
  THEN (SleepsUntil(c, "held", hold.until) \/ Rests(c)) /\ UNCHANGED sent
  ELSE Sends(c)
\* _refuse_during_hold, when the tokens are taken.
SlipHeldByNow == FALSE
HeldByNow == hold.until > now
Granted(c) ==
  IF c \in Handshakes THEN WaitsOutHold(c)
  ELSE IF HeldByNow THEN Rests(c) /\ UNCHANGED sent
  ELSE Sends(c)
\* The loop of TokenBucket.acquire, for the holder of the lock.
Tries(c, b) ==
  LET k == BucketOf(c)
      r == Refilled(b, k)
  IN  IF r.tokens >= Weight[c]
      THEN /\ buckets' = [buckets EXCEPT ![k] = [r EXCEPT !.tokens = @ - Weight[c],
                                                          !.queue = Tail(@)]]
           /\ Granted(c)
      ELSE /\ buckets' = [buckets EXCEPT ![k] = r]
           /\ SleepsUntil(c, "sleeping", now + Weight[c] - r.tokens)
           /\ UNCHANGED sent

\* acquire: a request is refused at once during a hold, and waits its turn otherwise.
Acquires(c) ==
  /\ tasks[c] = Idle /\ Len(sent) < MaxSends
  /\ c \in Requests => hold.until <= now
  /\ LET b == buckets[BucketOf(c)]
         queued == [b EXCEPT !.queue = Append(@, c)]
     IN  IF b.queue = <<>> THEN Tries(c, queued)
         ELSE /\ buckets' = [buckets EXCEPT ![BucketOf(c)] = queued]
              /\ tasks' = [tasks EXCEPT ![c] = [pc |-> "locking", due |-> 0]]
              /\ UNCHANGED sent
  /\ UNCHANGED <<now, hold>>
GoesOn(c) ==
  /\ tasks[c].pc \in {"locking", "sleeping"} /\ tasks[c].due <= now
  /\ Head(buckets[BucketOf(c)].queue) = c
  /\ Tries(c, buckets[BucketOf(c)])
  /\ UNCHANGED <<now, hold>>
HoldEnds(c) ==
  /\ tasks[c].pc = "held" /\ tasks[c].due <= now
  /\ WaitsOutHold(c)
  /\ UNCHANGED <<now, buckets, hold>>
\* The caller is cancelled while it waits: the lock is free, and no token was taken.
Cancelled(c) ==
  /\ tasks[c] # Idle
  /\ Rests(c)
  /\ buckets' = [buckets EXCEPT ![BucketOf(c)].queue = SelectSeq(@, LAMBDA d : d # c)]
  /\ UNCHANGED <<now, hold, sent>>
\* hold: the venue answered one that was sent with a wait.
ToldToWait ==
  /\ hold.asked < MaxHolds /\ sent # <<>>
  /\ \E ticks \in 1 .. 2 :
       hold' = [until |-> Max({hold.until, now + ticks}), asked |-> hold.asked + 1]
  /\ UNCHANGED <<now, buckets, tasks, sent>>
Tick == now < MaxTime /\ now' = now + 1 /\ UNCHANGED <<buckets, tasks, hold, sent>>

Next ==
  \/ Tick \/ ToldToWait
  \/ \E c \in Callers : Acquires(c) \/ GoesOn(c) \/ HoldEnds(c) \/ Cancelled(c)
Spec == Init /\ [][Next]_limitVars

-------------------------------------------------------------------------------
\* Between any two requests the venue was asked for no more weight than the bucket holds and
\* what came in since, however many wait for it and are cancelled (TokenBucket).  Handshakes
\* wait out a hold with their token in hand, and go together when it ends.
WithinBudget ==
  \A j \in DOMAIN sent : \A i \in 1 .. j :
    sent[i].bucket = "weight" /\ sent[j].bucket = "weight"
      => sent[i].weight + sent[j].out["weight"] - sent[i].out["weight"]
           <= Capacity["weight"] + sent[j].at - sent[i].at
\* Nothing goes out before a hold that is known has passed, also what had its turn or its
\* tokens under way when the venue asked for it (_refuse_during_hold, wait_out_hold).
HoldIsKept == \A i \in DOMAIN sent : sent[i].held <= sent[i].at
LimitsAreKept == WithinBudget /\ HoldIsKept
===============================================================================
