CONSTANTS
  c1 = c1
  c2 = c2
  Callers = {c1, c2}
  MaxCrashes = 1
  MaxFaults = 1
  MaxQueryFaults = 0
  MaxCancels = 1
  MaxAbandons = 1

SPECIFICATION Spec
SYMMETRY CallerSymmetry

INVARIANT SentStaysOnRecord
INVARIANT KillStopsSend
INVARIANT MemoryMatchesJournal
INVARIANT NoIntentIsLeft
INVARIANT CancelBeforeSendHolds
INVARIANT AtMostOneAttempt
