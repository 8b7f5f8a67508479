-------------------------------- MODULE MCFix --------------------------------
(***************************************************************************)
(* Small instances for TLC of the FIX orders and the FIX session, which    *)
(* share no state.  A behaviour takes one of them as its subject, and the  *)
(* other stays as it began, so that the run's states are those of each.    *)
(* The session resets its numbers with each new period: without, it does   *)
(* what it does here once its period is on record.                         *)
(***************************************************************************)
EXTENDS FixOrders, TLC

CONSTANTS MaxTrouble, MaxOurs, MaxTheirs, MaxNumber  \* FixSession's bounds

VARIABLES
  subject,                                                  \* the part that moves
  disk, mem, todo, lock, link, peer, day, config, seen, sessionBudget \* FixSession

Session == INSTANCE FixSession WITH budget <- sessionBudget

sessionVars == <<disk, mem, todo, lock, link, peer, day, config, seen, sessionBudget>>

FixInit ==
  /\ subject \in {"orders", "session"} /\ Init /\ Session!Init
  /\ config.reset  \* FixConverges.cfg has sessions without, too
OrdersMove ==
  subject = "orders" /\ Next /\ UNCHANGED <<subject, sessionVars>>
SessionMoves ==
  subject = "session" /\ Session!Next /\ UNCHANGED <<subject, vars>>
FixNext == OrdersMove \/ SessionMoves
FixSpec == FixInit /\ [][FixNext]_<<subject, vars, sessionVars>>

Symmetric == Permutations(Callers) \cup Permutations(Operators)

\* No application message is passed over unheard, either way (FixSession).
NothingIsPassedOver == Session!NothingIsPassedOver
\* No number is ever too low for the peer (FixSession).
NeverTooLow == Session!NeverTooLow
===============================================================================
