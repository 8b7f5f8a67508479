-------------------------------- MODULE Gates --------------------------------
(***************************************************************************)
(* Gate as one of the parts of Parts, in a module of its own because what  *)
(* is proved about it stands with the other proofs about orders.           *)
(***************************************************************************)
CONSTANTS Ids, MaxPosition, AllowShort, AmountsOf,
          MaxEngages, MaxAmends, MaxCancels, MaxDoubts

VARIABLES orders, request, lock, submitAt, amend, cancels, kill, gateWire,
          venue, reports, late, used

GatePart == INSTANCE Gate WITH at <- submitAt, wire <- gateWire

\* What the venue may still execute stays inside the limits of the checks, and two of our
\* orders never meet, but for terms that a late acknowledgement dropped (risk.py, state.py).
VenueStaysWithinChecks == GatePart!VenueStaysWithinChecks
\* No amendment goes out after a cancel or a kill, but for a late acknowledgement (amend).
AmendYields == GatePart!AmendYields
===============================================================================
