---------------------------- MODULE MCKillSwitch ----------------------------
(* Small instances of KillSwitch for TLC. *)
EXTENDS KillSwitch, TLC

CONSTANTS e1, e2, e3

EngagerSymmetry == Permutations(Engagers)
=============================================================================
