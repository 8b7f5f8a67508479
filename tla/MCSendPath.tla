------------------------------ MODULE MCSendPath ------------------------------
(***************************************************************************)
(* Small instances of SendPath.                                            *)
(***************************************************************************)
EXTENDS SendPath, TLC

CONSTANTS c1, c2

CallerSymmetry == Permutations({c1, c2})
===============================================================================
