----------------------------- MODULE MCExposure -------------------------------
(* Small instances of Exposure for TLC: one fill, which Init makes ours or an orphan. *)
EXTENDS Exposure
CONSTANT f1
===============================================================================
