--------------------------- MODULE MCEvalSession ---------------------------
(* Instances of EvalSession for TLC: the bounds and faults are in the cfgs. *)
EXTENDS EvalSession
=============================================================================
