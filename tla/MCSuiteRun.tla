----------------------------- MODULE MCSuiteRun -----------------------------
(* Instances of SuiteRun for TLC: the sizes and faults are in the cfgs.    *)
EXTENDS SuiteRun
=============================================================================
