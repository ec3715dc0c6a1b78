----------------------------- MODULE KwPipeline -----------------------------
(***************************************************************************)
(* The Knowin World skill pipeline and the scene it acts on, as            *)
(* PipelineDirectClient (ksm/runner.py) sees them through HTTP.  Neither   *)
(* is in the repository: the model holds what the client asks for and      *)
(* reads back.  Skills are named by the positive number of the submission. *)
(***************************************************************************)
EXTENDS Naturals

VARIABLES
  queued,   \* the skill accepted but not yet reported as running, 0 for none
  running,  \* the skill that runs, 0 for none
  status,   \* the last entry of the status' success list
  pristine  \* the objects lie as the manifest lays them out

pipeline == <<queued, running, status, pristine>>

(* The success list is empty: skill_success finds nothing in it.           *)
NoStatus == [of |-> 0, ok |-> FALSE]

Idle == queued = 0 /\ running = 0

PipelineInit == queued = 0 /\ running = 0 /\ status = NoStatus /\ pristine \in BOOLEAN

(* /run?action=skill of a pipeline at rest: the skill runs when the        *)
(* request is answered or, if the pipeline lags, some time later.          *)
Accept(s, lags) ==
  /\ Idle /\ UNCHANGED <<status, pristine>>
  /\ \/ running' = s /\ UNCHANGED queued
     \/ lags /\ queued' = s /\ UNCHANGED running

(* The pipeline's own steps.                                               *)
Starts == queued # 0 /\ running' = queued /\ queued' = 0 /\ UNCHANGED <<status, pristine>>
Moves == running # 0 /\ pristine' = FALSE /\ UNCHANGED <<queued, running, status>>
Ends == /\ running # 0 /\ running' = 0
        /\ \E ok \in BOOLEAN : status' = [of |-> running, ok |-> ok]
        /\ UNCHANGED <<queued, pristine>>

PipelineSteps == Starts \/ Moves \/ Ends

(* /api/reset_layout, by the WebUI, and /reset.                            *)
LayoutIsReset == pristine' = TRUE /\ UNCHANGED <<queued, running, status>>
PipelineIsReset == queued' = 0 /\ running' = 0 /\ status' = NoStatus /\ UNCHANGED pristine
=============================================================================
