------------------------------ MODULE Evidence ------------------------------
(***************************************************************************)
(* What becomes of an episode once it is over: its report, what            *)
(* feedback_attribution.py infers from it, and the part of that the agent  *)
(* may be shown.  Pure operators over one episode e, a record of what      *)
(* happened:                                                               *)
(*   from       who wrote the report: "suite" (suite_runner.py) or "loop"  *)
(*              (aspire_loop.py)                                           *)
(*   run        how the skill went, see Runs                               *)
(*   family     skill_family: the existing skills it is made of            *)
(*   visual     what the model that looks at the frames reports            *)
(*   predicate, verifier   what the two evaluators say of the task         *)
(***************************************************************************)
EXTENDS Integers, FiniteSets

(* Not executed; the submission raised; motion planning or another action  *)
(* failed; the skill completed, without a failed action, after motion      *)
(* planning had failed once, or with a failed verifier action of its own.  *)
Runs == {"dry", "crash", "planning", "failed", "done", "retried", "checked"}

(* No analysis; one of the older schema, whose flags say whether anything  *)
(* moved; one of the schema the prompt for the model now asks for.         *)
Visuals == {"none", "still", "moved", "unchanged", "changed"}
Predicates == {"none", "pass", "fail"}
Verifiers == {"none", "pass", "fail", "unclear"}

Completed(e) == e.run \in {"done", "retried", "checked"}

(* Predicates are evaluated whenever the skill is executed, a declared     *)
(* verifier says fail whenever the pipeline does and, of a skill that      *)
(* completed, when its verifier action failed.  The older loop asks        *)
(* neither of them, looks at no frame and files no manifest.               *)
Possible(e) ==
  /\ e.from = "loop" =>
       e.visual = "none" /\ e.predicate = "none" /\ e.verifier = "none"
         /\ e.family = "unclassified"
  /\ e.run = "dry" => e.predicate = "none"
  /\ ~Completed(e) \/ e.run = "checked" => e.verifier \in {"none", "fail"}
  /\ e.run \in {"done", "retried"} => e.verifier # "fail"

-----------------------------------------------------------------------------
(* The report.                                                             *)

(* effect_success: the predicates overrule the verifier.                   *)
Effect(e) ==
  IF ~Completed(e) THEN "no"
  ELSE IF e.predicate # "none" THEN (IF e.predicate = "pass" THEN "yes" ELSE "no")
  ELSE IF e.verifier # "none" THEN (IF e.verifier = "pass" THEN "yes" ELSE "no")
  ELSE "unknown"

(* success: of the task for a suite, of the pipeline alone for the loop.   *)
Success(e) == IF e.from = "suite" THEN Effect(e) = "yes" ELSE Completed(e)
PipelineSuccess(e) == e.from = "suite" /\ Completed(e)

FailedActions(e) == CASE e.run \in {"planning", "retried"} -> {"motion_planning"}
                      [] e.run = "failed" -> {"other"}
                      [] e.run = "checked" -> {"verifier"}
                      [] OTHER -> {}
HasTimeline(e) == e.run \notin {"dry", "crash"}

(* classify_failure of a suite knows motion planning by its message, and   *)
(* finds it in the log of a skill that recovered from it as well.          *)
RunSignature(e) ==
  IF e.run = "dry" THEN "dry_run"
  ELSE IF e.run = "crash" THEN "execution_exception"
  ELSE IF e.from = "suite" /\ "motion_planning" \in FailedActions(e) THEN "motion_planning_failed"
  ELSE IF Completed(e) THEN "success"
  ELSE "skill_execution_failed"

Signature(e) ==
  IF ~PipelineSuccess(e) \/ Effect(e) = "yes" THEN RunSignature(e)
  ELSE IF e.predicate = "fail" THEN "predicate_failed"
  ELSE IF e.verifier = "fail" THEN "verifier_failed"
  ELSE IF e.verifier = "unclear" THEN "verifier_inconclusive"
  ELSE "effect_feedback_missing"

-----------------------------------------------------------------------------
(* analyze_episode_report.                                                 *)

(* Any evaluator that says yes, whatever came of the task.                 *)
ConfirmedSuccess(e) ==
  e.from = "suite" /\ (Effect(e) = "yes" \/ e.predicate = "pass" \/ e.verifier = "pass")
UntrustedSuccess(e) == Success(e) /\ ~ConfirmedSuccess(e)

FailureModes(e) ==
  CASE ConfirmedSuccess(e) -> {"success"}
    [] UntrustedSuccess(e) -> {"untrusted_reported_success"}
    [] OTHER ->
       {Signature(e)}
       \union (IF FailedActions(e) = {} /\ Signature(e) # "dry_run"
               THEN {"no_failed_action_attribution"} ELSE {})
       \union (IF "motion_planning" \in FailedActions(e)
               THEN {"motion_planning_action_failed"} ELSE {})
       \union (IF e.visual \in {"still", "unchanged"}
               THEN {"no_observable_visual_state_change"} ELSE {})

(* Mutant: the trace of a suite always passes for complete.                *)
NoTraceGaps(e) == {}

(* analyze_trace sees the visual event of every suite episode, and the     *)
(* episode's own summary event as a failed one when the pipeline failed.   *)
TraceGaps(e) ==
  IF e.from = "loop" THEN {}
  ELSE IF e.visual = "none" THEN {"missing_structured_visual_feedback"}
  ELSE IF FailedActions(e) # {} \/ (e.run # "dry" /\ ~Completed(e)) THEN {}
  ELSE IF e.visual = "moved" THEN {"trace_has_no_actionable_failure_attribution"}
  ELSE {"missing_failed_step_attribution"}

(* The statuses that infer_evidence_gaps takes for missing visual evidence *)
(* include none that build_visual_evidence gives.                          *)
EvidenceGaps(e) ==
  (IF ~HasTimeline(e) /\ Signature(e) # "dry_run" THEN {"missing_action_timeline"} ELSE {})
  \union (IF e.from = "loop" THEN {"missing_structured_visual_feedback"} ELSE {})
  \union (IF e.predicate = "none" THEN {"missing_predicate_feedback"} ELSE {})
  \union (IF e.from = "loop" \/ Effect(e) = "unknown" THEN {"missing_effect_feedback"} ELSE {})
  \union (IF FailedActions(e) = {} /\ ~Success(e) THEN {"missing_failed_step_attribution"} ELSE {})
  \union TraceGaps(e)

-----------------------------------------------------------------------------
(* build_agent_feedback and agent_safe_payload.                            *)

(* The words of this model that EVALUATOR_ONLY_MODE_TOKENS and             *)
(* EVALUATOR_ONLY_TEXT_TOKENS match.                                       *)
EvaluatorModes ==
  {"predicate_failed", "verifier_failed", "verifier_inconclusive", "effect_feedback_missing"}
EvaluatorText == {"predicate_failed", "missing_predicate_feedback"}

AgentVisibleModes(e) ==
  LET visible == FailureModes(e) \ EvaluatorModes
  IN IF visible = {} THEN {"agent_visible_failure_unspecified"} ELSE visible

(* Mutant: the gaps that only their text gives away are dropped.           *)
TextGaps(e) == EvidenceGaps(e) \ EvaluatorText
AgentVisibleGaps(e) == EvidenceGaps(e) \ (EvaluatorText \union {"missing_effect_feedback"})

AgentVisibleSignature(e) ==
  IF FailedActions(e) # {} /\ Signature(e) # "predicate_failed" THEN "action_failed"
  ELSE IF Signature(e) \notin {"predicate_failed", "effect_feedback_missing"} THEN Signature(e)
  ELSE IF PipelineSuccess(e) THEN "effect_unconfirmed"
  ELSE "agent_visible_failure_unspecified"

(* Only the flags of the older schema are looked at.                       *)
ObservableStatus(e) ==
  IF ~PipelineSuccess(e) THEN "pipeline_failed"
  ELSE CASE e.visual = "still" -> "no_visible_motion"
         [] e.visual = "moved" -> "visual_progress"
         [] OTHER -> "effect_unconfirmed"

AgentSummary(e) ==
  [lead |-> IF FailedActions(e) # {} THEN "first_failed_action"
            ELSE IF ~PipelineSuccess(e) THEN AgentVisibleSignature(e)
            ELSE "effect_unconfirmed",
   planning |-> "motion_planning_action_failed" \in AgentVisibleModes(e),
   visual |-> e.visual, gaps |-> AgentVisibleGaps(e)]

AgentFeedback(e) ==
  [observable_status |-> ObservableStatus(e),
   pipeline_success |-> PipelineSuccess(e),
   skill_success |-> Completed(e),
   reported_success |-> Success(e),
   reported_success_without_effect_evidence |-> UntrustedSuccess(e),
   observable_failure_signature |-> AgentVisibleSignature(e),
   failed_actions |-> FailedActions(e),
   visual_feedback |-> e.visual,
   inferred_failure_modes |-> AgentVisibleModes(e),
   recurring_summary |-> AgentSummary(e),
   evidence_gaps |-> AgentVisibleGaps(e)]

(* EVALUATOR_ONLY_KEYS and AGENT_STATIC_TAXONOMY_KEYS, of those in use.    *)
StrippedKeys == {"observable_failure_signature", "inferred_failure_modes",
                 "success", "confirmed_success", "success_evidence_level"}

AgentSafe(payload) == [key \in DOMAIN payload \ StrippedKeys |-> payload[key]]
SafeFeedback(e) == AgentSafe(AgentFeedback(e))

=============================================================================
