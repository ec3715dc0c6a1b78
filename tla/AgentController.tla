-------------------------- MODULE AgentController --------------------------
(***************************************************************************)
(* The planner of `ksm agent-plan` (ksm/agent_state.py, agent_nodes.py and *)
(* agent_skill_spec.py), called now and again on the episode reports that  *)
(* suites and the older loop have left below the history roots: it stops,  *)
(* asks for another iteration or for better feedback, or proposes a new    *)
(* skill, and reads of a report only what Evidence lets through.           *)
(***************************************************************************)
EXTENDS Evidence, Sequences

CONSTANTS
  Families,     \* the skill families that are known by their actions
  Happening,    \* the runs, visuals and verdicts that may occur
  MaxEpisodes,  \* bound on the reports
  Threshold     \* success_threshold, in successes per hundred episodes

ASSUME AgentAssumption ==
  /\ "unclassified" \notin Families
  /\ Happening.runs \subseteq Runs /\ Happening.visuals \subseteq Visuals
  /\ Happening.verdicts \subseteq Predicates \X Verifiers
  /\ MaxEpisodes \in Nat /\ Threshold \in 0..100

VARIABLES
  history,    \* the episodes whose reports are below the history roots
  torn,       \* one of the reports there was cut short
  plan        \* the plan last printed: [route, node, spec, seen]

agentVars == <<history, torn, plan>>

-----------------------------------------------------------------------------
(* Episodes.                                                               *)

Episode(from, run, family, visual, verdict) ==
  [from |-> from, run |-> run, family |-> family, visual |-> visual,
   predicate |-> verdict[1], verifier |-> verdict[2]]

EpisodeReports ==
  {e \in {Episode(from, run, family, visual, verdict) :
            from \in {"suite", "loop"}, run \in Happening.runs,
            family \in Families \union {"unclassified"},
            visual \in Happening.visuals, verdict \in Happening.verdicts} : Possible(e)}

-----------------------------------------------------------------------------
(* CandidateObservation, of what the code finds in a report: the loop's    *)
(* embed no feedback.                                                      *)

NoFeedback == [evidence_gaps |-> {}, failed_actions |-> {}]

Observation(e) ==
  [skill_family |-> e.family,
   pipeline_success |-> PipelineSuccess(e),
   skill_success |-> Completed(e),
   agent_feedback |-> IF e.from = "suite" THEN SafeFeedback(e) ELSE NoFeedback]

(* controller_summary *)
Unseen(h) == \E i \in DOMAIN h :
  "missing_structured_visual_feedback" \in Observation(h[i]).agent_feedback.evidence_gaps
Failing(h) == \E i \in DOMAIN h : Observation(h[i]).agent_feedback.failed_actions # {}
Reached(h) == \E i \in DOMAIN h : PipelineSuccess(h[i])

(* _evaluation_gate, which takes `success` where there is no task_success. *)
Passed(h) == \E i \in DOMAIN h : Success(h[i])

(* _dominant_repeated_family *)
Repeated(h) ==
  \E i, j \in DOMAIN h : i # j /\ h[i].family = h[j].family /\ h[i].family \in Families

-----------------------------------------------------------------------------
(* decide_next_action: the first of these that applies.  The reuse of a    *)
(* seed is left out: it needs a history without a verdict, and every       *)
(* report that is written holds one.                                       *)

Decide(h) ==
  IF h = <<>> THEN [route |-> "need_more_observation", node |-> "summarize_experiment_history"]
  ELSE IF Passed(h) THEN [route |-> "stop_success", node |-> "stop_and_report"]
  ELSE IF Repeated(h) /\ Reached(h) THEN
    [route |-> "new_skill_candidate",
     node |-> IF Unseen(h) THEN "request_feedback_enrichment" ELSE "propose_new_skill_spec"]
  ELSE IF Failing(h) THEN
    [route |-> "adjust_binding_or_parameters", node |-> "run_aspire_iteration"]
  ELSE [route |-> "need_more_observation", node |-> "request_feedback_enrichment"]

(* _has_structured_visual_observation *)
Analyzed(h) == \E i \in DOMAIN h : h[i].visual # "none"

(* propose_new_skill_spec, which one analysed episode satisfies.           *)
Proposal(h) == IF Unseen(h) /\ ~Analyzed(h) THEN "needs_observation" ELSE "proposed"

(* _agent_plan *)
Plan(h) ==
  LET decision == Decide(h)
  IN [route |-> decision.route, node |-> decision.node,
      spec |-> IF decision.route = "new_skill_candidate" THEN Proposal(h) ELSE "none",
      seen |-> Len(h)]

-----------------------------------------------------------------------------
NoPlan == [route |-> "none", node |-> "none", spec |-> "none", seen |-> 0]

AgentInit == history = <<>> /\ torn = FALSE /\ plan = NoPlan

(* The bound is on all reports, the one cut short included.                *)
Room == Len(history) + (IF torn THEN 1 ELSE 0) < MaxEpisodes

Reported(from) ==
  /\ Room
  /\ \E e \in EpisodeReports : e.from = from /\ history' = Append(history, e)
  /\ UNCHANGED <<torn, plan>>

(* _run_suite_episode and run_aspire_iteration, which write their reports. *)
SuiteReports == Reported("suite")
LoopReports == Reported("loop")

(* A report is not written in one piece: a process killed while writing it *)
(* leaves a file that does not parse.                                      *)
ReportCutShort == ~torn /\ Room /\ torn' = TRUE /\ UNCHANGED <<history, plan>>

(* One report that does not parse ends the command with an exception.      *)
AgentPlan == ~torn /\ plan' = Plan(history) /\ UNCHANGED <<history, torn>>

AgentNext == SuiteReports \/ LoopReports \/ ReportCutShort \/ AgentPlan

AgentSpec == AgentInit /\ [][AgentNext]_agentVars

-----------------------------------------------------------------------------
Routes == {"need_more_observation", "stop_success", "new_skill_candidate",
           "adjust_binding_or_parameters"}
Nodes == {"summarize_experiment_history", "stop_and_report", "request_feedback_enrichment",
          "propose_new_skill_spec", "run_aspire_iteration"}

(* Every variable has its type, and a specification comes with the route   *)
(* that asks for one and with no other.                                    *)
AgentTypeOK ==
  /\ history \in Seq(EpisodeReports) /\ Len(history) <= MaxEpisodes /\ torn \in BOOLEAN
  /\ plan \in [route : Routes \union {"none"}, node : Nodes \union {"none"},
               spec : {"none", "proposed", "needs_observation"}, seen : 0..MaxEpisodes]
  /\ plan.seen <= Len(history)
  /\ (plan.spec # "none") <=> (plan.route = "new_skill_candidate")

(* What else the judges could have said of an episode that went as e did,  *)
(* with the same verdict on the whole and a success no more or less        *)
(* confirmed: a predicate that holds after a skill that failed confirms    *)
(* one, and replaces the failure modes the summary is written from.        *)
Rejudged(e) ==
  {o \in {[e EXCEPT !.predicate = v[1], !.verifier = v[2]] : v \in Happening.verdicts} :
     Possible(o) /\ Success(o) = Success(e) /\ ConfirmedSuccess(o) = ConfirmedSuccess(e)}

(* Past the gate the judges are not heard: whichever of them failed an     *)
(* episode, or none, the agent is shown the same observation, and the same *)
(* is decided, after it and whatever there was before.                     *)
JudgesAreNotHeard ==
  history # <<>> =>
    LET last == Len(history)
    IN \A o \in Rejudged(history[last]) :
         /\ Observation(o) = Observation(history[last])
         /\ Decide([history EXCEPT ![last] = o]) = Decide(history)

(* A plan goes by what is seen: no specification is proposed unless the    *)
(* frames of some episode it is based on were analysed, and the node that  *)
(* proposes is never named while its own answer would be to wait.          *)
SpecIsSeen ==
  /\ plan.spec = "proposed" => Analyzed(SubSeq(history, 1, plan.seen))
  /\ plan.node = "propose_new_skill_spec" => plan.spec = "proposed"

(* Once a candidate has passed the gate every later plan stops as well,    *)
(* whatever is reported after it.                                          *)
StopIsKept == [][plan.route = "stop_success" => plan'.route = "stop_success"]_agentVars

=============================================================================
