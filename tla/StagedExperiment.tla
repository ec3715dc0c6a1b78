-------------------------- MODULE StagedExperiment --------------------------
(***************************************************************************)
(* run_staged_experiment (ksm/staged_experiment.py): the stages of a plan, *)
(* each executed as a suite of one episode (SuiteRun) on the pipeline the  *)
(* stages before it used, behind a gate that the first failure closes,     *)
(* while the thread of a PeriodicKeyframeSampler (ksm/capture.py) takes    *)
(* frames of every stage.                                                  *)
(***************************************************************************)
EXTENDS KwPipeline, Sequences, SequencesExt, FiniteSets

Kinds == {"bind", "pick", "home", "other"}   \* stage_id, "other" for the rest

CONSTANTS Plans,       \* the staged plans with the stages that were selected
          Lifecycles,  \* the sets of kinds whose candidates are maintained
          Faults       \* of SuiteRun

(* No plan names a stage twice: a stage id has one place in its guide.     *)
ASSUME PlanAssumption ==
  /\ Plans \subseteq Seq(Kinds) /\ \A plan \in Plans : IsInjective(plan)
  /\ Lifecycles \subseteq SUBSET Kinds

VARIABLES
  given,     \* the arguments: plan, the kinds whose candidates are maintained,
             \* execute, whether the binding is complete, the kinds the
             \* registry has a skill for
  pc,        \* where run_staged_experiment is
  index,     \* the stage it has come to
  gate,      \* gate_open
  state,     \* previous_state
  prefix,    \* successful_prefix
  parent,    \* previous_candidate_id: the stage that made it, 0 for parent_id
  results,   \* stage_results
  samplers,  \* the sampler of each stage: its thread, its _stop and, as history,
             \* the samples finished after _stop was set
  suiteAt, episode, error, result, reports, started   \* of the stage's suite

ledger == <<gate, state, prefix, parent, results>>
suite == <<suiteAt, episode, error, result, reports, started>>
vars == <<pipeline, given, pc, index, ledger, samplers, suite>>

(* run_suite of a stage that resets before it executes and of one that     *)
(* goes on from where the pipeline is.                                     *)
Fresh == INSTANCE SuiteRun
           WITH NTasks <- 1, NCandidates <- 1, Resetting <- {1}, Needed <- 100, pc <- suiteAt
Kept == INSTANCE SuiteRun
          WITH NTasks <- 1, NCandidates <- 1, Resetting <- {}, Needed <- 100, pc <- suiteAt

Stage == given.plan[index]

(* Mutant: no stage resets.                                                *)
NeverResets(kind) == FALSE

(* stage_reset_before_execute.                                             *)
Resets(kind) == kind = "pick"

(* Skills are named relative to the suite that runs: 1 is its own, 2 is    *)
(* any that was submitted before.                                          *)
Earlier(skill) == IF skill = 0 THEN 0 ELSE 2

NoSampler == [thread |-> "none", stop |-> FALSE, late |-> 0]

(* The pipeline is as somebody else left it.                               *)
Init ==
  /\ given \in [plan: Plans, maintained: Lifecycles, execute: BOOLEAN, bound: BOOLEAN,
               native: SUBSET {"pick", "home"}]
  /\ pc = "gate" /\ index = 1
  /\ gate = TRUE /\ prefix = <<>> /\ parent = 0 /\ results = <<>>
  /\ state = [after |-> "initial", completed |-> <<>>, facts |-> {}]
  /\ samplers = [i \in DOMAIN given.plan |-> NoSampler]
  /\ queued = 0 /\ running \in {0, 2} /\ pristine \in BOOLEAN
  /\ status \in {NoStatus, [of |-> 2, ok |-> TRUE]}
  /\ suiteAt = "done" /\ episode = 1 /\ error = FALSE /\ result = NoStatus
  /\ reports = <<>> /\ started = <<>>

-----------------------------------------------------------------------------
(* What is kept of a stage.                                                *)

(* stage_predicate_update of a success.                                    *)
Facts(kind) == CASE kind = "pick" -> {"holding"}
                 [] kind = "home" -> {"robot_home"}
                 [] OTHER -> {}

(* Mutant: a failed stage's state is gone on from as well.                 *)
StateAfterAnyway(kind, success) ==
  [after |-> kind, completed |-> IF success THEN Append(state.completed, kind) ELSE state.completed,
   facts |-> state.facts \cup Facts(kind)]

(* state_after_stage, which only a success replaces previous_state by.     *)
StateAfter(kind, success) ==
  IF success THEN [after |-> kind, completed |-> Append(state.completed, kind),
                   facts |-> state.facts \cup Facts(kind)]
             ELSE state

(* write_prefix_replay: the stages whose skills the replay runs.           *)
Replay(success) == IF success THEN Append(prefix, Stage) ELSE prefix

(* Mutant: every candidate becomes a parent, a one-off wrapper too.        *)
AnyCandidate(kind) == TRUE

(* maintain_candidate of the stage's lifecycle.                            *)
Maintains(kind) == kind \in given.maintained

(* The stage's result joins the others, and the gate, the state, the       *)
(* prefix and the parent of the next stage follow from it.                 *)
Record(how, candidate, own, still) ==
  LET success == how = "passed" IN
  /\ results' = Append(results,
       [stage |-> Stage, status |-> how, parent |-> parent, candidate |-> candidate,
        replay |-> IF candidate THEN Replay(success) ELSE <<>>, own |-> own, still |-> still])
  /\ state' = StateAfter(Stage, success)
  /\ prefix' = IF candidate /\ success THEN Append(prefix, Stage) ELSE prefix
  /\ parent' = IF candidate /\ Maintains(Stage) THEN index ELSE parent
  /\ gate' = success
  /\ index' = index + 1 /\ pc' = "gate"
  /\ UNCHANGED given

AtStage == pc = "gate" /\ index \in DOMAIN given.plan

(* Mutant: the plan is not gone on with after a dry run.                   *)
SkipOnlyExecuted ==
  /\ AtStage /\ ~gate /\ given.execute
  /\ results' = Append(results, [stage |-> Stage, status |-> "skipped", parent |-> parent,
                                 candidate |-> FALSE, replay |-> <<>>, own |-> FALSE,
                                 still |-> FALSE])
  /\ index' = index + 1
  /\ UNCHANGED <<given, pc, gate, state, prefix, parent, pipeline, samplers, suite>>

(* build_skipped_stage_result.                                             *)
Skip ==
  /\ AtStage /\ ~gate
  /\ results' = Append(results, [stage |-> Stage, status |-> "skipped", parent |-> parent,
                                 candidate |-> FALSE, replay |-> <<>>, own |-> FALSE,
                                 still |-> FALSE])
  /\ index' = index + 1
  /\ UNCHANGED <<given, pc, gate, state, prefix, parent, pipeline, samplers, suite>>

Bind ==
  /\ AtStage /\ gate /\ Stage = "bind"
  /\ Record(IF given.bound THEN "passed" ELSE "failed", FALSE, TRUE, FALSE)
  /\ UNCHANGED <<pipeline, samplers, suite>>

(* StageNotExecutable: no stage but these two has a skill of its own.      *)
Block ==
  /\ AtStage /\ gate /\ Stage # "bind" /\ Stage \notin given.native
  /\ Record("blocked", FALSE, FALSE, FALSE)
  /\ UNCHANGED <<pipeline, samplers, suite>>

(* The candidate is packaged, its suite written, the frames before are     *)
(* taken, the sampler is started and run_suite called.                     *)
StartStage ==
  /\ AtStage /\ gate /\ Stage \in given.native
  /\ pc' = "suite"
  /\ suiteAt' = "publish" /\ episode' = 1 /\ error' = FALSE /\ result' = NoStatus
  /\ reports' = <<>> /\ started' = <<>>
  /\ queued' = Earlier(queued) /\ running' = Earlier(running)
  /\ status' = [status EXCEPT !.of = Earlier(@)] /\ UNCHANGED pristine
  /\ samplers' = IF given.execute THEN [samplers EXCEPT ![index].thread = "waiting"] ELSE samplers
  /\ UNCHANGED <<given, index, ledger>>

(* What a stage raises before its sampler is started is caught nowhere.    *)
StageRaises ==
  /\ AtStage /\ gate /\ Stage \in given.native
  /\ pc' = "raised"
  /\ UNCHANGED <<given, index, ledger, pipeline, samplers, suite>>

(* The suite runs; without execute it only checks and publishes.           *)
SuiteSteps ==
  /\ pc = "suite" /\ suiteAt \notin {"done", "aborted"}
  /\ \/ given.execute /\ Resets(Stage) /\ Fresh!RunnerSteps
     \/ given.execute /\ ~Resets(Stage) /\ Kept!RunnerSteps
     \/ /\ ~given.execute /\ suiteAt' \in {"done", "aborted"}
        /\ UNCHANGED <<pipeline, episode, error, result, reports, started>>
  /\ UNCHANGED <<given, pc, index, ledger, samplers>>

(* finally: sampler.stop()                                                 *)
StopSampler ==
  /\ pc = "suite" /\ suiteAt \in {"done", "aborted"}
  /\ samplers' = [samplers EXCEPT ![index].stop = TRUE]
  /\ pc' = "join"
  /\ UNCHANGED <<given, index, ledger, pipeline, suite>>

(* The join is over after two seconds, whatever the thread does; what      *)
(* run_suite raised goes on its way.                                       *)
Join ==
  /\ pc = "join"
  /\ pc' = IF suiteAt = "aborted" THEN "raised" ELSE "judge"
  /\ UNCHANGED <<given, index, ledger, pipeline, samplers, suite>>

(* stage_execution_success: pipeline_success and skill_success of the      *)
(* episode.                                                                *)
StagePasses == given.execute /\ reports[1].outcome.source # "pipeline"

(* The frames after are taken and the stage is judged.                     *)
Judge ==
  /\ pc = "judge"
  /\ Record(CASE StagePasses -> "passed" [] ~given.execute -> "dry_run" [] OTHER -> "failed",
            TRUE, StagePasses /\ reports[1].skill.of = 1, Idle)
  /\ UNCHANGED <<pipeline, samplers, suite>>

(* staged_experiment_report.json is written.                               *)
Finish ==
  /\ pc = "gate" /\ index \notin DOMAIN given.plan
  /\ pc' = "done"
  /\ UNCHANGED <<given, index, ledger, pipeline, samplers, suite>>

(* success of the StagedExperimentResult.                                  *)
Success ==
  results # <<>> /\ \A i \in DOMAIN results : results[i].status \in {"passed", "skipped"}

-----------------------------------------------------------------------------
(* The samplers' threads.                                                  *)

(* Mutant: the event is only waited for, its value is not looked at.       *)
SampleAnyway(i) ==
  /\ samplers[i].thread = "waiting"
  /\ samplers' = [samplers EXCEPT ![i].thread = "sampling"]

(* _stop.wait runs into its timeout.                                       *)
Sample(i) ==
  /\ samplers[i].thread = "waiting" /\ ~samplers[i].stop
  /\ samplers' = [samplers EXCEPT ![i].thread = "sampling"]

(* capture_keyframes has written the sample's frames, up to four exchanges *)
(* later.                                                                  *)
Capture(i) ==
  /\ samplers[i].thread = "sampling"
  /\ samplers' = [samplers EXCEPT ![i].thread = "waiting",
                                  ![i].late = IF samplers[i].stop THEN @ + 1 ELSE @]

(* _stop.wait returns.                                                     *)
Leave(i) ==
  /\ samplers[i].thread = "waiting" /\ samplers[i].stop
  /\ samplers' = [samplers EXCEPT ![i].thread = "over"]

SamplerSteps(i) ==
  /\ Sample(i) \/ Capture(i) \/ Leave(i)
  /\ UNCHANGED <<given, pc, index, ledger, pipeline, suite>>

-----------------------------------------------------------------------------
StageSteps == \/ Skip \/ Bind \/ Block \/ StartStage \/ StageRaises \/ SuiteSteps
              \/ StopSampler \/ Join \/ Judge \/ Finish

Next ==
  \/ StageSteps
  \/ \E i \in DOMAIN samplers : SamplerSteps(i)
  \/ PipelineSteps /\ UNCHANGED <<given, pc, index, ledger, samplers, suite>>

Spec == Init /\ [][Next]_vars

(* The experiment's thread and a sampler's are run until they end; the     *)
(* pipeline owes them nothing.                                             *)
FairSpec ==
  /\ Spec /\ WF_vars(StageSteps)
  /\ \A i \in 1..Cardinality(Kinds) : WF_vars(i \in DOMAIN samplers /\ SamplerSteps(i))

-----------------------------------------------------------------------------
(* Properties.                                                             *)

Stages == [stage: Kinds, status: {"passed", "failed", "blocked", "skipped", "dry_run"},
           parent: Nat, candidate: BOOLEAN, replay: Seq(Kinds), own: BOOLEAN, still: BOOLEAN]

Passed == { i \in DOMAIN results : results[i].status = "passed" }

(* A pick has only passed if its own skill ran to a successful end and     *)
(* nothing moves any more in the frames taken after it: nothing that an    *)
(* experiment before it left running, and no status it left, opens the     *)
(* gate for the stages that build on the pick.                             *)
PickIsOwn ==
  \A i \in Passed : results[i].stage = "pick" => results[i].own /\ results[i].still

PassedUpTo(n) == [i \in 1..Cardinality(Passed \cap 1..n) |-> results[i].stage]

(* The stages that passed are those before the first that did not, nothing *)
(* after it ran, the state names them and what they achieved, and the      *)
(* report says success only if every selected stage is among them.         *)
FrontAgrees ==
  /\ \A i \in Passed : 1..i \subseteq Passed
  /\ \A i \in DOMAIN results : results[i].status = "skipped" <=> i > Cardinality(Passed) + 1
  /\ state.completed = PassedUpTo(Len(results))
  /\ state.facts = UNION { Facts(results[i].stage) : i \in Passed }
  /\ pc = "done" => (Success <=> Passed # {} /\ Cardinality(Passed) = Len(given.plan))

(* A replay runs these stages, in the order they have in the results.      *)
Runs(replay, stages) ==
  /\ Len(replay) = Cardinality(stages)
  /\ \A i \in stages : replay[Cardinality(stages \cap 1..i)] = results[i].stage

Skilled(n) == { i \in Passed \cap 1..n : results[i].stage # "bind" }

(* The records of how far the experiment came agree: the results, the      *)
(* state and the verdict as above, and a replay runs the stages that had   *)
(* passed by then and have a skill, each once and in their order.          *)
LedgerAgrees ==
  /\ FrontAgrees
  /\ \A i \in DOMAIN results : results[i].candidate => Runs(results[i].replay, Skilled(i))

(* A stage that ran descends from the caller's parent or from a stage      *)
(* before it that passed and whose candidate is maintained, never from a   *)
(* failed candidate or from a one-off wrapper.                             *)
ParentsPassed ==
  \A i \in DOMAIN results : results[i].status # "skipped" /\ results[i].parent # 0 =>
    /\ results[i].parent < i /\ results[i].parent \in Passed
    /\ results[results[i].parent].stage \in given.maintained

(* A stopped sampler writes at most one more sample, into a later stage or *)
(* after the report although stop has been waited for.                     *)
OneLateSample == \A i \in DOMAIN samplers : samplers[i].late <= 1

(* The experiment ends, with a report or an exception, and so do all of    *)
(* the threads it started.                                                 *)
Concludes == <>[](/\ pc \in {"done", "raised"}
                  /\ \A i \in DOMAIN samplers : samplers[i].thread \in {"none", "over"})
=============================================================================
