------------------------------ MODULE SuiteRun ------------------------------
(***************************************************************************)
(* run_suite (ksm/suite_runner.py) executing every candidate on every task *)
(* through run_published_skill (ksm/runner.py): one episode after another  *)
(* on one pipeline, which goes on by itself between any two requests and   *)
(* keeps whatever an episode left behind.                                  *)
(***************************************************************************)
EXTENDS KwPipeline, Sequences, FiniteSets

CONSTANTS NTasks, NCandidates,
          Resetting, \* the tasks whose reset_layout is true
          Needed,    \* success_threshold, in successes per hundred episodes
          Faults     \* subset of {"lost", "timeout", "lag"}: a request or its answer
                     \* is lost, a skill outlasts the deadline, the pipeline starts
                     \* a skill after it has answered

ASSUME SuiteAssumption ==
  /\ NTasks \in Nat \ {0} /\ NCandidates \in Nat \ {0}
  /\ Resetting \subseteq 1..NTasks /\ Needed \in 0..100
  /\ Faults \subseteq {"lost", "timeout", "lag"}

(* for task in suite.tasks: for candidate in suite.candidates              *)
Episodes == 1..(NTasks * NCandidates)
TaskOf(e) == ((e - 1) \div NCandidates) + 1
Resets(e) == TaskOf(e) \in Resetting

VARIABLES
  pc,       \* what the episode does next
  episode,  \* its index
  error,    \* run_error is set
  result,   \* final_status of the RunResult, NoStatus without one
  reports,  \* the episode reports so far
  started   \* history: the state of the scene when each skill was submitted

suite == <<pc, episode, error, result, reports, started>>
vars == <<pipeline, suite>>

Init ==
  /\ PipelineInit
  /\ pc = "publish" /\ episode = 1 /\ error = FALSE /\ result = NoStatus
  /\ reports = <<>> /\ started = <<>>

-----------------------------------------------------------------------------
(* One episode: policy, publication and the run.                           *)

Goto(next) == pc' = next /\ UNCHANGED <<episode, error, result, reports, started>>

(* Any exception out of run_published_skill ends up in run_error.          *)
Raise == pc' = "evaluate" /\ error' = TRUE /\ UNCHANGED <<episode, result, reports, started>>

(* The label preflight only asks the pipeline to ground labels.  A policy  *)
(* violation skips the run; check_skill and publish_skill are outside the  *)
(* try, so that what they raise ends run_suite itself.                     *)
Publish ==
  /\ pc = "publish" /\ UNCHANGED pipeline
  /\ \/ Goto(IF Resets(episode) THEN "layout" ELSE "submit")
     \/ Goto("refused")
     \/ Goto("aborted")

(* Mutant: the layout is not put back.                                     *)
ForgetLayout == pc = "layout" /\ Goto("reset") /\ UNCHANGED pipeline

(* An ok that is not true raises.                                          *)
ResetLayout ==
  /\ pc = "layout"
  /\ \/ LayoutIsReset /\ Goto("reset")
     \/ "lost" \in Faults /\ (LayoutIsReset \/ UNCHANGED pipeline) /\ Raise

(* Mutant: the pipeline keeps its skill and its status.                    *)
ForgetPipeline == pc = "reset" /\ Goto("home") /\ UNCHANGED pipeline

ResetPipeline ==
  /\ pc = "reset"
  /\ \/ PipelineIsReset /\ Goto("home")
     \/ "lost" \in Faults /\ (PipelineIsReset \/ UNCHANGED pipeline) /\ Raise

(* go_home of either arm; what it answers is recorded and not looked at.   *)
GoHome ==
  /\ pc = "home" /\ UNCHANGED pipeline
  /\ \/ Goto("submit")
     \/ "lost" \in Faults /\ Raise

(* run_skill: submit_result goes into the RunResult and its ok, false of a *)
(* busy pipeline or a skill that does not load, is not looked at.  A       *)
(* request whose answer is lost may have been accepted.                    *)
Submit ==
  /\ pc = "submit"
  /\ Accept(episode, "lag" \in Faults) \/ UNCHANGED pipeline
  /\ started' = Append(started, [of |-> episode, from |-> pristine])
  /\ \/ pc' = "wait" /\ UNCHANGED error
     \/ "lost" \in Faults /\ pc' = "evaluate" /\ error' = TRUE
  /\ UNCHANGED <<episode, result, reports>>

(* wait_done takes the first status that is not running for the end of the *)
(* skill.                                                                  *)
PollDone ==
  /\ pc = "wait" /\ running = 0
  /\ result' = status /\ pc' = "evaluate"
  /\ UNCHANGED <<pipeline, episode, error, reports, started>>

(* Mutant: the wait goes on as long as the skill runs.                     *)
NeverTimeout ==
  pc = "wait" /\ running = 0 /\ "lost" \in Faults /\ Raise /\ UNCHANGED pipeline

(* The deadline is over, or a poll fails: the skill is left as it is.      *)
PollRaises ==
  /\ pc = "wait"
  /\ \/ "timeout" \in Faults /\ running # 0
     \/ "lost" \in Faults
  /\ Raise /\ UNCHANGED pipeline

-----------------------------------------------------------------------------
(* The report.                                                             *)

(* skill_ok without a run_error.                                           *)
PipelineSucceeded == ~error /\ result.ok

Verdicts == {"true", "false", "none"}

(* Mutant: the verifier is asked before the predicates.                    *)
VerifierFirst(ran, predicate, verifier) ==
  IF ~ran THEN [success |-> FALSE, source |-> "pipeline"]
  ELSE IF verifier # "none" THEN [success |-> verifier = "true", source |-> "kw_verifier"]
  ELSE [success |-> predicate = "true", source |-> "kw_predicate"]

(* episode_outcome: the predicates decide if there are any, the declared   *)
(* verifier if there are none.                                             *)
Outcome(ran, predicate, verifier) ==
  CASE ~ran -> [success |-> FALSE, source |-> "pipeline"]
    [] ran /\ predicate # "none" -> [success |-> predicate = "true", source |-> "kw_predicate"]
    [] ran /\ predicate = "none" /\ verifier # "none" ->
         [success |-> verifier = "true", source |-> "kw_verifier"]
    [] OTHER -> [success |-> FALSE, source |-> "missing_effect_feedback"]

(* The report, with what it rests on: whose skill ended how, and whether   *)
(* the scene the predicates saw was at rest.                               *)
Report(policyOk, predicate, verifier) ==
  [of |-> episode, policy |-> policyOk, predicate |-> predicate,
   outcome |-> Outcome(policyOk /\ PipelineSucceeded, predicate, verifier),
   skill |-> result, quiet |-> Idle]

More == episode + 1 \in Episodes

(* What predicates, visual evidence or traces raise ends run_suite.        *)
EvaluationRaises == pc \in {"evaluate", "refused"} /\ Goto("aborted") /\ UNCHANGED pipeline

(* The next episode begins, or run_suite adds up.                          *)
Evaluate ==
  /\ pc \in {"evaluate", "refused"} /\ UNCHANGED pipeline
  /\ \E predicate, verifier \in Verdicts :
       reports' = Append(reports, Report(pc = "evaluate", predicate, verifier))
  /\ error' = FALSE /\ result' = NoStatus /\ UNCHANGED started
  /\ IF More THEN episode' = episode + 1 /\ pc' = "publish"
             ELSE pc' = "done" /\ UNCHANGED episode

Successes == { i \in DOMAIN reports : reports[i].outcome.success }

(* success of the SuiteRunResult.                                          *)
SuiteSuccess == 100 * Cardinality(Successes) >= Needed * Len(reports)

-----------------------------------------------------------------------------
RunnerSteps == \/ Publish \/ ResetLayout \/ ResetPipeline \/ GoHome \/ Submit
               \/ PollDone \/ PollRaises \/ EvaluationRaises \/ Evaluate

(* After its return the suite is over; the pipeline goes on.               *)
Next == RunnerSteps \/ (PipelineSteps /\ UNCHANGED suite)

Spec == Init /\ [][Next]_vars

(* The runner is one thread that never stops for good between two          *)
(* requests; the pipeline owes it nothing, not even an end of a skill.     *)
FairSpec == Spec /\ WF_vars(RunnerSteps)

-----------------------------------------------------------------------------
(* Properties.                                                             *)

Statuses == [of: Episodes \cup {0}, ok: BOOLEAN]

(* The state is well typed.                                                *)
TypeOK ==
  /\ queued \in Episodes \cup {0} /\ running \in Episodes \cup {0}
  /\ status \in Statuses /\ pristine \in BOOLEAN
  /\ pc \in {"publish", "layout", "reset", "home", "submit", "wait", "evaluate",
             "refused", "aborted", "done"}
  /\ episode \in Episodes /\ error \in BOOLEAN /\ result \in Statuses
  /\ reports \in Seq([of: Episodes, policy: BOOLEAN, predicate: Verdicts,
                     outcome: [success: BOOLEAN,
                               source: {"pipeline", "kw_predicate", "kw_verifier",
                                        "missing_effect_feedback"}],
                     skill: Statuses, quiet: BOOLEAN])
  /\ started \in Seq([of: Episodes, from: BOOLEAN])

(* An episode of a task that resets is only a success if its own skill was *)
(* run to a successful end, nothing moved any more when the predicates     *)
(* looked at the scene, and no predicate failed: no skill an earlier       *)
(* episode left running, and no status it left behind, can pass for it.    *)
SuccessIsOwn ==
  \A i \in Successes : Resets(reports[i].of) =>
    /\ reports[i].skill = [of |-> reports[i].of, ok |-> TRUE]
    /\ reports[i].quiet /\ reports[i].policy /\ reports[i].predicate # "false"

(* The skill of a task that resets is submitted with the objects where the *)
(* manifest lays them out, if nothing moved any more at the end of the     *)
(* episode before: only a skill that was left running, whose moves fall    *)
(* between the layout's reset and the pipeline's, can take it away again.  *)
QuietStartsFromLayout ==
  \A i \in DOMAIN started : LET e == started[i].of IN
    Resets(e) /\ (e > 1 => reports[e - 1].quiet) => started[i].from

(* A suite that succeeds at a threshold of 100 has one success of every    *)
(* candidate on every task.                                                *)
FullMarksAreEarned ==
  pc = "done" /\ SuiteSuccess /\ Needed = 100 =>
    { reports[i].of : i \in Successes } = Episodes

(* The suite ends, with a report or an exception, even if no skill ever    *)
(* does.                                                                   *)
Finishes == <>(pc \in {"done", "aborted"})
=============================================================================
