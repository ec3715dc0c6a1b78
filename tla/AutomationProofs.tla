-------------------------- MODULE AutomationProofs --------------------------
(***************************************************************************)
(* Theorems about the runs of the skill manager: SuiteRun, RoboDojoAuto    *)
(* and AgentController, for any number of tasks and candidates, every pool *)
(* of suites, every scene and every way a camera may read a label,         *)
(* whatever requests, skills, the pipeline and the evaluators do.          *)
(***************************************************************************)
EXTENDS SuiteRun, RoboDojoAuto, AgentController, SequenceTheorems, ListingProofs

-----------------------------------------------------------------------------
(* SuiteRun.  What the successes of a suite rest on.                       *)

(* A skill is accepted by a pipeline at rest, so one at a time is anywhere *)
(* in it.                                                                  *)
OneSkill == queued = 0 \/ running = 0

Owned(s) == s.ok => s = [of |-> episode, ok |-> TRUE] /\ Idle

(* What the reset of the running episode made sure of, while it lasts.     *)
OwnPipeline ==
  Resets(episode) =>
    /\ pc \in {"home", "submit"} => Idle /\ status = NoStatus
    /\ pc = "wait" => queued \in {0, episode} /\ running \in {0, episode} /\ Owned(status)
    /\ pc = "evaluate" /\ ~error => Owned(result)

(* One report of each episode that is over, in their order.                *)
Progress ==
  /\ Len(reports) = (IF pc = "done" THEN episode ELSE episode - 1)
  /\ pc = "done" => episode + 1 \notin Episodes
  /\ \A i \in 1..Len(reports) : reports[i].of = i

IInv == TypeOK /\ OneSkill /\ OwnPipeline /\ Progress /\ SuccessIsOwn

LEMMA EpisodesType ==
  /\ NTasks * NCandidates \in Nat \ {0}
  /\ Episodes = 1..(NTasks * NCandidates)
  /\ 1 \in Episodes
<1>1. \A m, n \in Nat \ {0} : m * n \in Nat \ {0} OBVIOUS
<1> QED BY <1>1, SuiteAssumption DEF Episodes

LEMMA NoStatusType == NoStatus \in Statuses /\ NoStatus.ok = FALSE /\ NoStatus.of = 0
BY DEF NoStatus, Statuses

(* What a step that leaves the pipeline alone, or resets a part of it,     *)
(* leaves.                                                                 *)
LEMMA PipelineFrame ==
  ASSUME UNCHANGED pipeline
  PROVE  queued' = queued /\ running' = running /\ status' = status /\ pristine' = pristine
BY DEF pipeline

LEMMA ResetFrame ==
  /\ LayoutIsReset =>
       queued' = queued /\ running' = running /\ status' = status /\ pristine' = TRUE
  /\ PipelineIsReset =>
       queued' = 0 /\ running' = 0 /\ status' = NoStatus /\ pristine' = pristine
BY DEF LayoutIsReset, PipelineIsReset

ReportType == [of: Episodes, policy: BOOLEAN, predicate: Verdicts,
               outcome: [success: BOOLEAN,
                         source: {"pipeline", "kw_predicate", "kw_verifier",
                                  "missing_effect_feedback"}],
               skill: Statuses, quiet: BOOLEAN]

LEMMA InitInv == Init => IInv
<1> SUFFICES ASSUME Init PROVE IInv
  OBVIOUS
<1>b. error \in BOOLEAN /\ pristine \in BOOLEAN BY Zenon DEF Init, PipelineInit
<1>1. TypeOK BY <1>b, EpisodesType, NoStatusType DEF Init, PipelineInit, TypeOK
<1>2. OneSkill /\ OwnPipeline BY DEF Init, PipelineInit, OneSkill, OwnPipeline
<1>3. Progress BY DEF Init, Progress
<1>4. SuccessIsOwn BY DEF Init, SuccessIsOwn, Successes
<1> QED BY <1>1, <1>2, <1>3, <1>4 DEF IInv

(* The pipeline's own steps.                                               *)
LEMMA PipelineKeeps ==
  ASSUME IInv, PipelineSteps, UNCHANGED suite
  PROVE  IInv'
<1>0. TypeOK /\ OneSkill /\ OwnPipeline /\ Progress /\ SuccessIsOwn BY DEF IInv
<1>s. UNCHANGED <<pc, episode, error, result, reports, started, Successes>>
  BY DEF suite, Successes
<1>1. queued' \in Episodes \cup {0} /\ running' \in Episodes \cup {0} /\ pristine' \in BOOLEAN
      /\ OneSkill'
  BY <1>0 DEF PipelineSteps, Starts, Moves, Ends, TypeOK, OneSkill
<1>2. status' \in Statuses
  BY <1>0 DEF PipelineSteps, Starts, Moves, Ends, TypeOK, Statuses
<1>3. TypeOK' BY <1>0, <1>1, <1>2, <1>s DEF TypeOK
<1>4. Progress' /\ SuccessIsOwn' BY <1>0, <1>s DEF Progress, SuccessIsOwn
<1>5. Idle => UNCHANGED <<queued, running, status>>
  BY DEF PipelineSteps, Starts, Moves, Ends, Idle
<1>6. OwnPipeline'
  <2> SUFFICES ASSUME Resets(episode)
               PROVE  /\ pc \in {"home", "submit"} => Idle' /\ status' = NoStatus
                      /\ pc = "wait" => /\ queued' \in {0, episode} /\ running' \in {0, episode}
                                        /\ Owned(status)'
                      /\ pc = "evaluate" /\ ~error => Owned(result)'
    BY <1>s DEF OwnPipeline, Resets
  <2>1. pc \in {"home", "submit"} => Idle' /\ status' = NoStatus
    BY <1>0, <1>5 DEF OwnPipeline, Idle
  <2>2. pc = "evaluate" /\ ~error => Owned(result)'
    BY <1>0, <1>5, <1>s DEF OwnPipeline, Owned, Idle
  <2>3. ASSUME pc = "wait"
        PROVE  queued' \in {0, episode} /\ running' \in {0, episode} /\ Owned(status)'
    <3>1. queued \in {0, episode} /\ running \in {0, episode} /\ Owned(status) /\ OneSkill
          /\ episode # 0
      BY <1>0, <2>3, EpisodesType DEF OwnPipeline, TypeOK
    <3>2. CASE Starts BY <3>1, <3>2, <1>s DEF Starts, Owned, Idle
    <3>3. CASE Moves BY <3>1, <3>3, <1>s DEF Moves, Owned, Idle
    <3>4. CASE Ends
      <4>1. PICK ok \in BOOLEAN : status' = [of |-> running, ok |-> ok]
        BY <3>4 DEF Ends
      <4>2. running = episode /\ running' = 0 /\ queued' = 0
        BY <3>1, <3>4 DEF Ends, OneSkill
      <4> QED BY <4>1, <4>2, <1>s DEF Owned, Idle
    <3> QED BY <3>2, <3>3, <3>4 DEF PipelineSteps
  <2> QED BY <2>1, <2>2, <2>3
<1> QED BY <1>1, <1>3, <1>4, <1>6 DEF IInv

(* A step of the runner up to the report: what it has to do to the         *)
(* pipeline.                                                               *)
LEMMA EpisodeKeeps ==
  ASSUME IInv, UNCHANGED <<episode, reports>>, pc # "done", pc' # "done", OneSkill', TypeOK',
         OwnPipeline'
  PROVE  IInv'
BY DEF IInv, Progress, SuccessIsOwn, Successes

LEMMA RunnerKeeps ==
  ASSUME IInv, Publish \/ ResetLayout \/ ResetPipeline \/ GoHome \/ EvaluationRaises
  PROVE  IInv'
<1>0. TypeOK /\ OneSkill /\ OwnPipeline BY DEF IInv
<1>1. /\ UNCHANGED <<episode, result, reports, started>> /\ pc # "done" /\ pc' # "done"
      /\ pc' \in {"layout", "submit", "refused", "aborted", "reset", "home", "evaluate"}
  BY DEF Publish, ResetLayout, ResetPipeline, GoHome, EvaluationRaises, Goto, Raise
<1>2. error' = error \/ error' = TRUE
  BY DEF Publish, ResetLayout, ResetPipeline, GoHome, EvaluationRaises, Goto, Raise
<1>3. error' \in BOOLEAN BY <1>0, <1>2, Zenon DEF TypeOK
<1>p. UNCHANGED pipeline \/ LayoutIsReset \/ PipelineIsReset
  BY DEF Publish, ResetLayout, ResetPipeline, GoHome, EvaluationRaises
<1>4. /\ (queued' = queued /\ running' = running) \/ (queued' = 0 /\ running' = 0)
      /\ status' = status \/ status' = NoStatus
      /\ pristine' = pristine \/ pristine' = TRUE
  BY <1>p, PipelineFrame, ResetFrame, Zenon
<1>5. pristine' \in BOOLEAN BY <1>0, <1>4, Zenon DEF TypeOK
<1>6. TypeOK' BY <1>0, <1>1, <1>3, <1>4, <1>5, NoStatusType DEF TypeOK
<1>7. OneSkill' BY <1>0, <1>4 DEF OneSkill
<1>8. OwnPipeline'
  <2> SUFFICES ASSUME Resets(episode)
               PROVE  /\ pc' \in {"home", "submit"} => Idle' /\ status' = NoStatus
                      /\ pc' # "wait" /\ (pc' = "evaluate" => error')
    BY <1>1 DEF OwnPipeline, Resets
  <2>1. CASE Publish BY <2>1 DEF Publish, Goto
  <2>2. CASE ResetLayout BY <2>2 DEF ResetLayout, Goto, Raise
  <2>3. CASE ResetPipeline BY <2>3 DEF ResetPipeline, PipelineIsReset, Goto, Raise, Idle
  <2>4. CASE GoHome BY <1>0, <2>4 DEF GoHome, Goto, Raise, Idle, pipeline, OwnPipeline
  <2>5. CASE EvaluationRaises BY <2>5 DEF EvaluationRaises, Goto
  <2> QED BY <2>1, <2>2, <2>3, <2>4, <2>5
<1> QED BY <1>1, <1>6, <1>7, <1>8, EpisodeKeeps

LEMMA SubmitKeeps ==
  ASSUME IInv, Submit
  PROVE  IInv'
<1>0. TypeOK /\ OneSkill /\ OwnPipeline BY DEF IInv
<1>1. /\ UNCHANGED <<episode, result, reports, status, pristine>> /\ pc = "submit"
  BY PipelineFrame DEF Submit, Accept
<1>e. (pc' = "wait" /\ error' = error) \/ (pc' = "evaluate" /\ error' = TRUE)
  BY DEF Submit
<1>2. \/ UNCHANGED <<queued, running>>
      \/ Idle /\ running' = episode /\ queued' = queued
      \/ Idle /\ queued' = episode /\ running' = running
  BY DEF Submit, Accept, pipeline
<1>3. error' \in BOOLEAN BY <1>0, <1>e, Zenon DEF TypeOK
<1>4. started' \in Seq([of: Episodes, from: BOOLEAN])
  <2>1. [of |-> episode, from |-> pristine] \in [of: Episodes, from: BOOLEAN]
    BY <1>0 DEF TypeOK
  <2> QED BY <1>0, <2>1 DEF TypeOK, Submit
<1>5. TypeOK' BY <1>0, <1>1, <1>2, <1>3, <1>4, <1>e DEF TypeOK
<1>6. OneSkill' BY <1>0, <1>2 DEF OneSkill, Idle
<1>7. OwnPipeline'
  <2> SUFFICES ASSUME Resets(episode)
               PROVE  /\ pc' = "wait" => /\ queued' \in {0, episode} /\ running' \in {0, episode}
                                         /\ Owned(status)'
                      /\ pc' = "evaluate" => error'
    BY <1>1, <1>e DEF OwnPipeline, Resets
  <2>1. Idle /\ status = NoStatus BY <1>0, <1>1 DEF OwnPipeline
  <2> QED BY <1>1, <1>2, <1>e, <2>1, NoStatusType DEF Owned, Idle
<1> QED BY <1>1, <1>e, <1>5, <1>6, <1>7, EpisodeKeeps

LEMMA PollKeeps ==
  ASSUME IInv, PollDone \/ PollRaises
  PROVE  IInv'
<1>0. TypeOK /\ OneSkill /\ OwnPipeline BY DEF IInv
<1>1. /\ UNCHANGED <<episode, reports, started, queued, running, status, pristine>>
      /\ pc = "wait" /\ pc' = "evaluate"
  BY PipelineFrame DEF PollDone, PollRaises, Raise
<1>e. (error' = error /\ result' = status) \/ (error' = TRUE /\ result' = result)
  BY DEF PollDone, PollRaises, Raise
<1>3. error' \in BOOLEAN BY <1>0, <1>e, Zenon DEF TypeOK
<1>5. TypeOK' BY <1>0, <1>1, <1>3, <1>e DEF TypeOK
<1>6. OneSkill' BY <1>0, <1>1 DEF OneSkill
<1>7. OwnPipeline' BY <1>0, <1>1, <1>e DEF OwnPipeline, Resets, Owned, Idle
<1> QED BY <1>1, <1>5, <1>6, <1>7, EpisodeKeeps

LEMMA ReportTyped ==
  ASSUME TypeOK, NEW ran \in BOOLEAN, NEW predicate \in Verdicts, NEW verifier \in Verdicts
  PROVE  Report(ran, predicate, verifier) \in ReportType
<1>1. PipelineSucceeded \in BOOLEAN BY DEF PipelineSucceeded
<1>2. Idle \in BOOLEAN BY DEF Idle
<1>3. \A b \in BOOLEAN : Outcome(b, predicate, verifier) \in
        [success: BOOLEAN, source: {"pipeline", "kw_predicate", "kw_verifier",
                                    "missing_effect_feedback"}]
  BY DEF Outcome, Verdicts
<1>4. (ran /\ PipelineSucceeded) \in BOOLEAN OBVIOUS
<1> QED BY <1>1, <1>2, <1>3, <1>4 DEF Report, ReportType, TypeOK

LEMMA EvaluateKeeps ==
  ASSUME IInv, Evaluate
  PROVE  IInv'
<1>0. TypeOK /\ OneSkill /\ OwnPipeline /\ Progress /\ SuccessIsOwn BY DEF IInv
<1>1. PICK predicate \in Verdicts, verifier \in Verdicts :
        reports' = Append(reports, Report(pc = "evaluate", predicate, verifier))
  BY DEF Evaluate
<1> DEFINE r == Report(pc = "evaluate", predicate, verifier)
<1>2. /\ UNCHANGED <<queued, running, status, pristine, started>>
      /\ pc \in {"evaluate", "refused"} /\ error' = FALSE /\ result' = NoStatus
      /\ \/ episode + 1 \in Episodes /\ episode' = episode + 1 /\ pc' = "publish"
         \/ episode + 1 \notin Episodes /\ episode' = episode /\ pc' = "done"
  BY DEF Evaluate, More, pipeline
<1>3. (pc = "evaluate") \in BOOLEAN OBVIOUS
<1>4. r \in ReportType BY <1>0, <1>1, <1>3, ReportTyped
<1>5. reports \in Seq(ReportType) BY <1>0 DEF TypeOK, ReportType
<1>6. /\ reports' \in Seq(ReportType) /\ Len(reports') = Len(reports) + 1
      /\ reports'[Len(reports) + 1] = r
      /\ \A i \in 1..Len(reports) : reports'[i] = reports[i]
  BY <1>1, <1>4, <1>5
<1>7. TypeOK'
  <2>1. error' \in BOOLEAN BY <1>2, Zenon
  <2> QED BY <2>1, <1>0, <1>2, <1>6, NoStatusType DEF TypeOK, ReportType
<1>8. OneSkill' /\ OwnPipeline' BY <1>0, <1>2 DEF OneSkill, OwnPipeline
<1>9. r.of = episode BY DEF Report
<1>10. Progress'
  <2>1. episode \in Nat /\ Len(reports) = episode - 1
    BY <1>0, <1>2, EpisodesType DEF Progress, TypeOK
  <2> QED BY <1>0, <1>2, <1>6, <1>9, <2>1 DEF Progress, Episodes
<1>11. SuccessIsOwn'
  <2>1. r.outcome.success /\ Resets(r.of) =>
          /\ r.skill = [of |-> r.of, ok |-> TRUE]
          /\ r.quiet /\ r.policy /\ r.predicate # "false"
    <3>1. r.outcome.success => pc = "evaluate" /\ PipelineSucceeded /\ predicate # "false"
      BY DEF Report, Outcome, Verdicts
    <3> QED BY <1>0, <3>1 DEF Report, PipelineSucceeded, OwnPipeline, Owned
  <2>2. ASSUME NEW i \in Successes', Resets(reports'[i].of)
        PROVE  /\ reports'[i].skill = [of |-> reports'[i].of, ok |-> TRUE]
               /\ reports'[i].quiet /\ reports'[i].policy /\ reports'[i].predicate # "false"
    <3>1. i \in 1..(Len(reports) + 1) /\ reports'[i].outcome.success
      BY <1>6, <2>2 DEF Successes
    <3>2. CASE i = Len(reports) + 1 BY <1>6, <2>1, <2>2, <3>1, <3>2
    <3>3. CASE i \in 1..Len(reports)
      <4>1. i \in Successes /\ reports'[i] = reports[i]
        BY <1>5, <1>6, <3>1, <3>3 DEF Successes
      <4> QED BY <1>0, <2>2, <4>1 DEF SuccessIsOwn
    <3> QED BY <1>5, <3>1, <3>2, <3>3
  <2> QED BY <2>2 DEF SuccessIsOwn, Resets, TaskOf
<1> QED BY <1>7, <1>8, <1>10, <1>11 DEF IInv

LEMMA StepInv == IInv /\ [Next]_vars => IInv'
<1> SUFFICES ASSUME IInv, [Next]_vars PROVE IInv'
  OBVIOUS
<1>1. CASE RunnerSteps
  BY <1>1, RunnerKeeps, SubmitKeeps, PollKeeps, EvaluateKeeps DEF RunnerSteps
<1>2. CASE PipelineSteps /\ UNCHANGED suite BY <1>2, PipelineKeeps
<1>3. CASE UNCHANGED vars
  BY <1>3 DEF vars, pipeline, suite, IInv, TypeOK, OneSkill, OwnPipeline, Progress, SuccessIsOwn,
     Successes, Owned, Idle
<1> QED BY <1>1, <1>2, <1>3 DEF Next

THEOREM Invariance == Spec => []IInv
BY InitInv, StepInv, PTL DEF Spec

(* The state is always well typed.                                         *)
THEOREM Typing == Spec => []TypeOK
<1>1. IInv => TypeOK BY DEF IInv
<1> QED BY <1>1, Invariance, PTL

(* A success of a task that resets is the success of its own skill in a    *)
(* scene at rest.                                                          *)
THEOREM OwnSuccess == Spec => []SuccessIsOwn
<1>1. IInv => SuccessIsOwn BY DEF IInv
<1> QED BY <1>1, Invariance, PTL

(* Full marks need every success: as many successes as reports, and one    *)
(* report of each episode.                                                 *)
LEMMA FullMarks ==
  ASSUME IInv
  PROVE  FullMarksAreEarned
<1> SUFFICES ASSUME pc = "done", SuiteSuccess, Needed = 100
             PROVE  { reports[i].of : i \in Successes } = Episodes
  BY DEF FullMarksAreEarned
<1>0. TypeOK /\ Progress BY DEF IInv
<1>1. reports \in Seq(ReportType) BY <1>0 DEF TypeOK, ReportType
<1>2. Len(reports) \in Nat /\ DOMAIN reports = 1..Len(reports) BY <1>1
<1>3. IsFiniteSet(1..Len(reports)) /\ Cardinality(1..Len(reports)) = Len(reports)
  <2>1. 1 \in Int /\ Len(reports) \in Int BY <1>2
  <2>2. /\ IsFiniteSet(1..Len(reports))
        /\ Cardinality(1..Len(reports)) =
             (IF 1 > Len(reports) THEN 0 ELSE Len(reports) - 1 + 1)
    BY <2>1, FS_Interval, Zenon
  <2> QED BY <1>2, <2>2
<1>4. Successes \subseteq 1..Len(reports) BY <1>2 DEF Successes
<1>5. /\ IsFiniteSet(Successes) /\ Cardinality(Successes) \in Nat
      /\ (Cardinality(Successes) = Len(reports) => Successes = 1..Len(reports))
      /\ Cardinality(Successes) <= Len(reports)
  <2>1. Successes \in SUBSET (1..Len(reports)) BY <1>4
  <2>2. /\ IsFiniteSet(Successes) /\ Cardinality(Successes) <= Cardinality(1..Len(reports))
        /\ Cardinality(1..Len(reports)) = Cardinality(Successes) => 1..Len(reports) = Successes
    BY <1>3, <2>1, FS_Subset, Zenon
  <2>3. Cardinality(Successes) \in Nat BY <2>2, FS_CardinalityType, Zenon
  <2> QED BY <1>3, <2>2, <2>3
<1>6. Successes = 1..Len(reports) BY <1>2, <1>5 DEF SuiteSuccess
<1>7. Episodes = 1..Len(reports)
  BY <1>0, EpisodesType DEF Progress, TypeOK
<1> QED BY <1>0, <1>6, <1>7 DEF Progress

(* A suite that succeeds at a threshold of 100 has one success of every    *)
(* candidate on every task.                                                *)
THEOREM EarnedMarks == Spec => []FullMarksAreEarned
<1>1. IInv => FullMarksAreEarned BY FullMarks
<1> QED BY <1>1, Invariance, PTL

-----------------------------------------------------------------------------
(* Where the objects lie when a skill is submitted.                        *)

(* The running episode resets, and found nothing moving.                   *)
Undisturbed == Resets(episode) /\ (episode > 1 => reports[episode - 1].quiet)

Calm ==
  Undisturbed =>
    /\ pc \in {"publish", "layout"} => Idle
    /\ pc \in {"reset", "home", "submit"} => Idle /\ pristine

Submitted == \A i \in DOMAIN started : started[i].of \in 1..episode

QInv == IInv /\ Calm /\ Submitted /\ QuietStartsFromLayout

LEMMA QuietInit == Init => QInv
<1> SUFFICES ASSUME Init PROVE QInv
  OBVIOUS
<1>1. IInv BY InitInv
<1>2. Calm /\ Submitted /\ QuietStartsFromLayout
  BY DEF Init, PipelineInit, Calm, Idle, Submitted, QuietStartsFromLayout
<1> QED BY <1>1, <1>2 DEF QInv

(* A step that submits nothing and ends no episode.                        *)
LEMMA QuietFrame ==
  ASSUME QInv, IInv', UNCHANGED <<episode, reports, started>>, Calm'
  PROVE  QInv'
BY DEF QInv, Submitted, QuietStartsFromLayout, Resets, TaskOf

LEMMA QuietPipeline ==
  ASSUME QInv, IInv', PipelineSteps, UNCHANGED suite
  PROVE  QInv'
<1>1. ~Idle BY DEF PipelineSteps, Starts, Moves, Ends, Idle
<1>2. UNCHANGED <<pc, episode, reports, started, Undisturbed>>
  BY DEF suite, Undisturbed, Resets, TaskOf
<1>3. Calm' BY <1>1, <1>2 DEF QInv, Calm
<1> QED BY <1>2, <1>3, QuietFrame

(* The layout is put back while nothing moves, and nothing moves from then *)
(* on.                                                                     *)
LEMMA QuietRunner ==
  ASSUME QInv, IInv',
         \/ Publish \/ ResetLayout \/ ResetPipeline \/ GoHome \/ EvaluationRaises
         \/ PollDone \/ PollRaises
  PROVE  QInv'
<1>1. UNCHANGED <<episode, reports, started, Undisturbed>>
  BY DEF Publish, ResetLayout, ResetPipeline, GoHome, EvaluationRaises, PollDone, PollRaises, Goto,
         Raise, Undisturbed, Resets, TaskOf
<1>2. Calm'
  <2> SUFFICES ASSUME Undisturbed
               PROVE  /\ pc' \in {"publish", "layout"} => Idle'
                      /\ pc' \in {"reset", "home", "submit"} => Idle' /\ pristine'
    BY <1>1 DEF Calm
  <2>0. /\ pc \in {"publish", "layout"} => Idle
        /\ pc \in {"reset", "home", "submit"} => Idle /\ pristine
    BY DEF QInv, Calm
  <2>1. CASE Publish
    BY <2>0, <2>1, PipelineFrame DEF Publish, Goto, Idle, Undisturbed
  <2>2. CASE ResetLayout
    BY <2>0, <2>2, ResetFrame DEF ResetLayout, Goto, Raise, Idle
  <2>3. CASE ResetPipeline
    <3>1. pc = "reset" /\ (pc' = "evaluate" \/ (pc' = "home" /\ PipelineIsReset))
      BY <2>3 DEF ResetPipeline, Goto, Raise
    <3>2. PipelineIsReset => queued' = 0 /\ running' = 0 /\ pristine' = pristine
      BY ResetFrame
    <3>3. Idle /\ pristine
      BY <2>0, <3>1
    <3>4. PipelineIsReset => Idle' /\ pristine'
      BY <3>2, <3>3, Zenon DEF Idle
    <3> QED BY <3>1, <3>4
  <2>4. CASE GoHome
    BY <2>0, <2>4, PipelineFrame DEF GoHome, Goto, Raise, Idle
  <2>5. CASE EvaluationRaises \/ PollDone \/ PollRaises
    BY <2>5 DEF EvaluationRaises, PollDone, PollRaises, Goto, Raise
  <2> QED BY <2>1, <2>2, <2>3, <2>4, <2>5
<1> QED BY <1>1, <1>2, QuietFrame

LEMMA QuietSubmit ==
  ASSUME QInv, IInv', Submit
  PROVE  QInv'
<1>0. TypeOK /\ Submitted /\ Calm /\ QuietStartsFromLayout BY DEF QInv, IInv
<1>1. /\ UNCHANGED <<episode, reports>> /\ pc = "submit" /\ pc' \in {"wait", "evaluate"}
      /\ started' = Append(started, [of |-> episode, from |-> pristine])
  BY DEF Submit
<1>2. started \in Seq([of: Episodes, from: BOOLEAN]) /\ episode \in Nat \ {0}
  BY <1>0, EpisodesType DEF TypeOK
<1>3. /\ DOMAIN started = 1..Len(started) /\ Len(started) \in Nat
      /\ DOMAIN started' = 1..(Len(started) + 1)
      /\ started'[Len(started) + 1] = [of |-> episode, from |-> pristine]
      /\ \A i \in DOMAIN started : started'[i] = started[i]
  BY <1>1, <1>2
<1>4. Calm' BY <1>1 DEF Calm
<1>5. Submitted'
  BY <1>0, <1>1, <1>2, <1>3 DEF Submitted
<1>6. Undisturbed => pristine BY <1>0, <1>1 DEF Calm
<1>7. QuietStartsFromLayout'
  <2> SUFFICES ASSUME NEW i \in 1..(Len(started) + 1), Resets(started'[i].of),
                      started'[i].of > 1 => reports[started'[i].of - 1].quiet
               PROVE  started'[i].from
    BY <1>1, <1>3 DEF QuietStartsFromLayout, Resets, TaskOf
  <2>1. CASE i = Len(started) + 1
    BY <1>3, <1>6, <2>1 DEF Undisturbed
  <2>2. CASE i # Len(started) + 1
    <3>1. i \in DOMAIN started /\ started'[i] = started[i] BY <1>3, <2>2
    <3> QED BY <1>0, <3>1 DEF QuietStartsFromLayout
  <2> QED BY <2>1, <2>2
<1> QED BY <1>4, <1>5, <1>7 DEF QInv

LEMMA QuietEvaluate ==
  ASSUME QInv, IInv', Evaluate
  PROVE  QInv'
<1>0. TypeOK /\ Progress /\ Submitted /\ QuietStartsFromLayout BY DEF QInv, IInv
<1>1. PICK predicate \in Verdicts, verifier \in Verdicts :
        reports' = Append(reports, Report(pc = "evaluate", predicate, verifier))
  BY DEF Evaluate
<1> DEFINE r == Report(pc = "evaluate", predicate, verifier)
<1>2. /\ UNCHANGED <<queued, running, started>> /\ pc \in {"evaluate", "refused"}
      /\ \/ episode' = episode + 1 /\ pc' = "publish"
         \/ episode' = episode /\ pc' = "done"
  BY DEF Evaluate, More, pipeline
<1>3. reports \in Seq(ReportType) /\ episode \in Nat \ {0} /\ Len(reports) = episode - 1
  BY <1>0, <1>2, EpisodesType DEF TypeOK, ReportType, Progress
<1>4. reports'[episode] = r /\ \A i \in 1..(episode - 1) : reports'[i] = reports[i]
  <2> HIDE DEF r
  <2>1. reports' = Append(reports, r) BY <1>1 DEF r
  <2> QED BY <1>3, <2>1
<1>5. r.quiet = Idle BY DEF Report
<1>6. Calm'
  <2>1. CASE pc' = "publish"
    <3>1. Undisturbed' => Idle
      BY <1>2, <1>3, <1>4, <1>5, <2>1 DEF Undisturbed
    <3> QED BY <1>2, <2>1, <3>1 DEF Calm, Idle
  <2>2. CASE pc' = "done" BY <2>2 DEF Calm
  <2> QED BY <1>2, <2>1, <2>2
<1>7. Submitted' BY <1>0, <1>2, <1>3 DEF Submitted
<1>8. QuietStartsFromLayout'
  <2> SUFFICES ASSUME NEW i \in DOMAIN started, Resets(started[i].of),
                      started[i].of > 1 => reports'[started[i].of - 1].quiet
               PROVE  started[i].from
    BY <1>2 DEF QuietStartsFromLayout, Resets, TaskOf
  <2>1. started[i].of \in 1..episode BY <1>0 DEF Submitted
  <2>2. started[i].of > 1 => reports'[started[i].of - 1] = reports[started[i].of - 1]
    BY <1>3, <1>4, <2>1
  <2> QED BY <1>0, <2>2 DEF QuietStartsFromLayout
<1> QED BY <1>6, <1>7, <1>8 DEF QInv

(* The skill of an episode that resets is submitted with the objects where *)
(* the manifest lays them out, if nothing was left moving before it.       *)
THEOREM QuietStart == Spec => []QuietStartsFromLayout
<1>1. Init => QInv BY QuietInit
<1>2. QInv /\ [Next]_vars => QInv'
  <2> SUFFICES ASSUME QInv, [Next]_vars PROVE QInv'
    OBVIOUS
  <2>0. IInv' BY StepInv DEF QInv
  <2>1. CASE RunnerSteps
    BY <2>0, <2>1, QuietRunner, QuietSubmit, QuietEvaluate DEF RunnerSteps
  <2>2. CASE PipelineSteps /\ UNCHANGED suite BY <2>0, <2>2, QuietPipeline
  <2>3. CASE UNCHANGED vars
    BY <2>0, <2>3 DEF vars, pipeline, suite, QInv, Calm, Undisturbed, Idle, Submitted,
       QuietStartsFromLayout, Resets, TaskOf
  <2> QED BY <2>1, <2>2, <2>3 DEF Next
<1>3. QInv => QuietStartsFromLayout BY DEF QInv
<1> QED BY <1>1, <1>2, <1>3, PTL DEF Spec

-----------------------------------------------------------------------------
(* RoboDojoAuto.                                                           *)

(* A verdict of "true" takes every predicate of the task into account.     *)
LEMMA TrueIsAll ==
  ASSUME NEW predicates, NEW fetched, NEW assets, NEW available \in BOOLEAN, NEW holding,
         EvaluateTaskPredicates(predicates, fetched, assets, available, holding) = "true"
  PROVE  \A i \in DOMAIN predicates :
           \/ predicates[i] \in holding
           \/ /\ ~available /\ predicates[i].type = "inside"
              /\ CentreInside(BoxOf(assets, predicates[i].of), BoxOf(assets, predicates[i].in))
<1> DEFINE checks == [i \in DOMAIN predicates |->
                        EvaluatePredicate(predicates[i], assets, available, holding)]
<1>1. Judge(checks) = "true" BY DEF EvaluateTaskPredicates
<1>2. \A i \in DOMAIN checks : checks[i].supported /\ checks[i].success
  <2> HIDE DEF checks
  <2> QED BY <1>1 DEF Judge
<1>3. SUFFICES ASSUME NEW i \in DOMAIN predicates
               PROVE  \/ predicates[i] \in holding
                      \/ /\ ~available /\ predicates[i].type = "inside"
                         /\ CentreInside(BoxOf(assets, predicates[i].of),
                                         BoxOf(assets, predicates[i].in))
  OBVIOUS
<1>4. checks[i] = EvaluatePredicate(predicates[i], assets, available, holding)
  OBVIOUS
<1>5. EvaluatePredicate(predicates[i], assets, available, holding).success
  BY <1>2, <1>4
<1> QED BY <1>5 DEF EvaluatePredicate

Results == [pipeline: BOOLEAN, predicates: {"none", "true", "false"}, success: BOOLEAN]

(* The verdict is the last thing that happens: what it found to hold is    *)
(* not moved any more.                                                     *)
Judged ==
  /\ outcome \in Results
  /\ outcome.success => stage = "done" /\ ToSet(item.success) \subseteq Holding

LEMMA JudgedHolds == AutoSpec => []Judged
<1>1. AutoInit => Judged BY DEF AutoInit, Judged, NoResult, Results
<1>2. Judged /\ [AutoNext]_autoVars => Judged'
  <2> SUFFICES ASSUME Judged, [AutoNext]_autoVars PROVE Judged'
    OBVIOUS
  <2>1. CASE JudgeEpisode
    <3>0. UNCHANGED <<loaded, item, layout>> /\ stage' = "done" BY <2>1 DEF JudgeEpisode
    <3>1. PICK available \in BOOLEAN, fetched \in BOOLEAN :
            outcome' = [outcome EXCEPT
              !.predicates = IF setting.execute
                             THEN EvaluateTaskPredicates(item.success, fetched, Boxes, available, Holding)
                             ELSE "none",
              !.success = /\ outcome.pipeline
                          /\ (IF setting.execute
                              THEN EvaluateTaskPredicates(item.success, fetched, Boxes, available, Holding)
                              ELSE "none") = "true"]
      BY <2>1 DEF JudgeEpisode
    <3>2. outcome' \in Results
      BY <3>1 DEF Judged, Results, EvaluateTaskPredicates, Judge
    <3>3. ASSUME outcome'.success PROVE ToSet(item.success) \subseteq Holding
      <4>1. EvaluateTaskPredicates(item.success, fetched, Boxes, available, Holding) = "true"
        BY <3>1, <3>3 DEF Judged, Results
      <4>2. ASSUME NEW i \in DOMAIN item.success PROVE item.success[i] \in Holding
        <5> DEFINE p == item.success[i]
        <5>1. p \in ToSet(item.success) BY DEF ToSet
        <5>2. CASE p \in Holding BY <5>2
        <5>3. CASE /\ p.type = "inside"
                   /\ CentreInside(BoxOf(Boxes, p.of), BoxOf(Boxes, p.in))
          BY <5>1, <5>3 DEF Holding
        <5> QED BY <4>1, <5>2, <5>3, TrueIsAll
      <4> QED BY <4>2 DEF ToSet
    <3>4. Holding' = Holding
      BY <3>0 DEF Holding, Rests, Boxes, Box, Scene
    <3> QED BY <3>0, <3>2, <3>3, <3>4 DEF Judged
  <2>2. CASE UNCHANGED autoVars
    <3>1. Holding' = Holding BY <2>2 DEF autoVars, Holding, Rests, Boxes, Box, Scene
    <3> QED BY <2>2, <3>1 DEF autoVars, Judged
  <2>3. CASE AutoNext /\ ~JudgeEpisode
    <3>1. stage # "done" /\ outcome' \in Results /\ outcome'.success = outcome.success
      <4>1. CASE Operate
        <5>1. outcome' \in {outcome, [outcome EXCEPT !.pipeline = (step + 1 = Operations)]}
          BY <4>1 DEF Operate
        <5> QED BY <4>1, <5>1 DEF Operate, Judged, Results
      <4>2. CASE ~Operate
        <5>1. stage # "done" /\ outcome' = outcome
          BY <2>3, <4>2 DEF AutoNext, Select, Align, Abort, ResetForPreflight, GroundSelection,
             Generate, CheckArgs, CheckEpisode, ResetForEpisode
        <5> QED BY <5>1 DEF Judged
      <4> QED BY <4>1, <4>2
    <3> QED BY <3>1 DEF Judged
  <2> QED BY <2>1, <2>2, <2>3
<1> QED BY <1>1, <1>2, PTL DEF AutoSpec

(* A run that reports success leaves every predicate of its task true in   *)
(* the scene, with Knowin World's predicates or with the boxes alone: one  *)
(* that could not be evaluated, or a scene that could not be fetched,      *)
(* never counts as true.                                                   *)
THEOREM RealSuccess == AutoSpec => []SuccessIsReal
<1>1. Judged => SuccessIsReal BY DEF Judged, SuccessIsReal
<1> QED BY <1>1, JudgedHolds, PTL

-----------------------------------------------------------------------------
(* The label checks of a run: what a check that passes says of the label.  *)

(* The distance of two positions is a number of centimetres.               *)
LEMMA DistanceIs ==
  ASSUME NEW p \in Position, NEW q \in Position
  PROVE  Distance(p, q) \in Nat
<1> DEFINE d == Squared(p[1] - q[1]) + Squared(p[2] - q[2])
           S == { n \in Nat : d < Squared(n + 1) }
<1>1. \A n \in Int : Squared(n) \in Nat
  <2> SUFFICES ASSUME NEW n \in Int PROVE n * n >= 0 /\ n * n \in Int
    BY DEF Squared
  <2>1. CASE n >= 0
    BY <2>1, SMT
  <2>2. CASE n < 0
    BY <2>2, SMT
  <2> QED
    BY <2>1, <2>2
<1>2. d \in Nat
  <2>1. p[1] - q[1] \in Int /\ p[2] - q[2] \in Int
    BY DEF Position
  <2> QED
    BY <2>1, <1>1
<1>6. Distance(p, q) = CHOOSE n \in 0..d : Squared(n) <= d /\ d < Squared(n + 1)
  BY DEF Distance
<1> HIDE DEF d
<1>3. d \in S
  <2>1. Squared(d + 1) = d * d + d + d + 1
    BY <1>2 DEF Squared
  <2>2. d * d >= 0 /\ d * d \in Int
    BY <1>1, <1>2 DEF Squared
  <2> QED
    BY <1>2, <2>1, <2>2
<1>4. PICK n \in S : \A k \in S : n <= k
  BY <1>3, Least
<1>5. n \in 0..d /\ Squared(n) <= d /\ d < Squared(n + 1)
  <2>1. n \in Nat /\ n <= d /\ d < Squared(n + 1)
    BY <1>3, <1>4
  <2>2. CASE n = 0
    BY <2>1, <2>2, <1>2 DEF Squared
  <2>3. CASE n # 0
    <3>1. n - 1 \in Nat /\ n - 1 \notin S
      BY <2>1, <2>3, <1>4
    <3>2. ~(d < Squared((n - 1) + 1))
      BY <3>1
    <3>3. (n - 1) + 1 = n
      BY <2>1
    <3>4. Squared(n) \in Int
      BY <2>1, <1>1
    <3> QED
      BY <3>2, <3>3, <3>4, <2>1, <1>2
  <2> QED
    BY <2>2, <2>3
<1> QED
  BY <1>5, <1>6, <1>2

LEMMA FewPlaces ==
  ASSUME NEW n \in Nat, NEW places \in SUBSET (1..n)
  PROVE  IsFiniteSet(places) /\ places \in SUBSET Nat
<1>1. IsFiniteSet(1..n)
  BY FS_Interval
<1>2. IsFiniteSet(places)
  BY <1>1, FS_Subset, Zenon
<1> QED
  BY <1>2

LEMMA SpecificityIs == \A label : Specificity(label) \in Int
BY DEF Specificity

(* A list of attempts that were measured has a foremost one.               *)
LEMMA ForemostIs ==
  ASSUME NEW list, NEW n \in Nat \ {0}, DOMAIN list = 1..n, \A i \in 1..n : list[i].distance \in Int
  PROVE  \E i \in 1..n : Foremost(list) = list[i]
<1> DEFINE Beats(i, j) == Better(list[i], list[j]) \/ (~Better(list[j], list[i]) /\ i < j)
           before == { r \in (1..n) \X (1..n) : Beats(r[1], r[2]) }
           order == InOrder(1..n, before)
<1>1. \A i \in 1..n : list[i].distance \in Int /\ Specificity(list[i].label) \in Int
  BY SpecificityIs
<1>2. \A i, j \in 1..n : <<i, j>> \in before <=> Beats(i, j)
  OBVIOUS
<1>3. Puts(1..n, before)
  <2>1. \A i \in 1..n : ~Beats(i, i)
    BY <1>1 DEF Better
  <2>2. \A i, j \in 1..n : i # j => Beats(i, j) \/ Beats(j, i)
    BY <1>1 DEF Better
  <2>3. \A i, j, k \in 1..n : Beats(i, j) /\ Beats(j, k) => Beats(i, k)
    BY <1>1 DEF Better
  <2> HIDE DEF before, Beats
  <2> QED
    BY <2>1, <2>2, <2>3, <1>2 DEF Puts
<1>4. IsFiniteSet(1..n) /\ Cardinality(1..n) = n
  BY FS_Interval
<1>5. Enumerates(order, 1..n, before)
  BY <1>3, <1>4, InOrderEnumerates
<1> HIDE DEF order
<1>6. order[1] \in 1..n /\ \A j \in 1..n : j # order[1] => <<order[1], j>> \in before
  <2>0. 1 \in 1..n
    OBVIOUS
  <2>1. order \in [1..n -> 1..n] /\ 1 \in 1..n
    BY <1>4, <1>5, <2>0, Zenon DEF Enumerates
  <2>2. ASSUME NEW j \in 1..n, j # order[1] PROVE <<order[1], j>> \in before
    <3>1. PICK m \in 1..n : order[m] = j
      BY <1>4, <1>5 DEF Enumerates
    <3>2. 1 < m
      BY <3>1, <2>2
    <3> QED
      BY <3>1, <3>2, <2>1, <1>4, <1>5 DEF Enumerates
  <2> QED
    BY <2>1, <2>2
<1>7. \A j \in 1..n : j # order[1] => Beats(order[1], j)
  BY <1>2, <1>6
<1>8. \A j \in 1..n : /\ ~Better(list[j], list[order[1]])
                      /\ j < order[1] => Better(list[order[1]], list[j])
  <2> SUFFICES ASSUME NEW j \in 1..n
               PROVE /\ ~Better(list[j], list[order[1]])
                     /\ j < order[1] => Better(list[order[1]], list[j])
    OBVIOUS
  <2>1. CASE j = order[1]
    BY <2>1, <1>1, <1>6 DEF Better
  <2>2. CASE j # order[1]
    BY <2>2, <1>1, <1>6, <1>7 DEF Better
  <2> QED
    BY <2>1, <2>2
<1> QED
  BY <1>6, <1>8 DEF Foremost

(* Of attempts that were measured or found nothing the one that is chosen  *)
(* is one that found something, if there is any.                           *)
LEMMA ChosenAttempt ==
  ASSUME NEW attempts, NEW n \in Nat, DOMAIN attempts = 1..n,
         \A i \in 1..n : attempts[i].distance \in Int,
         ChooseGrounded(attempts).success
  PROVE  \E i \in 1..n : ChooseGrounded(attempts) = attempts[i]
<1> DEFINE successes == { i \in DOMAIN attempts : attempts[i].success }
           measured == { i \in successes : attempts[i].distance # Unmeasured }
           least == Min({ attempts[i].distance : i \in measured })
           near == { i \in measured : attempts[i].distance <= least + 2 }
           places == IF measured = {} THEN successes ELSE near
           list == Chosen(attempts, places)
<1>1. successes # {} /\ ChooseGrounded(attempts) = Foremost(list)
  <2>1. ~NoAttempt.success
    BY DEF NoAttempt
  <2> QED
    BY <2>1 DEF ChooseGrounded
<1>2. places # {}
  <2>1. CASE measured = {}
    BY <2>1, <1>1
  <2>2. CASE measured # {}
    <3> DEFINE D == { attempts[i].distance : i \in measured }
    <3>1. PICK i \in measured : \A j \in measured : attempts[i].distance <= attempts[j].distance
      <4> DEFINE before == { r \in measured \X measured :
                               \/ attempts[r[1]].distance < attempts[r[2]].distance
                               \/ attempts[r[1]].distance = attempts[r[2]].distance /\ r[1] < r[2] }
                 order == InOrder(measured, before)
      <4>1. \A i \in measured : i \in Int /\ attempts[i].distance \in Int
        OBVIOUS
      <4>2. \A i, j \in measured : <<i, j>> \in before <=>
               \/ attempts[i].distance < attempts[j].distance
               \/ attempts[i].distance = attempts[j].distance /\ i < j
        OBVIOUS
      <4>3. measured \in SUBSET (1..n)
        OBVIOUS
      <4> HIDE DEF before, measured
      <4>4. Puts(measured, before)
        BY <4>1, <4>2 DEF Puts
      <4>5. IsFiniteSet(measured)
        BY <4>3, FewPlaces
      <4>6. Enumerates(order, measured, before)
        BY <4>4, <4>5, InOrderEnumerates
      <4> HIDE DEF order
      <4> DEFINE N == Cardinality(measured)
      <4>7. N \in Nat /\ N # 0
        BY <4>5, <2>2, FS_CardinalityType, FS_EmptySet
      <4>8. order \in [1..N -> measured]
        BY <4>6 DEF Enumerates
      <4>9. 1 \in 1..N
        BY <4>7
      <4>10. order[1] \in measured
        BY <4>8, <4>9
      <4>11. ASSUME NEW j \in measured PROVE attempts[order[1]].distance <= attempts[j].distance
        <5>1. PICK m \in 1..N : order[m] = j
          BY <4>6 DEF Enumerates
        <5>2. m = 1 \/ 1 < m
          BY <4>7, <5>1
        <5>3. 1 < m => <<order[1], order[m]>> \in before
          BY <4>6, <4>9, <5>1 DEF Enumerates
        <5> QED
          BY <5>1, <5>2, <5>3, <4>1, <4>2, <4>10
      <4> QED
        BY <4>10, <4>11
    <3>2. attempts[i].distance \in D /\ \A d \in D : attempts[i].distance <= d /\ d \in Int
      BY <3>1
    <3>3. least = attempts[i].distance
      BY <3>2 DEF Min
    <3>4. attempts[i].distance \in Int
      BY <3>1
    <3> HIDE DEF least
    <3>5. i \in near
      BY <3>1, <3>3, <3>4
    <3> QED
      BY <3>5
  <2> QED
    BY <2>1, <2>2
<1>3. places \in SUBSET (1..n)
  OBVIOUS
<1> HIDE DEF places, list
<1>4. IsFiniteSet(places) /\ places \in SUBSET Nat
  BY <1>3, FewPlaces
<1>5. Picked(list, attempts, places)
  BY <1>4, ChosenPicks DEF list
<1> DEFINE N == Cardinality(places)
<1>6. N \in Nat \ {0} /\ DOMAIN list = 1..N
  BY <1>2, <1>4, <1>5, PickedLength, FS_EmptySet
<1>7. \A m \in 1..N : \E i \in 1..n : list[m] = attempts[i]
  BY <1>3, <1>5 DEF Picked
<1>8. \A m \in 1..N : list[m].distance \in Int
  BY <1>7
<1>9. PICK m \in 1..N : Foremost(list) = list[m]
  BY <1>6, <1>8, ForemostIs
<1> QED
  BY <1>1, <1>7, <1>9

(* A label that is kept or replaces another grounds near the object.       *)
Close(seen, label, target) ==
  IsLabel(label) /\ label \in DOMAIN seen /\ seen[label] # Nowhere /\ Distance(seen[label], target) <= Tolerance

(* What a list of labels is reduced to, and asked for.                     *)
LEMMA DedupeKeeps ==
  ASSUME NEW labels, NEW n \in Nat, DOMAIN labels = 1..n
  PROVE  \E m \in Nat : /\ DOMAIN Dedupe(labels) = 1..m
                        /\ \A i \in 1..m : IsLabel(Dedupe(labels)[i]) /\ Dedupe(labels)[i] \in ToSet(labels)
<1> DEFINE places == { i \in DOMAIN labels : IsLabel(labels[i]) /\ \A j \in 1..(i - 1) : labels[j] # labels[i] }
<1>1. places \in SUBSET (1..n) /\ \A i \in places : IsLabel(labels[i]) /\ labels[i] \in ToSet(labels)
  BY DEF ToSet
<1>2. Dedupe(labels) = Chosen(labels, places)
  BY DEF Dedupe
<1> HIDE DEF places
<1>3. IsFiniteSet(places) /\ places \in SUBSET Nat
  BY <1>1, FewPlaces
<1>4. Picked(Dedupe(labels), labels, places)
  BY <1>2, <1>3, ChosenPicks
<1>5. Cardinality(places) \in Nat /\ DOMAIN Dedupe(labels) = 1..Cardinality(places)
  BY <1>3, <1>4, PickedLength
<1> QED
  BY <1>1, <1>4, <1>5 DEF Picked

(* A list, of whatever it holds.                                           *)
IsList(s) == \E X : s \in Seq(X)

LEMMA ListPlacesAre ==
  ASSUME NEW s, IsList(s)
  PROVE  Len(s) \in Nat /\ DOMAIN s = 1..Len(s)
BY DEF IsList

LEMMA OneIsList == \A x : IsList(<<x>>)
<1> TAKE x
<1>1. <<x>> \in Seq({x})
  OBVIOUS
<1> QED
  BY <1>1 DEF IsList

LEMMA BothAreLists ==
  ASSUME NEW s, NEW t, IsList(s), IsList(t)
  PROVE  IsList(s \o t) /\ DOMAIN (s \o t) = 1..(Len(s) + Len(t)) /\ Len(s) \in Nat /\ Len(t) \in Nat
<1>1. PICK X : s \in Seq(X)
  BY DEF IsList
<1>2. PICK Y : t \in Seq(Y)
  BY DEF IsList
<1>3. s \in Seq(X \cup Y) /\ t \in Seq(X \cup Y)
  BY <1>1, <1>2, SeqMonotonic
<1>4. s \o t \in Seq(X \cup Y) /\ Len(s \o t) = Len(s) + Len(t)
  BY <1>3
<1> QED
  BY <1>3, <1>4 DEF IsList

LEMMA CountedIsList ==
  ASSUME NEW n \in Nat, NEW s, s = [i \in 1..n |-> s[i]]
  PROVE  IsList(s) /\ Len(s) = n
<1> DEFINE X == { s[i] : i \in 1..n }
<1>1. s \in [1..n -> X]
  OBVIOUS
<1> HIDE DEF X
<1>2. s \in Seq(X) /\ Len(s) = n
  BY <1>1
<1> QED
  BY <1>2 DEF IsList

(* The labels that are tried are the first of the list without repetition. *)
LEMMA TriedAre ==
  ASSUME NEW current, NEW labels, IsList(labels)
  PROVE  LET tried == FirstOf(Dedupe(<<current>> \o labels), 10) IN
         \E m \in Nat : DOMAIN tried = 1..m /\ \A i \in 1..m : IsLabel(tried[i])
<1> DEFINE all == <<current>> \o labels
           kept == Dedupe(all)
           tried == FirstOf(kept, 10)
<1>1. \E n \in Nat : DOMAIN all = 1..n
  <2>1. DOMAIN all = 1..(Len(<<current>>) + Len(labels)) /\ Len(<<current>>) \in Nat /\ Len(labels) \in Nat
    BY OneIsList, BothAreLists, Zenon
  <2> QED
    BY <2>1
<1> HIDE DEF all
<1>2. PICK n \in Nat : DOMAIN all = 1..n
  BY <1>1
<1>3. PICK m \in Nat : DOMAIN kept = 1..m /\ \A i \in 1..m : IsLabel(kept[i])
  BY <1>2, DedupeKeeps
<1>4. kept = [i \in 1..m |-> kept[i]]
  <2>1. \E S : kept = [i \in S |-> kept[i]]
    <3> DEFINE places == { i \in DOMAIN all : IsLabel(all[i]) /\ \A j \in 1..(i - 1) : all[j] # all[i] }
               order == InOrder(places, { r \in places \X places : r[1] < r[2] })
    <3>1. kept = [i \in DOMAIN order |-> all[order[i]]]
      BY DEF Dedupe, Chosen
    <3> HIDE DEF order, kept
    <3> QED
      BY <3>1
  <2> HIDE DEF kept
  <2> QED
    BY <2>1, <1>3
<1> HIDE DEF kept
<1>5. Len(kept) = m
  BY <1>4, CountedIsList
<1>6. tried = [i \in 1..(IF m < 10 THEN m ELSE 10) |-> kept[i]]
  BY <1>5 DEF FirstOf
<1>7. DOMAIN tried = 1..(IF m < 10 THEN m ELSE 10) /\ \A i \in DOMAIN tried : tried[i] = kept[i]
  BY <1>6
<1> HIDE DEF tried
<1>8. \A i \in DOMAIN tried : i \in 1..m
  BY <1>7
<1>9. (IF m < 10 THEN m ELSE 10) \in Nat
  OBVIOUS
<1> QED
  BY <1>3, <1>7, <1>8, <1>9 DEF tried, kept, all

(* A label that passes, or that replaces another, grounds near the object. *)
Answered(seen) == \A l \in DOMAIN seen : seen[l] = Nowhere \/ seen[l] \in Position

(* A label that passes, or that replaces the one that was asked for, was   *)
(* measured within the tolerance of its object.                            *)
LEMMA ValidateClose ==
  ASSUME NEW seen, Answered(seen), NEW target \in Position, NEW current, NEW labels, IsList(labels),
         ToSet(FirstOf(Dedupe(<<current>> \o labels), 10)) \subseteq DOMAIN seen,
         NEW r, r = ValidateLabel(seen, current, target, labels), r.status \in {"ok", "overrode"}
  PROVE  Close(seen, r.label, target)
<1> DEFINE tried == FirstOf(Dedupe(<<current>> \o labels), 10)
           attempts == [i \in DOMAIN tried |-> Attempt(seen, tried[i], target)]
           chosen == ChooseGrounded(attempts)
           currentOk == \E i \in DOMAIN attempts : attempts[i].label = current /\ Matches(attempts[i])
<1>1. PICK m \in Nat : DOMAIN tried = 1..m /\ \A i \in 1..m : IsLabel(tried[i])
  BY TriedAre, Zenon
<1>2. r = CASE currentOk -> [status |-> "ok", label |-> current]
            [] ~currentOk /\ Matches(chosen) -> [status |-> "overrode", label |-> chosen.label]
            [] OTHER -> [status |-> "failed", label |-> current]
  BY DEF ValidateLabel
<1>3. \A i \in 1..m : tried[i] \in DOMAIN seen
  BY <1>1 DEF ToSet
<1> HIDE DEF tried
<1>4. target # Nowhere
  BY DEF Nowhere, Position
<1>5. ASSUME NEW i \in 1..m
      PROVE  /\ attempts[i].distance \in Int
             /\ Matches(attempts[i]) => Close(seen, attempts[i].label, target)
  <2>1. attempts[i] = Attempt(seen, tried[i], target)
    BY <1>1
  <2>2. tried[i] \in DOMAIN seen /\ IsLabel(tried[i])
    BY <1>1, <1>3
  <2> HIDE DEF attempts
  <2>3. CASE seen[tried[i]] = Nowhere
    <3>0. attempts[i].success = (seen[tried[i]] # Nowhere)
      BY <2>1 DEF Attempt
    <3>1. ~Matches(attempts[i])
      BY <3>0, <2>3, Zenon DEF Matches
    <3>2. attempts[i].distance = -1
      BY <2>1, <2>3 DEF Attempt, Unmeasured
    <3> QED
      BY <3>1, <3>2
  <2>4. CASE seen[tried[i]] # Nowhere
    <3>1. seen[tried[i]] \in Position
      BY <2>2, <2>4 DEF Answered
    <3>2. Distance(seen[tried[i]], target) \in Nat
      BY <3>1, DistanceIs
    <3>3. attempts[i].distance = Distance(seen[tried[i]], target) /\ attempts[i].label = tried[i]
      BY <2>1, <2>4, <1>4 DEF Attempt
    <3>4. Matches(attempts[i]) => Distance(seen[tried[i]], target) <= Tolerance
      BY <3>2, <3>3 DEF Matches, Unmeasured
    <3> QED
      BY <2>2, <2>4, <3>2, <3>3, <3>4 DEF Close
  <2> QED
    BY <2>3, <2>4
<1>6. DOMAIN attempts = 1..m
  BY <1>1
<1> HIDE DEF attempts
<1>7. CASE currentOk
  BY <1>2, <1>5, <1>6, <1>7
<1>8. CASE ~currentOk
  <2>1. Matches(chosen)
    BY <1>2, <1>8
  <2>2. chosen.success
    BY <2>1 DEF Matches
  <2>3. PICK i \in 1..m : chosen = attempts[i]
    BY <1>5, <1>6, <2>2, ChosenAttempt
  <2>4. r.label = chosen.label
    BY <1>2, <1>8, <2>1
  <2> QED
    BY <2>1, <2>3, <2>4, <1>5
<1> QED
  BY <1>7, <1>8

-----------------------------------------------------------------------------
(* The checks of a preflight, one after the other.                         *)
FirstReport(args) == [Skipped(args) EXCEPT !.status = "ok"]
ChecksRun(seen, args, checks, upto, last) ==
  upto = [n \in 0..last |-> IF n = 0 THEN FirstReport(args) ELSE Check(upto[n - 1], seen, checks[n])]

LEMMA ChecksAreRun ==
  ASSUME NEW seen, NEW args, NEW checks, NEW last \in Nat
  PROVE  \E upto : ChecksRun(seen, args, checks, upto, last)
<1> DEFINE Next1(state, n) == Check(state, seen, checks[n])
           Goes(upto, n) == ChecksRun(seen, args, checks, upto, n)
           Bad == { n \in Nat : ~\E upto : Goes(upto, n) }
<1>0. \A upto, n : Goes(upto, n) <=>
        upto = [k \in 0..n |-> IF k = 0 THEN FirstReport(args) ELSE Next1(upto[k - 1], k)]
  BY DEF ChecksRun
<1> HIDE DEF Next1, Goes
<1>1. Bad = {}
  <2> SUFFICES ASSUME Bad # {} PROVE FALSE
    OBVIOUS
  <2>1. Bad \in SUBSET Nat
    OBVIOUS
  <2>2. PICK n \in Bad : \A k \in Bad : n <= k
    <3> HIDE DEF Bad
    <3> QED
      BY <2>1, Least, Zenon
  <2>3. n \in Nat /\ ~\E upto : Goes(upto, n)
    OBVIOUS
  <2>4. n # 0
    <3> SUFFICES ASSUME n = 0 PROVE FALSE
      OBVIOUS
    <3> DEFINE start == [k \in 0..0 |-> FirstReport(args)]
    <3>1. start = [k \in 0..0 |-> IF k = 0 THEN FirstReport(args) ELSE Next1(start[k - 1], k)]
      <4>1. \A k \in 0..0 : k = 0
        OBVIOUS
      <4> QED
        BY <4>1
    <3>2. Goes(start, 0)
      <4> HIDE DEF start
      <4> QED
        BY <3>1, <1>0
    <3> QED
      BY <3>2, <2>3
  <2>5. n - 1 \in Nat /\ n - 1 \notin Bad
    <3>1. n - 1 \in Nat
      BY <2>3, <2>4
    <3>2. ~(n <= n - 1)
      BY <2>3
    <3> HIDE DEF Bad
    <3> QED
      BY <2>2, <3>1, <3>2
  <2>6. PICK upto : Goes(upto, n - 1)
    BY <2>5
  <2> DEFINE more == [k \in 0..n |-> IF k = n THEN Next1(upto[n - 1], n) ELSE upto[k]]
  <2>7. \A k \in 0..n : more[k] = IF k = 0 THEN FirstReport(args) ELSE Next1(more[k - 1], k)
    <3> TAKE k \in 0..n
    <3>1. CASE k = n
      <4>1. more[n] = Next1(upto[n - 1], n) /\ more[n - 1] = upto[n - 1]
        <5>1. n \in 0..n /\ n - 1 \in 0..n /\ n - 1 # n
          BY <2>3, <2>4
        <5> QED
          BY <5>1
      <4> HIDE DEF more
      <4> QED
        BY <3>1, <4>1, <2>4
    <3>2. CASE k # n
      <4>1. k \in 0..(n - 1) /\ more[k] = upto[k]
        BY <2>3, <3>2
      <4>2. upto[k] = IF k = 0 THEN FirstReport(args) ELSE Next1(upto[k - 1], k)
        <5> HIDE DEF more
        <5>1. upto = [j \in 0..(n - 1) |-> IF j = 0 THEN FirstReport(args) ELSE Next1(upto[j - 1], j)]
          BY <2>6, <1>0
        <5> QED
          BY <5>1, <4>1
      <4>3. k # 0 => more[k - 1] = upto[k - 1]
        <5> SUFFICES ASSUME k # 0 PROVE more[k - 1] = upto[k - 1]
          OBVIOUS
        <5>1. k - 1 \in 0..n /\ k - 1 # n
          BY <2>3, <3>2
        <5> QED
          BY <5>1
      <4> HIDE DEF more
      <4> QED
        BY <4>1, <4>2, <4>3
    <3> QED
      BY <3>1, <3>2
  <2>8. more = [k \in 0..n |-> more[k]]
    OBVIOUS
  <2>9. Goes(more, n)
    <3> HIDE DEF more
    <3>1. more = [k \in 0..n |-> IF k = 0 THEN FirstReport(args) ELSE Next1(more[k - 1], k)]
      BY <2>7, <2>8
    <3> QED
      BY <3>1, <1>0
  <2> QED
    BY <2>3, <2>9
<1> QED
  BY <1>1 DEF Goes

(* A preflight is its checks, each on the report of those before it.       *)
LEMMA PreflightIs ==
  ASSUME NEW seen, NEW args, NEW checks, Len(checks) \in Nat
  PROVE  \E upto : /\ ChecksRun(seen, args, checks, upto, Len(checks))
                   /\ Preflight(seen, args, checks) = Finalize(upto[Len(checks)])
<1> DEFINE upto == CHOOSE each : ChecksRun(seen, args, checks, each, Len(checks))
<1>1. ChecksRun(seen, args, checks, upto, Len(checks))
  BY ChecksAreRun
<1>2. Preflight(seen, args, checks) = Finalize(upto[Len(checks)])
  BY DEF Preflight, ChecksRun, FirstReport
<1> QED
  BY <1>1, <1>2

(* What a check does to the report: it writes its own argument only.       *)
Fielded(told) == DOMAIN told = {"status", "given", "args", "checks", "overrides"}

(* A check writes what is said of its own argument and of no other.        *)
LEMMA CheckWrites ==
  ASSUME NEW told, Fielded(told), NEW seen, NEW check, NEW after, after = Check(told, seen, check)
  PROVE  /\ Fielded(after) /\ after.given = told.given
         /\ \A a : a # check.arg =>
              /\ a \in DOMAIN after.checks <=> a \in DOMAIN told.checks
              /\ a \in DOMAIN told.checks => after.checks[a] = told.checks[a]
              /\ a \in DOMAIN told.args => a \in DOMAIN after.args /\ after.args[a] = told.args[a]
<1> DEFINE labels == Dedupe(<<ArgOf(told.given, check.arg)>> \o check.labels)
           found == ValidateLabel(seen, ArgOf(told.given, check.arg), check.target, check.labels)
           skips == ~check.always /\ (check.target = Nowhere \/ labels = <<>>)
           takes == IsLabel(found.label) /\ found.label # ArgOf(told.given, check.arg)
<1>1. after = IF skips THEN [told EXCEPT !.checks = WithArg(@, check.arg, "skipped")]
              ELSE [told EXCEPT !.checks = WithArg(@, check.arg, found.status),
                      !.args = IF takes THEN WithArg(@, check.arg, found.label) ELSE @,
                      !.overrides = IF takes THEN @ \cup {check.arg} ELSE @]
  BY DEF Check, ApplySelected
<1> HIDE DEF labels, found, skips, takes
<1>2. /\ Fielded(after) /\ after.given = told.given
      /\ \E mark : after.checks = WithArg(told.checks, check.arg, mark)
      /\ after.args = told.args \/ after.args = WithArg(told.args, check.arg, found.label)
  BY <1>1 DEF Fielded
<1> QED
  BY <1>2 DEF WithArg

(* The check of an argument that passes leaves it a label that is close.   *)
LEMMA CheckPasses ==
  ASSUME NEW told, Fielded(told), NEW seen, Answered(seen), NEW check,
         check.target = Nowhere \/ check.target \in Position, IsList(check.labels), ~check.always,
         told.args = told.given,
         ToSet(FirstOf(Dedupe(<<ArgOf(told.given, check.arg)>> \o check.labels), 10)) \subseteq DOMAIN seen,
         NEW after, after = Check(told, seen, check),
         after.checks[check.arg] \in {"ok", "overrode"}
  PROVE  check.arg \in DOMAIN after.args /\ Close(seen, after.args[check.arg], check.target)
<1> DEFINE labels == Dedupe(<<ArgOf(told.given, check.arg)>> \o check.labels)
           found == ValidateLabel(seen, ArgOf(told.given, check.arg), check.target, check.labels)
           skips == ~check.always /\ (check.target = Nowhere \/ labels = <<>>)
           takes == IsLabel(found.label) /\ found.label # ArgOf(told.given, check.arg)
<1>1. after = IF skips THEN [told EXCEPT !.checks = WithArg(@, check.arg, "skipped")]
              ELSE [told EXCEPT !.checks = WithArg(@, check.arg, found.status),
                      !.args = IF takes THEN WithArg(@, check.arg, found.label) ELSE @,
                      !.overrides = IF takes THEN @ \cup {check.arg} ELSE @]
  BY DEF Check, ApplySelected
<1> HIDE DEF labels, found, takes
<1>2. \A mark : WithArg(told.checks, check.arg, mark)[check.arg] = mark
  BY DEF WithArg
<1>3. ~skips
  <2> HIDE DEF skips
  <2> SUFFICES ASSUME skips PROVE FALSE
    OBVIOUS
  <2>1. after.checks = WithArg(told.checks, check.arg, "skipped")
    BY <1>1 DEF Fielded
  <2> QED
    BY <1>2, <2>1
<1>4. after.checks = WithArg(told.checks, check.arg, found.status)
      /\ after.args = IF takes THEN WithArg(told.args, check.arg, found.label) ELSE told.args
  <2> HIDE DEF skips
  <2> QED
    BY <1>1, <1>3 DEF Fielded
<1>5. found.status \in {"ok", "overrode"}
  BY <1>2, <1>4
<1>6. check.target \in Position
  BY <1>3
<1>7. Close(seen, found.label, check.target)
  BY <1>5, <1>6, ValidateClose DEF found
<1>8. CASE takes
  BY <1>4, <1>7, <1>8 DEF WithArg
<1>9. CASE ~takes
  <2>1. found.label = ArgOf(told.given, check.arg) /\ IsLabel(found.label)
    BY <1>7, <1>9 DEF takes, Close
  <2>2. check.arg \in DOMAIN told.given /\ told.given[check.arg] = found.label
    BY <2>1 DEF ArgOf, IsLabel
  <2> QED
    BY <1>4, <1>7, <1>9, <2>2
<1> QED
  BY <1>8, <1>9

(* The first argument that is checked: whatever the others come out as, if *)
(* it passed then its label in the report is close to its object.          *)
LEMMA PreflightClose ==
  ASSUME NEW seen, Answered(seen), NEW args, NEW checks, Len(checks) \in Nat \ {0},
         \A i \in 2..Len(checks) : checks[i].arg # checks[1].arg,
         checks[1].target = Nowhere \/ checks[1].target \in Position, IsList(checks[1].labels), ~checks[1].always,
         ToSet(FirstOf(Dedupe(<<ArgOf(args, checks[1].arg)>> \o checks[1].labels), 10)) \subseteq DOMAIN seen,
         NEW told, told = Preflight(seen, args, checks),
         checks[1].arg \in DOMAIN told.checks, told.checks[checks[1].arg] \in {"ok", "overrode"}
  PROVE  checks[1].arg \in DOMAIN told.args /\ Close(seen, told.args[checks[1].arg], checks[1].target)
<1> DEFINE L == Len(checks)
           arg == checks[1].arg
           Passes(r) == arg \in DOMAIN r.checks /\ r.checks[arg] \in {"ok", "overrode"} =>
                          arg \in DOMAIN r.args /\ Close(seen, r.args[arg], checks[1].target)
<1>1. PICK upto : ChecksRun(seen, args, checks, upto, L) /\ Preflight(seen, args, checks) = Finalize(upto[L])
  BY PreflightIs
<1>2. upto[0] = FirstReport(args) /\ \A n \in 1..L : upto[n] = Check(upto[n - 1], seen, checks[n])
  <2>1. upto = [n \in 0..L |-> IF n = 0 THEN FirstReport(args) ELSE Check(upto[n - 1], seen, checks[n])]
    BY <1>1 DEF ChecksRun
  <2>2. \A n \in 0..L : upto[n] = IF n = 0 THEN FirstReport(args) ELSE Check(upto[n - 1], seen, checks[n])
    BY <2>1
  <2> QED
    BY <2>2
<1>3. Fielded(upto[0]) /\ upto[0].given = args /\ upto[0].args = args
  BY <1>2 DEF FirstReport, Skipped, Fielded
<1>4. 1 \in 1..L /\ upto[1] = Check(upto[0], seen, checks[1])
  BY <1>2
<1>5. Fielded(upto[1]) /\ Passes(upto[1])
  <2>1. Fielded(upto[1])
    BY <1>3, <1>4, CheckWrites
  <2>2. ASSUME arg \in DOMAIN upto[1].checks, upto[1].checks[arg] \in {"ok", "overrode"}
        PROVE  arg \in DOMAIN upto[1].args /\ Close(seen, upto[1].args[arg], checks[1].target)
    <3> DEFINE check == checks[1]
    <3>1. /\ check.target = Nowhere \/ check.target \in Position
          /\ IsList(check.labels) /\ ~check.always
          /\ ToSet(FirstOf(Dedupe(<<ArgOf(upto[0].given, check.arg)>> \o check.labels), 10)) \subseteq DOMAIN seen
          /\ upto[0].args = upto[0].given
      BY <1>3
    <3>2. upto[1].checks[check.arg] \in {"ok", "overrode"} /\ upto[1] = Check(upto[0], seen, check)
      BY <2>2, <1>4
    <3> HIDE DEF check
    <3>3. check.arg \in DOMAIN upto[1].args /\ Close(seen, upto[1].args[check.arg], check.target)
      BY <1>3, <3>1, <3>2, CheckPasses
    <3> QED
      BY <3>3 DEF check
  <2> QED
    BY <2>1, <2>2
<1>6. ASSUME NEW n \in 2..L, Fielded(upto[n - 1]), Passes(upto[n - 1])
      PROVE  Fielded(upto[n]) /\ Passes(upto[n])
  <2>1. upto[n] = Check(upto[n - 1], seen, checks[n]) /\ checks[n].arg # arg
    BY <1>2
  <2>2. /\ Fielded(upto[n])
        /\ arg \in DOMAIN upto[n].checks <=> arg \in DOMAIN upto[n - 1].checks
        /\ arg \in DOMAIN upto[n - 1].checks => upto[n].checks[arg] = upto[n - 1].checks[arg]
        /\ arg \in DOMAIN upto[n - 1].args =>
             arg \in DOMAIN upto[n].args /\ upto[n].args[arg] = upto[n - 1].args[arg]
    BY <1>6, <2>1, CheckWrites
  <2> QED
    BY <1>6, <2>2
<1> HIDE DEF Passes, L
<1>7. \A n \in 1..L : Fielded(upto[n]) /\ Passes(upto[n])
  <2> DEFINE Bad == { n \in 1..L : ~(Fielded(upto[n]) /\ Passes(upto[n])) }
  <2>1. Bad = {}
    <3> SUFFICES ASSUME Bad # {} PROVE FALSE
      OBVIOUS
    <3>1. Bad \in SUBSET Nat
      OBVIOUS
    <3>2. PICK n \in Bad : \A k \in Bad : n <= k
      <4> HIDE DEF Bad
      <4> QED
        BY <3>1, Least, Zenon
    <3>3. n \in 1..L /\ n # 1
      BY <1>5
    <3>4. n \in 2..L /\ n - 1 \in 1..L /\ ~(n <= n - 1) /\ n - 1 \notin Bad
      <4>1. n \in 2..L /\ n - 1 \in 1..L /\ ~(n <= n - 1)
        BY <3>3 DEF L
      <4> HIDE DEF Bad
      <4> QED
        BY <4>1, <3>2
    <3>5. Fielded(upto[n - 1]) /\ Passes(upto[n - 1])
      BY <3>4
    <3> QED
      BY <1>6, <3>4, <3>5
  <2> QED
    BY <2>1
<1>8. Fielded(upto[L]) /\ Passes(upto[L])
  BY <1>7 DEF L
<1>9. told.checks = upto[L].checks /\ told.args = upto[L].args
  BY <1>1, <1>8 DEF Finalize, Fielded
<1> QED
  BY <1>8, <1>9 DEF Passes

(* The checks of an episode: each has an argument of its own, and asks for *)
(* its labels.                                                             *)
LEMMA AskedFirst ==
  ASSUME NEW checks, NEW args, 1 \in DOMAIN checks
  PROVE  ToSet(FirstOf(Dedupe(<<ArgOf(args, checks[1].arg)>> \o checks[1].labels), 10)) \subseteq Asked(checks, args)
BY DEF Asked

(* The first check of a plan is about the object its first step takes, and *)
(* no later check is about the same argument.                              *)
LEMMA PlanChecksAre ==
  ASSUME NEW steps, IsList(steps), steps # <<>>,
         \A i \in DOMAIN steps : steps[i].pickArg = PickArg(i) /\ steps[i].placeArg = PlaceArg(i),
         IsList(steps[1].picks), NEW checks, checks = PlanChecks(steps)
  PROVE  /\ Len(checks) \in Nat \ {0} /\ 1 \in DOMAIN checks
         /\ checks[1].arg = PickArg(1) /\ checks[1].target = steps[1].sourceAt /\ IsList(checks[1].labels)
         /\ ~checks[1].always
         /\ \A i \in 2..Len(checks) : checks[i].arg # checks[1].arg
<1>1. Len(steps) \in Nat \ {0} /\ DOMAIN steps = 1..Len(steps)
  BY DEF IsList
<1>2. checks = [n \in 1..(2 * Len(steps)) |->
        IF n % 2 = 1 THEN ToCheck(steps[(n + 1) \div 2].pickArg, <<steps[(n + 1) \div 2].pick>> \o steps[(n + 1) \div 2].picks,
                                  steps[(n + 1) \div 2].sourceAt)
        ELSE ToCheck(steps[(n + 1) \div 2].placeArg, <<steps[(n + 1) \div 2].place>> \o steps[(n + 1) \div 2].places,
                     steps[(n + 1) \div 2].supportAt)]
  BY DEF PlanChecks
<1>3. Len(checks) = 2 * Len(steps) /\ DOMAIN checks = 1..(2 * Len(steps))
  <2>1. 2 * Len(steps) \in Nat
    BY <1>1
  <2>2. DOMAIN checks = 1..(2 * Len(steps)) /\ checks = [n \in 1..(2 * Len(steps)) |-> checks[n]]
    BY <1>2
  <2>3. Len(checks) = 2 * Len(steps)
    BY <2>1, <2>2, CountedIsList
  <2> QED
    BY <2>2, <2>3
<1>4. \A n \in 1..(2 * Len(steps)) : (n + 1) \div 2 \in 1..Len(steps)
  BY <1>1
<1>5. checks[1] = ToCheck(PickArg(1), <<steps[1].pick>> \o steps[1].picks, steps[1].sourceAt)
  <2>1. 1 \in 1..(2 * Len(steps)) /\ 1 % 2 = 1 /\ (1 + 1) \div 2 = 1 /\ 1 \in DOMAIN steps
    BY <1>1
  <2>2. checks[1] = ToCheck(steps[1].pickArg, <<steps[1].pick>> \o steps[1].picks, steps[1].sourceAt)
    BY <1>2, <2>1
  <2> QED
    BY <2>1, <2>2
<1>6. ASSUME NEW n \in 2..(2 * Len(steps))
      PROVE  checks[n].arg # PickArg(1)
  <2>1. n \in 1..(2 * Len(steps)) /\ (n + 1) \div 2 \in DOMAIN steps
    BY <1>1, <1>4
  <2>2. CASE n % 2 = 1
    <3>1. (n + 1) \div 2 # 1
      BY <2>2, <1>1
    <3>2. checks[n].arg = steps[(n + 1) \div 2].pickArg
      BY <1>2, <2>1, <2>2 DEF ToCheck
    <3>3. checks[n].arg = PickArg((n + 1) \div 2)
      BY <3>2, <2>1
    <3> HIDE DEF IsList
    <3> QED
      BY <3>1, <3>3 DEF PickArg
  <2>3. CASE n % 2 # 1
    <3>2. checks[n].arg = steps[(n + 1) \div 2].placeArg
      BY <1>2, <2>1, <2>3 DEF ToCheck
    <3>3. checks[n].arg = PlaceArg((n + 1) \div 2)
      BY <3>2, <2>1
    <3> QED
      BY <3>3 DEF PickArg, PlaceArg
  <2> QED
    BY <2>2, <2>3
<1>7. IsList(<<steps[1].pick>> \o steps[1].picks)
  BY OneIsList, BothAreLists, Zenon
<1> QED
  BY <1>1, <1>3, <1>5, <1>6, <1>7 DEF ToCheck

(* So it is with the checks of a skill without a plan.                     *)
LEMMA EpisodeChecksAre ==
  ASSUME NEW binding, NEW steps, NEW target, NEW place, steps = <<>>, IsList(binding.picks), IsList(binding.hints),
         NEW checks, checks = RuntimeChecks(binding, steps, target, place)
  PROVE  /\ Len(checks) \in Nat \ {0} /\ 1 \in DOMAIN checks
         /\ checks[1].arg = PickArg(0) /\ checks[1].target = target /\ IsList(checks[1].labels)
         /\ ~checks[1].always
         /\ \A i \in 2..Len(checks) : checks[i].arg # checks[1].arg
<1> DEFINE first == ToCheck(PickArg(0), <<binding.pick>> \o binding.picks \o binding.hints, target)
           second == ToCheck(PlaceArg(0), <<binding.place>> \o binding.places, place)
<1>1. checks = <<first, second>>
  BY DEF RuntimeChecks
<1>2. IsList(<<binding.pick>> \o binding.picks \o binding.hints)
  BY OneIsList, BothAreLists, Zenon
<1>3. /\ first.arg = PickArg(0) /\ first.target = target /\ first.labels = <<binding.pick>> \o binding.picks \o binding.hints
      /\ second.arg = PlaceArg(0) /\ ~first.always
  BY DEF ToCheck
<1> HIDE DEF first, second
<1>4. Len(checks) = 2 /\ 1 \in DOMAIN checks /\ checks[1] = first /\ checks[2] = second
  BY <1>1
<1>5. PlaceArg(0) # PickArg(0)
  BY DEF PlaceArg, PickArg
<1>6. \A i \in 2..2 : i = 2
  OBVIOUS
<1>7. \A i \in 2..Len(checks) : checks[i].arg # checks[1].arg
  BY <1>3, <1>4, <1>5, <1>6, Zenon
<1>8. Len(checks) \in Nat \ {0}
  BY <1>4
<1>9. /\ checks[1].arg = PickArg(0) /\ checks[1].target = target /\ IsList(checks[1].labels)
      /\ ~checks[1].always
  BY <1>2, <1>3, <1>4, Zenon
<1> QED
  BY <1>4, <1>7, <1>8, <1>9, Zenon

-----------------------------------------------------------------------------
(* The labels of a binding are lists.                                      *)
LEMMA InOrderIsList ==
  ASSUME NEW S, IsFiniteSet(S), NEW before
  PROVE  IsList(InOrder(S, before)) /\ DOMAIN InOrder(S, before) = 1..Cardinality(S) /\ Cardinality(S) \in Nat
<1>1. Cardinality(S) \in Nat
  BY FS_CardinalityType
<1>2. InOrder(S, before) = [n \in 1..Cardinality(S) |-> InOrder(S, before)[n]]
  BY InOrderFills
<1>3. DOMAIN InOrder(S, before) = 1..Cardinality(S)
  BY <1>2
<1> QED
  BY <1>1, <1>2, <1>3, CountedIsList

LEMMA ChosenIsList ==
  ASSUME NEW s, NEW places, IsFiniteSet(places)
  PROVE  IsList(Chosen(s, places))
<1> DEFINE order == InOrder(places, { r \in places \X places : r[1] < r[2] })
           list == Chosen(s, places)
<1>1. list = [n \in DOMAIN order |-> s[order[n]]]
  BY DEF Chosen
<1>2. DOMAIN order = 1..Cardinality(places) /\ Cardinality(places) \in Nat
  BY InOrderIsList
<1> HIDE DEF order, list
<1>3. list = [n \in 1..Cardinality(places) |-> list[n]]
  BY <1>1, <1>2
<1>4. IsList(list)
  BY <1>2, <1>3, CountedIsList
<1> QED
  BY <1>4 DEF list

LEMMA SomeOfAList ==
  ASSUME NEW s, IsList(s), NEW places \in SUBSET (DOMAIN s)
  PROVE  IsList(Chosen(s, places))
<1>1. Len(s) \in Nat /\ DOMAIN s = 1..Len(s)
  BY ListPlacesAre
<1>2. IsFiniteSet(places)
  BY <1>1, FewPlaces
<1> QED
  BY <1>2, ChosenIsList

LEMMA DedupeIsList ==
  ASSUME NEW s, IsList(s)
  PROVE  IsList(Dedupe(s))
<1> DEFINE places == { i \in DOMAIN s : IsLabel(s[i]) /\ \A j \in 1..(i - 1) : s[j] # s[i] }
<1>1. Dedupe(s) = Chosen(s, places)
  BY DEF Dedupe
<1>2. places \in SUBSET (DOMAIN s)
  OBVIOUS
<1> HIDE DEF places
<1> QED
  BY <1>1, <1>2, SomeOfAList

LEMMA FirstOfIsList ==
  ASSUME NEW s, IsList(s), NEW n \in Nat
  PROVE  /\ IsList(FirstOf(s, n)) /\ DOMAIN FirstOf(s, n) = 1..(IF Len(s) < n THEN Len(s) ELSE n)
         /\ \A i \in DOMAIN FirstOf(s, n) : FirstOf(s, n)[i] = s[i] /\ i \in DOMAIN s
<1> DEFINE m == IF Len(s) < n THEN Len(s) ELSE n
           first == FirstOf(s, n)
<1>1. m \in Nat /\ Len(s) \in Nat /\ DOMAIN s = 1..Len(s)
  BY ListPlacesAre
<1>2. first = [i \in 1..m |-> s[i]]
  BY DEF FirstOf
<1>5. m <= Len(s)
  BY <1>1
<1> HIDE DEF m, first
<1>3. first = [i \in 1..m |-> first[i]] /\ DOMAIN first = 1..m /\ \A i \in 1..m : first[i] = s[i]
  BY <1>2
<1>4. IsList(first)
  BY <1>1, <1>3, CountedIsList
<1>6. \A i \in 1..m : i \in DOMAIN s
  BY <1>1, <1>5
<1> QED
  BY <1>3, <1>4, <1>6 DEF first, m

LEMMA ColoursAreList ==
  ASSUME NEW counts, IsFiniteSet(DOMAIN counts)
  PROVE  IsList(DominantColours(counts))
<1> DEFINE ranked == RankedColours(counts)
           places == { i \in DOMAIN ranked : ranked[i] # "white" }
           strong == FirstOf(Chosen(ranked, places), 2)
<1>1. IsList(ranked)
  BY InOrderIsList DEF RankedColours
<1>2. places \in SUBSET (DOMAIN ranked)
  OBVIOUS
<1>3. DominantColours(counts) = StrongColours(ranked, strong)
  BY DEF DominantColours
<1> HIDE DEF ranked, places
<1>4. IsList(strong)
  BY <1>1, <1>2, SomeOfAList, FirstOfIsList
<1> HIDE DEF strong
<1>5. IsList(Append(strong, "white"))
  <2>1. PICK X : strong \in Seq(X)
    BY <1>4 DEF IsList
  <2>2. strong \in Seq(X \cup {"white"})
    BY <2>1, SeqMonotonic
  <2>3. Append(strong, "white") \in Seq(X \cup {"white"})
    BY <2>2
  <2> QED
    BY <2>3 DEF IsList
<1>6. ASSUME strong # <<>> PROVE IsList(<<strong[1], "white">> \o Tail(strong))
  <2>1. PICK X : strong \in Seq(X)
    BY <1>4 DEF IsList
  <2>2. Tail(strong) \in Seq(X)
    BY <2>1, <1>6
  <2>3. IsList(Tail(strong))
    BY <2>2 DEF IsList
  <2>4. <<strong[1], "white">> \in Seq({strong[1], "white"})
    OBVIOUS
  <2>5. IsList(<<strong[1], "white">>)
    BY <2>4 DEF IsList
  <2> QED
    BY <2>3, <2>5, BothAreLists
<1>7. \/ StrongColours(ranked, strong) \in {ranked, strong, Append(strong, "white")}
      \/ strong # <<>> /\ StrongColours(ranked, strong) = <<strong[1], "white">> \o Tail(strong)
  BY DEF StrongColours
<1> QED
  BY <1>1, <1>3, <1>4, <1>5, <1>6, <1>7

LEMMA LooksAreList ==
  ASSUME NEW colours, IsList(colours), NEW category
  PROVE  IsList(Looks(colours, category))
<1> DEFINE first == FirstOf(colours, 2)
           each == [i \in DOMAIN first |-> Look(colours[i], category)]
<1>1. IsList(first)
  BY FirstOfIsList
<1>2. Len(first) \in Nat /\ DOMAIN first = 1..Len(first)
  BY <1>1, ListPlacesAre
<1>3. each = [i \in 1..Len(first) |-> each[i]]
  BY <1>2
<1>4. Looks(colours, category) =
        (IF Len(colours) >= 2 /\ {"blue", "white"} \subseteq ToSet(FirstOf(colours, 3))
         THEN <<Look("blue and white", category)>> ELSE <<>>) \o each
  BY DEF Looks
<1> HIDE DEF each, first
<1>5. IsList(each)
  BY <1>2, <1>3, CountedIsList
<1>6. IsList(<<>>)
  <2>1. <<>> \in Seq({})
    OBVIOUS
  <2> QED
    BY <2>1 DEF IsList
<1> QED
  BY <1>4, <1>5, <1>6, OneIsList, BothAreLists

(* Of an asset of a scene that is given.                                   *)
LEMMA LabelsAreLists ==
  ASSUME NEW scene, SceneIsGiven(scene), NEW id, NEW asset, asset = AssetOf(scene, id)
  PROVE  IsList(VisualLabels(asset)) /\ IsList(PickLabels(id, asset))
<1>1. IsFiniteSet(DOMAIN asset.counts)
  <2>1. CASE id \in DOMAIN scene.assets
    BY <2>1 DEF AssetOf, SceneIsGiven
  <2>2. CASE id \notin DOMAIN scene.assets
    <3>1. asset.counts = <<>>
      BY <2>2 DEF AssetOf, NoAsset
    <3>2. DOMAIN asset.counts = {}
      BY <3>1
    <3> QED
      BY <3>2, FS_EmptySet
  <2> QED
    BY <2>1, <2>2
<1>2. IsList(VisualLabels(asset))
  BY <1>1, ColoursAreList, LooksAreList DEF VisualLabels
<1>3. IsList(CategoryLabels(asset.category))
  <2>1. \A x, y : <<x, y>> \in Seq({x, y})
    OBVIOUS
  <2>2. \A x, y : IsList(<<x, y>>)
    BY <2>1 DEF IsList
  <2> QED
    BY <2>2, OneIsList DEF CategoryLabels
<1>4. IsList(<<Ref(id), Kind(asset.category)>>)
  <2>1. \A x, y : <<x, y>> \in Seq({x, y})
    OBVIOUS
  <2> QED
    BY <2>1 DEF IsList
<1>5. IsList(VisualLabels(asset) \o CategoryLabels(asset.category) \o <<Ref(id), Kind(asset.category)>>)
  BY <1>2, <1>3, <1>4, BothAreLists
<1> QED
  BY <1>2, <1>5, DedupeIsList DEF PickLabels

-----------------------------------------------------------------------------
(* The order of keys.                                                      *)
Keys == Seq(ToSet(Names))

LEMMA IndexTells ==
  ASSUME NEW a \in ToSet(Names), NEW b \in ToSet(Names)
  PROVE  IdIndex(a) \in Int /\ (a # b => IdIndex(a) # IdIndex(b))
<1>1. \A i \in DOMAIN Names : i \in Int
  BY SuitesAssumption DEF SuitesAssumption, Listed
<1>2. \A id \in ToSet(Names) : IdIndex(id) \in DOMAIN Names /\ Names[IdIndex(id)] = id
  <2> SUFFICES ASSUME NEW id \in ToSet(Names)
               PROVE  IdIndex(id) \in DOMAIN Names /\ Names[IdIndex(id)] = id
    OBVIOUS
  <2>1. \E i \in DOMAIN Names : Names[i] = id
    BY DEF ToSet
  <2> QED
    BY <2>1 DEF IdIndex
<1> QED
  BY <1>1, <1>2

LEMMA KeyIs ==
  ASSUME NEW a \in Keys
  PROVE  /\ Len(a) \in Nat /\ DOMAIN a = 1..Len(a)
         /\ \A k \in DOMAIN a : a[k] \in ToSet(Names) /\ IdIndex(a[k]) \in Int
<1>1. Len(a) \in Nat /\ DOMAIN a = 1..Len(a) /\ \A k \in DOMAIN a : a[k] \in ToSet(Names)
  BY DEF Keys
<1> QED
  BY <1>1, IndexTells

LEMMA EarlierNotItself ==
  ASSUME NEW a \in Keys
  PROVE  ~Earlier(a, a)
BY KeyIs DEF Earlier

(* Keys are totally ordered, as strings are in Python.                     *)
LEMMA EarlierEither ==
  ASSUME NEW a \in Keys, NEW b \in Keys, a # b
  PROVE  Earlier(a, b) \/ Earlier(b, a)
<1> DEFINE Same(k) == k \in DOMAIN a /\ k \in DOMAIN b /\ a[k] = b[k]
           D == { k \in (DOMAIN a) \cup (DOMAIN b) : ~Same(k) }
<1>1. /\ Len(a) \in Nat /\ DOMAIN a = 1..Len(a) /\ Len(b) \in Nat /\ DOMAIN b = 1..Len(b)
      /\ \A k \in DOMAIN a : a[k] \in ToSet(Names) /\ IdIndex(a[k]) \in Int
      /\ \A k \in DOMAIN b : b[k] \in ToSet(Names) /\ IdIndex(b[k]) \in Int
  BY KeyIs
<1>2. D # {}
  <2> SUFFICES ASSUME D = {} PROVE FALSE
    OBVIOUS
  <2>1. \A k \in (DOMAIN a) \cup (DOMAIN b) : Same(k)
    OBVIOUS
  <2>2. DOMAIN a = DOMAIN b /\ \A k \in DOMAIN a : a[k] = b[k]
    BY <2>1
  <2>3. a = [k \in DOMAIN a |-> a[k]] /\ b = [k \in DOMAIN b |-> b[k]]
    BY DEF Keys
  <2> QED
    BY <2>2, <2>3
<1>3. D \in SUBSET Nat
  BY <1>1
<1>4. PICK k \in D : \A j \in D : k <= j
  <2> HIDE DEF D
  <2> QED
    BY <1>2, <1>3, Least, Zenon
<1>5. k \in (DOMAIN a) \cup (DOMAIN b) /\ ~Same(k) /\ k \in Nat
  BY <1>3
<1>6. \A j \in 1..(k - 1) : Same(j)
  <2> SUFFICES ASSUME NEW j \in 1..(k - 1) PROVE Same(j)
    OBVIOUS
  <2>1. j \in (DOMAIN a) \cup (DOMAIN b) /\ ~(k <= j)
    BY <1>1, <1>5
  <2>2. j \notin D
    <3> HIDE DEF D, Same
    <3> QED
      BY <2>1, <1>4
  <2> QED
    BY <2>1, <2>2
<1>7. CASE k \notin DOMAIN a
  BY <1>5, <1>6, <1>7 DEF Earlier
<1>8. CASE k \notin DOMAIN b
  BY <1>5, <1>6, <1>8 DEF Earlier
<1>9. CASE k \in DOMAIN a /\ k \in DOMAIN b
  <2>1. a[k] # b[k]
    BY <1>5, <1>9
  <2>2. IdIndex(a[k]) # IdIndex(b[k]) /\ IdIndex(a[k]) \in Int /\ IdIndex(b[k]) \in Int
    BY <1>1, <1>9, <2>1, IndexTells
  <2>3. IdIndex(a[k]) < IdIndex(b[k]) \/ IdIndex(b[k]) < IdIndex(a[k])
    BY <2>2
  <2> QED
    BY <1>6, <1>9, <2>3 DEF Earlier
<1> QED
  BY <1>7, <1>8, <1>9

LEMMA EarlierOn ==
  ASSUME NEW a \in Keys, NEW b \in Keys, NEW c \in Keys, Earlier(a, b), Earlier(b, c)
  PROVE  Earlier(a, c)
<1>1. /\ Len(a) \in Nat /\ DOMAIN a = 1..Len(a) /\ Len(b) \in Nat /\ DOMAIN b = 1..Len(b)
      /\ Len(c) \in Nat /\ DOMAIN c = 1..Len(c)
      /\ \A k \in DOMAIN a : IdIndex(a[k]) \in Int
      /\ \A k \in DOMAIN b : IdIndex(b[k]) \in Int
      /\ \A k \in DOMAIN c : IdIndex(c[k]) \in Int
  BY KeyIs
<1>2. PICK k \in DOMAIN b : /\ \A j \in 1..(k - 1) : j \in DOMAIN a /\ a[j] = b[j]
                            /\ k \in DOMAIN a => IdIndex(a[k]) < IdIndex(b[k])
  BY DEF Earlier
<1>3. PICK l \in DOMAIN c : /\ \A j \in 1..(l - 1) : j \in DOMAIN b /\ b[j] = c[j]
                            /\ l \in DOMAIN b => IdIndex(b[l]) < IdIndex(c[l])
  BY DEF Earlier
<1>4. k \in Nat /\ l \in Nat /\ k # 0 /\ l # 0
  BY <1>1
<1>5. CASE k < l
  <2>1. k \in 1..(l - 1) /\ b[k] = c[k] /\ k \in DOMAIN c
    BY <1>1, <1>3, <1>4, <1>5
  <2>2. \A j \in 1..(k - 1) : j \in 1..(l - 1)
    BY <1>4, <1>5
  <2>3. \A j \in 1..(k - 1) : j \in DOMAIN a /\ a[j] = c[j]
    BY <1>2, <1>3, <2>2
  <2> QED
    BY <1>2, <2>1, <2>3 DEF Earlier
<1>6. CASE l < k
  <2>1. l \in 1..(k - 1) /\ l \in DOMAIN b
    BY <1>1, <1>4, <1>6
  <2>2. l \in DOMAIN a /\ a[l] = b[l] /\ IdIndex(b[l]) < IdIndex(c[l])
    BY <1>2, <1>3, <2>1
  <2>3. \A j \in 1..(l - 1) : j \in 1..(k - 1)
    BY <1>4, <1>6
  <2>4. \A j \in 1..(l - 1) : j \in DOMAIN a /\ a[j] = c[j]
    BY <1>2, <1>3, <2>3
  <2> QED
    BY <1>3, <2>2, <2>4 DEF Earlier
<1>7. CASE k = l
  <2>1. IdIndex(b[k]) < IdIndex(c[k])
    BY <1>2, <1>3, <1>7
  <2>2. k \in DOMAIN a => IdIndex(a[k]) < IdIndex(c[k])
    BY <1>1, <1>2, <1>3, <1>7, <2>1
  <2>3. \A j \in 1..(k - 1) : j \in DOMAIN a /\ a[j] = c[j]
    BY <1>2, <1>3, <1>7
  <2> QED
    BY <1>3, <1>7, <2>2, <2>3 DEF Earlier
<1> QED
  BY <1>4, <1>5, <1>6, <1>7

-----------------------------------------------------------------------------
(* The scores of what is accepted are numbers.                             *)
LEMMA AtIs ==
  ASSUME NEW scene, SceneIsGiven(scene), NEW id
  PROVE  AtOf(scene, id) = Nowhere \/ AtOf(scene, id) \in Position
BY DEF SceneIsGiven, AtOf

LEMMA PositionIs ==
  ASSUME NEW at \in Position
  PROVE  at[1] \in Int /\ at[2] \in Int /\ at[3] \in Int /\ at # Nowhere
BY DEF Position, Nowhere


LEMMA PreferredIs ==
  ASSUME NEW category \in DOMAIN Preferred
  PROVE  Preferred[category] \in Int
BY DEF Preferred

(* A score is a number wherever the object is, or if it is nowhere.        *)
LEMMA ScoreIs ==
  ASSUME NEW class, NEW asset, NEW at, at = Nowhere \/ at \in Position
  PROVE  Score(class, asset, at) \in Int
<1>1. CASE at = Nowhere
  BY <1>1, PreferredIs DEF Score
<1>2. CASE at \in Position
  <2>1. at[1] \in Int /\ at[2] \in Int
    BY <1>2, PositionIs
  <2>2. Abs(at[1] - 70) \in Int /\ Abs(at[2]) \in Int
    BY <2>1 DEF Abs, AtLeast, AtMost
  <2>3. AtLeast(0, 12000 - Abs(at[1] - 70) * 200 - Abs(at[2]) * 100) \in Int
    BY <2>2 DEF Abs, AtLeast, AtMost
  <2> QED
    BY <2>3, PreferredIs DEF Score
<1> QED
  BY <1>1, <1>2

LEMMA ScorePickplaceIs ==
  ASSUME NEW source, NEW sourceAt \in Position, NEW place, NEW placeAt, placeAt = Nowhere \/ placeAt \in Position
  PROVE  ScorePickplace(source, sourceAt, place, placeAt) \in Int
<1>1. sourceAt[1] \in Int /\ sourceAt[2] \in Int
  BY PositionIs
<1>2. Abs(sourceAt[1] - 65) \in Int /\ Abs(sourceAt[2]) \in Int
  BY <1>1 DEF Abs, AtLeast, AtMost
<1>3. AtLeast(0, 12000 - Abs(sourceAt[1] - 65) * 150 - Abs(sourceAt[2]) * 80) \in Int
  BY <1>2 DEF Abs, AtLeast, AtMost
<1>4. placeAt # Nowhere => AtMost(10000, Abs(sourceAt[2] - placeAt[2]) * 30) \in Int
  <2> SUFFICES ASSUME placeAt \in Position PROVE AtMost(10000, Abs(sourceAt[2] - placeAt[2]) * 30) \in Int
    OBVIOUS
  <2>1. placeAt[2] \in Int
    BY PositionIs
  <2>2. Abs(sourceAt[2] - placeAt[2]) \in Int
    BY <1>1, <2>1 DEF Abs, AtLeast, AtMost
  <2> QED
    BY <2>2 DEF Abs, AtLeast, AtMost
<1> QED
  BY <1>3, <1>4 DEF ScorePickplace

LEMMA ScoreStackPairIs ==
  ASSUME NEW source, NEW at \in Position, NEW support, NEW supportAt \in Position
  PROVE  ScoreStackPair(source, at, support, supportAt) \in Int
<1>1. at[1] \in Int /\ at[2] \in Int /\ supportAt[2] \in Int
  BY PositionIs
<1>2. Abs(at[1] - 55) \in Int /\ Abs(at[2]) \in Int
  BY <1>1 DEF Abs, AtLeast, AtMost
<1>3. AtLeast(0, 10000 - Abs(at[1] - 55) * 120 - Abs(at[2]) * 50) \in Int
  BY <1>2 DEF Abs, AtLeast, AtMost
<1>4. Distance(at, supportAt) \in Int
  BY DistanceIs
<1>5. Abs(Distance(at, supportAt) - 14) \in Int
  BY <1>4 DEF Abs, AtLeast, AtMost
<1>6. AtLeast(0, 12000 - Abs(Distance(at, supportAt) - 14) * 400) \in Int
  BY <1>5 DEF Abs, AtLeast, AtMost
<1> QED
  BY <1>3, <1>6 DEF ScoreStackPair

LEMMA BonusIs ==
  ASSUME NEW binding, NEW at, NEW placeAt, at = Nowhere \/ at \in Position, placeAt = Nowhere \/ placeAt \in Position
  PROVE  ExecutionBonus(binding, at, placeAt) \in Int
<1>1. (IF at = Nowhere THEN 0 ELSE AtMost(5000, AtLeast(0, -at[2] * 300))) \in Int
  <2> SUFFICES ASSUME at # Nowhere PROVE AtMost(5000, AtLeast(0, -at[2] * 300)) \in Int
    OBVIOUS
  <2>1. at[2] \in Int
    BY PositionIs
  <2>2. AtLeast(0, -at[2] * 300) \in Int
    BY <2>1 DEF Abs, AtLeast, AtMost
  <2> QED
    BY <2>2 DEF Abs, AtLeast, AtMost
<1> QED
  BY <1>1 DEF ExecutionBonus

(* Only of what is not rejected is a score a number: a rejected source may *)
(* be without a class.                                                     *)
LEMMA AcceptedPair ==
  ASSUME NEW scene, SceneIsGiven(scene), NEW source, NEW support, PairReasons(scene, source, support) = {}
  PROVE  PairScore(scene, source, support) \in Int
<1> DEFINE checks ==
      [ qualified |-> ~AssetOf(scene, source).qualified, collision |-> ~AssetOf(scene, source).collision,
        supportQualified |-> ~AssetOf(scene, support).qualified, supportCollision |-> ~AssetOf(scene, support).collision,
        pick |-> ~Has("pick"), place |-> ~Has("place"),
        pose |-> ~InWorkspace(AtOf(scene, source), 60), supportPose |-> ~InWorkspace(AtOf(scene, support), 60) ]
<1>1. Reasons(checks) = {}
  BY DEF PairReasons, AdmitStackPair
<1>2. "pose" \in DOMAIN checks /\ "supportPose" \in DOMAIN checks
  OBVIOUS
<1>3. checks["pose"] = ~InWorkspace(AtOf(scene, source), 60) /\ checks["supportPose"] = ~InWorkspace(AtOf(scene, support), 60)
  OBVIOUS
<1> HIDE DEF checks
<1>4. ~checks["pose"] /\ ~checks["supportPose"]
  BY <1>1, <1>2 DEF Reasons
<1>5. AtOf(scene, source) # Nowhere /\ AtOf(scene, support) # Nowhere
  BY <1>3, <1>4 DEF InWorkspace
<1> QED
  BY <1>5, AtIs, ScoreStackPairIs DEF PairScore

(* The sums of a list of numbers, up to each of its places.                *)
SumsOf(w, last, sum) ==
  sum = [n \in 1..last |-> IF n = 1 THEN 0 ELSE sum[n - 1] + w[n]]

(* A score of a tower is the sum over its pairs, as a list of sums.        *)
LEMMA SumsAreThere ==
  ASSUME NEW w, NEW last \in Nat
  PROVE  \E sum : SumsOf(w, last, sum)
<1> DEFINE Next1(s, n) == s + w[n]
           Goes(sum, n) == SumsOf(w, n, sum)
           Bad == { n \in Nat : ~\E sum : Goes(sum, n) }
<1>0. \A sum, n : Goes(sum, n) <=> sum = [k \in 1..n |-> IF k = 1 THEN 0 ELSE Next1(sum[k - 1], k)]
  BY DEF SumsOf
<1> HIDE DEF Next1, Goes
<1>1. Bad = {}
  <2> SUFFICES ASSUME Bad # {} PROVE FALSE
    OBVIOUS
  <2>1. Bad \in SUBSET Nat
    OBVIOUS
  <2>2. PICK n \in Bad : \A k \in Bad : n <= k
    <3> HIDE DEF Bad
    <3> QED
      BY <2>1, Least, Zenon
  <2>3. n \in Nat /\ ~\E sum : Goes(sum, n)
    OBVIOUS
  <2>4. n # 0
    <3> SUFFICES ASSUME n = 0 PROVE FALSE
      OBVIOUS
    <3> DEFINE start == [k \in 1..0 |-> 0]
    <3>1. start = [k \in 1..0 |-> IF k = 1 THEN 0 ELSE Next1(start[k - 1], k)]
      <4>1. \A k : k \notin 1..0
        OBVIOUS
      <4> QED
        BY <4>1
    <3>2. Goes(start, 0)
      <4> HIDE DEF start
      <4> QED
        BY <3>1, <1>0
    <3> QED
      BY <3>2, <2>3
  <2>5. n - 1 \in Nat /\ n - 1 \notin Bad
    <3>1. n - 1 \in Nat
      BY <2>3, <2>4
    <3>2. ~(n <= n - 1)
      BY <2>3
    <3> HIDE DEF Bad
    <3> QED
      BY <2>2, <3>1, <3>2
  <2>6. PICK sum : Goes(sum, n - 1)
    BY <2>5
  <2> DEFINE more == [k \in 1..n |-> IF k = 1 THEN 0 ELSE IF k = n THEN Next1(sum[n - 1], n) ELSE sum[k]]
  <2>7. \A k \in 1..n : more[k] = IF k = 1 THEN 0 ELSE Next1(more[k - 1], k)
    <3> TAKE k \in 1..n
    <3>0. CASE k = 1
      BY <3>0, <2>3
    <3>1. CASE k # 1 /\ k = n
      <4>1. n \in 1..n /\ n - 1 \in 1..n /\ n - 1 # n /\ n - 1 \in 1..(n - 1)
        BY <2>3, <3>1
      <4>2. sum[n - 1] = IF n - 1 = 1 THEN 0 ELSE Next1(sum[(n - 1) - 1], n - 1)
        <5> HIDE DEF more
        <5>1. sum = [j \in 1..(n - 1) |-> IF j = 1 THEN 0 ELSE Next1(sum[j - 1], j)]
          BY <2>6, <1>0
        <5> QED
          BY <5>1, <4>1
      <4>3. more[n] = Next1(sum[n - 1], n) /\ more[n - 1] = sum[n - 1]
        BY <4>1, <4>2, <3>1
      <4> HIDE DEF more
      <4> QED
        BY <3>1, <4>3
    <3>2. CASE k # 1 /\ k # n
      <4>1. k \in 1..(n - 1) /\ more[k] = sum[k]
        BY <2>3, <3>2
      <4>2. sum = [j \in 1..(n - 1) |-> IF j = 1 THEN 0 ELSE Next1(sum[j - 1], j)]
        <5> HIDE DEF more
        <5> QED
          BY <2>6, <1>0
      <4>3. sum[k] = Next1(sum[k - 1], k)
        <5> HIDE DEF more
        <5> QED
          BY <4>1, <4>2, <3>2
      <4>4. k - 1 \in 1..(n - 1) /\ k - 1 \in 1..n /\ k - 1 # n
        BY <2>3, <3>2
      <4>5. sum[k - 1] = IF k - 1 = 1 THEN 0 ELSE Next1(sum[(k - 1) - 1], k - 1)
        <5> HIDE DEF more
        <5> QED
          BY <4>2, <4>4
      <4>6. more[k - 1] = sum[k - 1]
        BY <4>4, <4>5
      <4> HIDE DEF more
      <4> QED
        BY <4>1, <4>3, <4>6, <3>2
    <3> QED
      BY <3>0, <3>1, <3>2
  <2>8. more = [k \in 1..n |-> more[k]]
    OBVIOUS
  <2>9. Goes(more, n)
    <3> HIDE DEF more
    <3>1. more = [k \in 1..n |-> IF k = 1 THEN 0 ELSE Next1(more[k - 1], k)]
      BY <2>7, <2>8
    <3> QED
      BY <3>1, <1>0
  <2> QED
    BY <2>3, <2>9
<1> QED
  BY <1>1 DEF Goes

LEMMA SumsAreNumbers ==
  ASSUME NEW w, NEW last \in Nat, \A n \in 2..last : w[n] \in Int, NEW sum, SumsOf(w, last, sum)
  PROVE  \A n \in 1..last : sum[n] \in Int
<1> DEFINE Bad == { n \in 1..last : sum[n] \notin Int }
<1>1. Bad = {}
  <2> SUFFICES ASSUME Bad # {} PROVE FALSE
    OBVIOUS
  <2>1. Bad \in SUBSET Nat
    OBVIOUS
  <2>2. PICK n \in Bad : \A k \in Bad : n <= k
    <3> HIDE DEF Bad
    <3> QED
      BY <2>1, Least, Zenon
  <2>3. n \in 1..last /\ sum[n] \notin Int
    OBVIOUS
  <2>4. sum[n] = IF n = 1 THEN 0 ELSE sum[n - 1] + w[n]
    <3> HIDE DEF Bad
    <3> QED
      BY <2>3 DEF SumsOf
  <2>5. n # 1
    BY <2>3, <2>4
  <2>6. n - 1 \in 1..last /\ n \in 2..last /\ ~(n <= n - 1)
    BY <2>3, <2>5
  <2>7. n - 1 \notin Bad
    <3> HIDE DEF Bad
    <3> QED
      BY <2>2, <2>6
  <2>8. sum[n - 1] \in Int
    BY <2>6, <2>7
  <2> HIDE DEF Bad
  <2> QED
    BY <2>3, <2>4, <2>5, <2>6, <2>8
<1> QED
  BY <1>1

(* A tower that is not rejected is made of pairs that are not.             *)
LEMMA TowerReasons ==
  ASSUME NEW scene, NEW chain, AdmitStackChain(scene, chain) = {}, NEW i \in 2..Len(chain)
  PROVE  PairReasons(scene, chain[i], chain[i - 1]) = {}
<1> DEFINE of(j) == { <<j - 1, r>> : r \in PairReasons(scene, chain[j], chain[j - 1]) }
<1>1. UNION { of(j) : j \in 2..Len(chain) } = {}
  BY DEF AdmitStackChain
<1>2. of(i) = {}
  <2> HIDE DEF of
  <2> QED
    BY <1>1
<1> QED
  BY <1>2

LEMMA TowerScoreIs ==
  ASSUME NEW scene, SceneIsGiven(scene), NEW chain, Len(chain) \in Nat \ {0}, AdmitStackChain(scene, chain) = {}
  PROVE  ScoreStackChain(scene, chain) \in Int
<1> DEFINE N == Len(chain)
           Gain(n) == PairScore(scene, chain[n], chain[n - 1]) \div 10
           w == [n \in 1..N |-> Gain(n)]
           sum == CHOOSE each : each = [n \in 1..N |-> IF n = 1 THEN 0 ELSE each[n - 1] + Gain(n)]
<1>0. N \in Nat /\ N # 0
  OBVIOUS
<1>1. \A n \in 2..N : Gain(n) \in Int
  <2> TAKE n \in 2..N
  <2>1. PairScore(scene, chain[n], chain[n - 1]) \in Int
    BY TowerReasons, AcceptedPair
  <2> QED
    BY <2>1
<1>2. ScoreStackChain(scene, chain) = 240000 + AtLeast(0, N - 2) * 30000 + sum[N]
  BY DEF ScoreStackChain
<1> HIDE DEF N, Gain
<1>3. \A each : (each = [n \in 1..N |-> IF n = 1 THEN 0 ELSE each[n - 1] + Gain(n)]) <=> SumsOf(w, N, each)
  BY DEF SumsOf
<1>4. \A n \in 2..N : w[n] \in Int
  <2>1. \A n \in 2..N : n \in 1..N
    BY <1>0
  <2> QED
    BY <1>1, <2>1
<1> HIDE DEF w
<1>5. \E each : SumsOf(w, N, each)
  BY <1>0, SumsAreThere
<1>6. SumsOf(w, N, sum)
  BY <1>3, <1>5
<1> HIDE DEF sum
<1>7. sum[N] \in Int
  BY <1>0, <1>4, <1>6, SumsAreNumbers
<1> QED
  BY <1>0, <1>2, <1>7 DEF AtLeast

(* There are finitely many keys of bounded length.                         *)
NamedUpTo(n) == { a \in Keys : Len(a) <= n }

LEMMA NamesFinite == IsFiniteSet(ToSet(Names))
<1>1. IsFiniteSet(DOMAIN Names)
  BY SuitesAssumption, FS_Interval DEF SuitesAssumption, Listed
<1>2. ToSet(Names) = { Names[i] : i \in DOMAIN Names }
  BY DEF ToSet
<1> QED
  BY <1>1, <1>2, ImageFinite

(* Keys of a bounded length are finitely many, so that sets of items are.  *)
LEMMA KeysFinite ==
  ASSUME NEW n \in Nat
  PROVE  IsFiniteSet(NamedUpTo(n))
<1> DEFINE S == NamedUpTo(n)
           Grid == (1..n) \X ToSet(Names)
           Graph(a) == { <<k, a[k]>> : k \in DOMAIN a }
           f == [a \in S |-> Graph(a)]
<1>1. IsFiniteSet(SUBSET Grid)
  <2>1. IsFiniteSet(1..n)
    BY FS_Interval
  <2>2. IsFiniteSet(Grid)
    BY <2>1, NamesFinite, FS_Product
  <2> QED
    BY <2>2, FS_SUBSET
<1>2. \A a \in S : /\ Len(a) \in Nat /\ DOMAIN a = 1..Len(a) /\ Len(a) <= n
                   /\ \A k \in DOMAIN a : a[k] \in ToSet(Names)
                   /\ a = [k \in DOMAIN a |-> a[k]]
  BY KeyIs DEF NamedUpTo, Keys
<1>3. \A a \in S : Graph(a) \in SUBSET Grid
  <2> SUFFICES ASSUME NEW a \in S PROVE Graph(a) \in SUBSET Grid
    OBVIOUS
  <2>1. \A k \in DOMAIN a : k \in 1..n /\ a[k] \in ToSet(Names)
    BY <1>2
  <2> QED
    BY <2>1
<1>4. \A a, b \in S : Graph(a) = Graph(b) => a = b
  <2> SUFFICES ASSUME NEW a \in S, NEW b \in S, Graph(a) = Graph(b) PROVE a = b
    OBVIOUS
  <2>1. \A k \in DOMAIN a : k \in DOMAIN b /\ a[k] = b[k]
    <3> TAKE k \in DOMAIN a
    <3>1. <<k, a[k]>> \in Graph(b)
      OBVIOUS
    <3> QED
      BY <3>1
  <2>2. \A k \in DOMAIN b : k \in DOMAIN a /\ a[k] = b[k]
    <3> TAKE k \in DOMAIN b
    <3>1. <<k, b[k]>> \in Graph(a)
      OBVIOUS
    <3> QED
      BY <3>1
  <2>3. DOMAIN a = DOMAIN b
    BY <2>1, <2>2
  <2> QED
    BY <1>2, <2>1, <2>3
<1>5. f \in Injection(S, SUBSET Grid)
  <2> HIDE DEF S, Grid, Graph
  <2>1. f \in [S -> SUBSET Grid]
    BY <1>3
  <2>2. \A a, b \in S : f[a] = f[b] => a = b
    BY <1>4
  <2> QED
    BY <2>1, <2>2 DEF Injection, IsInjective
<1> HIDE DEF f, Grid
<1> QED
  BY <1>1, <1>5, FS_Injection

-----------------------------------------------------------------------------
(* The towers that are chosen.                                             *)
Injective(s) == \A i, j \in DOMAIN s : i # j => s[i] # s[j]

(* A permutation of a finite set names each of its members once.           *)
LEMMA PermutationIs ==
  ASSUME NEW S, IsFiniteSet(S), NEW c \in SetToSeqs(S)
  PROVE  /\ Len(c) = Cardinality(S) /\ Cardinality(S) \in Nat /\ DOMAIN c = 1..Cardinality(S)
         /\ c \in Seq(S) /\ Injective(c) /\ ToSet(c) = S
<1> DEFINE N == Cardinality(S)
<1>1. N \in Nat
  BY FS_CardinalityType
<1>2. c \in [1..N -> S] /\ \A i, j \in 1..N : i # j => c[i] # c[j]
  BY DEF SetToSeqs
<1>3. c \in Injection(1..N, S)
  <2> HIDE DEF N
  <2> QED
    BY <1>2 DEF Injection, IsInjective
<1>4. IsFiniteSet(1..N) /\ Cardinality(1..N) = N
  BY <1>1, FS_Interval
<1>5. c \in Surjection(1..N, S)
  BY <1>3, <1>4, FS_Injection, Zenon
<1> HIDE DEF N
<1>6. ToSet(c) = S
  BY <1>2, <1>5 DEF ToSet, Surjection
<1>7. c \in Seq(S) /\ Len(c) = N
  BY <1>1, <1>2
<1> QED
  BY <1>1, <1>2, <1>6, <1>7 DEF N, Injective

Towers(scene, objects) ==
  { c \in SetToSeqs(ToSet(objects)) :
     ToSet(objects) \subseteq DOMAIN scene.assets \cap DOMAIN scene.imports /\ AdmitStackChain(scene, c) = {} }

LEMMA ListedFinite ==
  ASSUME NEW s, Listed(s)
  PROVE  IsFiniteSet(ToSet(s))
<1>1. IsFiniteSet(DOMAIN s)
  BY FS_Interval DEF Listed
<1>2. ToSet(s) = { s[i] : i \in DOMAIN s }
  BY DEF ToSet
<1> QED
  BY <1>1, <1>2, ImageFinite

(* A tower names each of its objects once.                                 *)
LEMMA TowerIs ==
  ASSUME NEW scene, SceneIsGiven(scene), NEW objects, Listed(objects), Len(objects) >= 3, NEW c \in Towers(scene, objects)
  PROVE  /\ Len(c) \in Nat \ {0} /\ DOMAIN c = 1..Len(c) /\ Injective(c) /\ ToSet(c) = ToSet(objects)
         /\ c \in Keys /\ Len(c) <= Cardinality(ToSet(Names)) /\ Cardinality(ToSet(Names)) \in Nat
         /\ AdmitStackChain(scene, c) = {} /\ ScoreStackChain(scene, c) \in Int
<1> DEFINE S == ToSet(objects)
<1>1. IsFiniteSet(S) /\ S # {}
  <2>1. 1 \in DOMAIN objects
    BY DEF Listed
  <2> QED
    BY <2>1, ListedFinite DEF ToSet
<1>2. c \in SetToSeqs(S) /\ S \subseteq DOMAIN scene.assets /\ AdmitStackChain(scene, c) = {}
  BY DEF Towers
<1>3. S \in SUBSET ToSet(Names)
  BY <1>2 DEF SceneIsGiven
<1> HIDE DEF S
<1>4. /\ Len(c) = Cardinality(S) /\ Cardinality(S) \in Nat /\ DOMAIN c = 1..Cardinality(S)
      /\ c \in Seq(S) /\ Injective(c) /\ ToSet(c) = S
  BY <1>1, <1>2, PermutationIs
<1>5. Cardinality(S) # 0
  BY <1>1, FS_EmptySet
<1>6. Cardinality(S) <= Cardinality(ToSet(Names)) /\ Cardinality(ToSet(Names)) \in Nat
  BY <1>3, NamesFinite, FS_Subset, FS_CardinalityType, Zenon
<1>7. c \in Keys
  BY <1>3, <1>4 DEF Keys
<1>8. ScoreStackChain(scene, c) \in Int
  BY <1>2, <1>4, <1>5, TowerScoreIs
<1> QED
  BY <1>2, <1>4, <1>5, <1>6, <1>7, <1>8 DEF S

(* The towers that are chosen are towers of the objects, and none is       *)
(* chosen twice.                                                           *)
LEMMA ChosenTowers ==
  ASSUME NEW scene, SceneIsGiven(scene), NEW objects, Listed(objects), Len(objects) >= 3,
         NEW chains, chains = ChooseChains(scene, objects)
  PROVE  /\ \A v \in DOMAIN chains : v \in Nat /\ chains[v] \in Towers(scene, objects)
         /\ Injective(chains)
<1> DEFINE S == Towers(scene, objects)
           better(a, b) == \/ ScoreStackChain(scene, a) > ScoreStackChain(scene, b)
                           \/ ScoreStackChain(scene, a) = ScoreStackChain(scene, b) /\ Earlier(a, b)
           before == { r \in S \X S : better(r[1], r[2]) }
           order == InOrder(S, before)
           n == Cardinality(ToSet(Names))
<1>1. \A c \in S : ScoreStackChain(scene, c) \in Int /\ c \in Keys /\ Len(c) <= n
  BY TowerIs
<1>2. IsFiniteSet(S)
  <2>1. S \in SUBSET NamedUpTo(n)
    <3> HIDE DEF S
    <3> QED
      BY <1>1 DEF NamedUpTo
  <2>2. n \in Nat
    BY NamesFinite, FS_CardinalityType
  <2> HIDE DEF S, n
  <2>3. IsFiniteSet(NamedUpTo(n))
    BY <2>2, KeysFinite
  <2> QED
    BY <2>1, <2>3, FS_Subset, Zenon
<1>3. chains = FirstOf(order, 6)
  BY DEF ChooseChains, Towers
<1> HIDE DEF S, n
<1>4. Puts(S, before)
  <2>1. \A p \in S : <<p, p>> \notin before
    BY <1>1, EarlierNotItself
  <2>2. \A p, q \in S : p # q => <<p, q>> \in before \/ <<q, p>> \in before
    <3> SUFFICES ASSUME NEW p \in S, NEW q \in S, p # q PROVE better(p, q) \/ better(q, p)
      OBVIOUS
    <3>1. Earlier(p, q) \/ Earlier(q, p)
      BY <1>1, EarlierEither
    <3> QED
      BY <1>1, <3>1
  <2>3. \A p, q, r \in S : <<p, q>> \in before /\ <<q, r>> \in before => <<p, r>> \in before
    <3> SUFFICES ASSUME NEW p \in S, NEW q \in S, NEW r \in S, better(p, q), better(q, r) PROVE better(p, r)
      OBVIOUS
    <3>1. Earlier(p, q) /\ Earlier(q, r) => Earlier(p, r)
      BY <1>1, EarlierOn
    <3> QED
      BY <1>1, <3>1
  <2> QED
    BY <2>1, <2>2, <2>3 DEF Puts
<1> HIDE DEF before
<1>5. Enumerates(order, S, before)
  BY <1>2, <1>4, InOrderEnumerates
<1> HIDE DEF order
<1>6. /\ order \in [1..Cardinality(S) -> S] /\ Cardinality(S) \in Nat
      /\ \A i, j \in 1..Cardinality(S) : i < j => order[i] # order[j]
  BY <1>2, <1>5, FS_CardinalityType DEF Enumerates
<1>7. DOMAIN order = 1..Len(order) /\ Len(order) \in Nat /\ order \in Seq(S)
  BY <1>6
<1>8. IsList(order)
  BY <1>7 DEF IsList
<1>9. \A v \in DOMAIN chains : chains[v] = order[v] /\ v \in DOMAIN order
  BY <1>3, <1>8, FirstOfIsList
<1>10. Injective(chains)
  <2> SUFFICES ASSUME NEW i \in DOMAIN chains, NEW j \in DOMAIN chains, i # j PROVE chains[i] # chains[j]
    BY DEF Injective
  <2>1. i \in 1..Cardinality(S) /\ j \in 1..Cardinality(S)
    BY <1>6, <1>9
  <2>2. order[i] # order[j]
    BY <1>6, <2>1
  <2> QED
    BY <1>9, <2>2
<1> QED
  BY <1>6, <1>9, <1>10 DEF S

LEMMA SameObjectsSameTowers ==
  ASSUME NEW scene, NEW a, NEW b, ToSet(a) = ToSet(b)
  PROVE  ChooseChains(scene, a) = ChooseChains(scene, b)
BY DEF ChooseChains

-----------------------------------------------------------------------------
(* What is accepted into the pool.                                         *)

(* The plan of an item builds the tower of a chain of objects.             *)
Builds(i, chain) ==
  /\ Len(chain) \in Nat /\ DOMAIN chain = 1..Len(chain) /\ Injective(chain)
  /\ i.plan = StackSteps(Suites[i.suite].scene, chain)
  /\ i.success = [n \in DOMAIN i.plan |-> i.plan[n].success]
  /\ i.targetAt = AtOf(Suites[i.suite].scene, chain[2])

Prepared(i) ==
  /\ i.suite \in DOMAIN Suites
  /\ IsList(i.binding.picks) /\ IsList(i.binding.hints)
  /\ i.targetAt = Nowhere \/ i.targetAt \in Position
  /\ i.plan = <<>> \/ \E chain : Builds(i, chain)

LongestKey == Cardinality(ToSet(Names)) + 2

(* An item of a suite that can be ordered and carried out.                 *)
Ordered(i, s) ==
  /\ i.suite = s /\ i.score \in Int /\ i.key \in NamedUpTo(LongestKey) /\ Prepared(i)

LEMMA SceneOf ==
  ASSUME NEW s \in DOMAIN Suites
  PROVE  SceneIsGiven(Suites[s].scene) /\ GoalIsGiven(Suites[s].goal)
BY SuitesAssumption DEF SuitesAssumption

LEMMA LongestIs == LongestKey \in Nat /\ LongestKey >= 2
<1>1. Cardinality(ToSet(Names)) \in Nat
  BY NamesFinite, FS_CardinalityType
<1> QED
  BY <1>1 DEF LongestKey

LEMMA ItemFields ==
  ASSUME NEW home, NEW key, NEW tier, NEW target, NEW place, NEW success, NEW reasons, NEW binding, NEW score, NEW steps,
         NEW i, i = Item(home, key, tier, target, place, success, reasons, binding, score, steps)
  PROVE  /\ i.suite = home /\ i.key = key /\ i.success = success /\ i.reasons = reasons
         /\ i.binding = binding /\ i.score = score /\ i.plan = steps
         /\ i.targetAt = AtOf(Suites[home].scene, target)
BY DEF Item

LEMMA BindingLists ==
  ASSUME NEW scene, SceneIsGiven(scene), NEW id, NEW asset, asset = AssetOf(scene, id)
  PROVE  /\ IsList(Binding(id, asset).picks) /\ IsList(Binding(id, asset).hints)
         /\ \A other, place : /\ IsList(MultiBinding(id, asset, other, place).picks)
                              /\ IsList(MultiBinding(id, asset, other, place).hints)
                              /\ IsList(StackBinding(id, asset, other, place).picks)
                              /\ IsList(StackBinding(id, asset, other, place).hints)
<1> DEFINE b == Binding(id, asset)
<1>1. b.picks = PickLabels(id, asset) /\ b.hints = VisualLabels(asset)
  BY DEF Binding, BindingOf
<1>2. \A places : WithPlaces(b, places).picks = b.picks /\ WithPlaces(b, places).hints = b.hints
  BY DEF WithPlaces, Binding, BindingOf
<1>3. IsList(b.picks) /\ IsList(b.hints)
  <2> HIDE DEF b
  <2> QED
    BY <1>1, LabelsAreLists
<1> QED
  BY <1>2, <1>3 DEF MultiBinding, StackBinding

LEMMA TwoNames ==
  ASSUME NEW a \in ToSet(Names), NEW b \in ToSet(Names)
  PROVE  <<a, b>> \in NamedUpTo(LongestKey) /\ <<a>> \in NamedUpTo(LongestKey)
<1>1. <<a, b>> \in Keys /\ Len(<<a, b>>) = 2 /\ <<a>> \in Keys /\ Len(<<a>>) = 1
  BY DEF Keys
<1> QED
  BY <1>1, LongestIs DEF NamedUpTo

LEMMA NoReason ==
  ASSUME NEW checks, Reasons(checks) = {}, NEW r \in DOMAIN checks
  PROVE  ~checks[r]
BY DEF Reasons

-----------------------------------------------------------------------------
(* What each kind of suite adds to the pool, if no reason speaks against   *)
(* it.                                                                     *)
LEMMA PickupIs ==
  ASSUME NEW s \in DOMAIN Suites, NEW tier, NEW i \in PickupItems(s, tier), i.reasons = {}
  PROVE  Ordered(i, s)
<1> DEFINE scene == Suites[s].scene
           asset == AssetOf(scene, "target_prop")
           at == AtOf(scene, "target_prop")
           reasons == Admit(Suites[s], asset, at)
<1>0. SceneIsGiven(scene)
  BY SceneOf
<1>1. i = Item(s, <<"target_prop">>, tier, "target_prop", NoId, Suites[s].goal, reasons,
               Binding("target_prop", asset), ScoreIf(reasons, Score(Suites[s].class, asset, at)), <<>>)
  BY DEF PickupItems
<1>2. at = Nowhere \/ at \in Position
  BY <1>0, AtIs
<1>3. IsList(Binding("target_prop", asset).picks) /\ IsList(Binding("target_prop", asset).hints)
  BY <1>0, BindingLists
<1>4. Score(Suites[s].class, asset, at) \in Int
  BY <1>2, ScoreIs
<1>5. <<"target_prop">> \in NamedUpTo(LongestKey)
  BY TwoNames, SuitesAssumption DEF SuitesAssumption
<1> HIDE DEF asset, reasons, at
<1>6. /\ i.suite = s /\ i.key = <<"target_prop">> /\ i.reasons = reasons /\ i.binding = Binding("target_prop", asset)
      /\ i.score = ScoreIf(reasons, Score(Suites[s].class, asset, at)) /\ i.plan = <<>>
      /\ i.targetAt = AtOf(scene, "target_prop")
  BY <1>1, ItemFields
<1>7. i.score \in Int
  BY <1>4, <1>6 DEF ScoreIf
<1> QED
  BY <1>2, <1>3, <1>5, <1>6, <1>7 DEF Ordered, Prepared, at

LEMMA PlaceIs ==
  ASSUME NEW s \in DOMAIN Suites, NEW tier, NEW goal, NEW reasons, NEW binding, NEW score,
         {goal.of, goal.in} \subseteq DOMAIN Suites[s].scene.assets,
         IsList(binding.picks), IsList(binding.hints), reasons = {} => score \in Int,
         NEW i, i = PlaceItem(s, tier, goal, reasons, binding, score), i.reasons = {}
  PROVE  Ordered(i, s)
<1> DEFINE scene == Suites[s].scene
           bonus == ExecutionBonus(binding, AtOf(scene, goal.of), AtOf(scene, goal.in))
<1>0. SceneIsGiven(scene)
  BY SceneOf
<1>1. i = Item(s, <<goal.of, goal.in>>, tier, goal.of, goal.in, <<goal>>, reasons, binding,
               ScoreIf(reasons, score) + bonus, <<>>)
  BY DEF PlaceItem
<1>2. \A id : AtOf(scene, id) = Nowhere \/ AtOf(scene, id) \in Position
  BY <1>0, AtIs
<1>3. bonus \in Int
  BY <1>2, BonusIs
<1>4. <<goal.of, goal.in>> \in NamedUpTo(LongestKey)
  <2>1. goal.of \in ToSet(Names) /\ goal.in \in ToSet(Names)
    BY <1>0 DEF SceneIsGiven
  <2> QED
    BY <2>1, TwoNames
<1> HIDE DEF bonus
<1>5. /\ i.suite = s /\ i.key = <<goal.of, goal.in>> /\ i.reasons = reasons /\ i.binding = binding
      /\ i.score = ScoreIf(reasons, score) + bonus /\ i.plan = <<>> /\ i.targetAt = AtOf(scene, goal.of)
  BY <1>1, ItemFields
<1>6. i.score \in Int
  BY <1>3, <1>5 DEF ScoreIf
<1>7. i.targetAt = Nowhere \/ i.targetAt \in Position
  BY <1>2, <1>5
<1> QED
  BY <1>4, <1>5, <1>6, <1>7 DEF Ordered, Prepared

LEMMA AcceptedPlace ==
  ASSUME NEW source, NEW sourceAt, NEW place, sourceAt = Nowhere \/ sourceAt \in Position,
         NEW placeAt, placeAt = Nowhere \/ placeAt \in Position, AdmitPickplace(source, sourceAt, place) = {}
  PROVE  ScorePickplace(source, sourceAt, place, placeAt) \in Int
<1> DEFINE checks == [ qualified |-> ~source.qualified, collision |-> ~source.collision,
            place |-> ~place.qualified, risk |-> source.category \in HighRisk,
            skill |-> ~Has("pickplace"), pose |-> ~InWorkspace(sourceAt, 55) ]
<1>1. Reasons(checks) = {}
  BY DEF AdmitPickplace
<1>2. "pose" \in DOMAIN checks /\ checks["pose"] = ~InWorkspace(sourceAt, 55)
  OBVIOUS
<1> HIDE DEF checks
<1>3. ~checks["pose"]
  BY <1>1, <1>2, NoReason
<1>4. sourceAt # Nowhere
  BY <1>2, <1>3 DEF InWorkspace
<1> QED
  BY <1>4, ScorePickplaceIs

LEMMA BottleIs ==
  ASSUME NEW s \in DOMAIN Suites, NEW tier, NEW i \in BottleItems(s, tier), i.reasons = {}
  PROVE  Ordered(i, s)
<1> DEFINE scene == Suites[s].scene
           asset(id) == AssetOf(scene, id)
           at(id) == AtOf(scene, id)
           wants == { p \in ToSet(Suites[s].goal) : p.type = "inside" /\ {p.of, p.in} \subseteq DOMAIN scene.assets }
<1>0. SceneIsGiven(scene)
  BY SceneOf
<1>1. PICK g \in wants :
        i = PlaceItem(s, tier, g, AdmitPickplace(asset(g.of), at(g.of), asset(g.in)),
                      MultiBinding(g.of, asset(g.of), g.in, asset(g.in)),
                      ScorePickplace(asset(g.of), at(g.of), asset(g.in), at(g.in)))
  BY DEF BottleItems
<1> DEFINE reasons == AdmitPickplace(asset(g.of), at(g.of), asset(g.in))
           binding == MultiBinding(g.of, asset(g.of), g.in, asset(g.in))
           score == ScorePickplace(asset(g.of), at(g.of), asset(g.in), at(g.in))
<1>2. reasons = {} => score \in Int
  <2>1. \A id : at(id) = Nowhere \/ at(id) \in Position
    BY <1>0, AtIs
  <2> QED
    BY <2>1, AcceptedPlace
<1>3. IsList(binding.picks) /\ IsList(binding.hints)
  BY <1>0, BindingLists
<1>4. {g.of, g.in} \subseteq DOMAIN Suites[s].scene.assets
  OBVIOUS
<1> HIDE DEF reasons, binding, score
<1>5. i = PlaceItem(s, tier, g, reasons, binding, score)
  BY <1>1 DEF reasons, binding, score
<1> HIDE DEF wants
<1> QED
  BY <1>2, <1>3, <1>4, <1>5, PlaceIs

LEMMA PairIs ==
  ASSUME NEW s \in DOMAIN Suites, NEW tier, NEW i \in PairItems(s, tier), i.reasons = {}
  PROVE  Ordered(i, s)
<1> DEFINE scene == Suites[s].scene
           pairs == UNION { ToSet(objects) \X ToSet(objects) : objects \in TowersOf(Suites[s].goal) }
           wants == { q \in pairs : q[1] # q[2] /\ ToSet(q) \subseteq DOMAIN scene.assets }
<1>0. SceneIsGiven(scene)
  BY SceneOf
<1>1. PICK p \in wants :
        i = PlaceItem(s, tier, Stacked(p[1], p[2]), PairReasons(scene, p[1], p[2]),
                      PairBinding(scene, p[1], p[2]), PairScore(scene, p[1], p[2]))
  BY DEF PairItems
<1> DEFINE goal == Stacked(p[1], p[2])
           reasons == PairReasons(scene, p[1], p[2])
           binding == PairBinding(scene, p[1], p[2])
           score == PairScore(scene, p[1], p[2])
<1>2. reasons = {} => score \in Int
  BY <1>0, AcceptedPair
<1>3. IsList(binding.picks) /\ IsList(binding.hints)
  BY <1>0, BindingLists DEF PairBinding
<1>4. goal.of = p[1] /\ goal.in = p[2]
  BY DEF Stacked
<1>5. p[1] \in DOMAIN scene.assets /\ p[2] \in DOMAIN scene.assets
  <2>1. p = <<p[1], p[2]>> /\ ToSet(p) \subseteq DOMAIN scene.assets
    OBVIOUS
  <2>2. p[1] \in ToSet(p) /\ p[2] \in ToSet(p)
    <3>1. 1 \in DOMAIN p /\ 2 \in DOMAIN p
      BY <2>1
    <3> QED
      BY <3>1 DEF ToSet
  <2> QED
    BY <2>1, <2>2
<1>6. {goal.of, goal.in} \subseteq DOMAIN Suites[s].scene.assets
  BY <1>4, <1>5
<1> HIDE DEF reasons, binding, score, goal
<1>7. i = PlaceItem(s, tier, goal, reasons, binding, score)
  BY <1>1 DEF reasons, binding, score, goal
<1> HIDE DEF wants
<1> QED
  BY <1>2, <1>3, <1>6, <1>7, PlaceIs

LEMMA TowersAreListed ==
  ASSUME NEW s \in DOMAIN Suites, NEW objects \in TowersOf(Suites[s].goal)
  PROVE  Listed(objects)
<1> DEFINE goal == Suites[s].goal
<1>1. PICK g \in ToSet(goal) : objects = IF g.type = "tower" THEN g.objects ELSE <<g.in, g.of>>
  BY DEF TowersOf
<1>2. PICK n \in DOMAIN goal : g = goal[n]
  BY DEF ToSet
<1>3. CASE g.type = "tower"
  BY <1>1, <1>2, <1>3, SceneOf DEF GoalIsGiven
<1>4. CASE g.type # "tower"
  BY <1>1, <1>4 DEF Listed
<1> QED
  BY <1>3, <1>4

(* Which chain a tower item is made from.                                  *)
MadeFrom(i, s, tier, objects, chains, v) ==
  /\ objects \in TowersOf(Suites[s].goal) /\ Len(objects) >= 3
  /\ chains = ChooseChains(Suites[s].scene, objects) /\ v \in DOMAIN chains
  /\ i = TowerItem(s, tier, chains[v], StackSteps(Suites[s].scene, chains[v]), v)

(* An item of a tower comes from one of the variants that are chosen for   *)
(* its objects.                                                            *)
LEMMA TowerFrom ==
  ASSUME NEW s, NEW tier, NEW i \in TowerItems(s, tier)
  PROVE  \E objects, chains, v : MadeFrom(i, s, tier, objects, chains, v)
<1> DEFINE scene == Suites[s].scene
           big == { o \in TowersOf(Suites[s].goal) : Len(o) >= 3 }
           towers == { ChooseChains(scene, objects) : objects \in big }
           made(chains, v) == TowerItem(s, tier, chains[v], StackSteps(scene, chains[v]), v)
<1>1. PICK chains \in towers : i \in { made(chains, v) : v \in DOMAIN chains }
  BY DEF TowerItems
<1>2. PICK v \in DOMAIN chains : i = made(chains, v)
  BY <1>1
<1>3. PICK objects \in big : chains = ChooseChains(scene, objects)
  OBVIOUS
<1> QED
  BY <1>2, <1>3 DEF MadeFrom

LEMMA TowerFields ==
  ASSUME NEW s, NEW tier, NEW i, NEW objects, NEW chains, NEW v, MadeFrom(i, s, tier, objects, chains, v)
  PROVE  LET scene == Suites[s].scene  chain == chains[v]  steps == StackSteps(scene, chain) IN
         /\ i.suite = s /\ i.key = <<"stateful">> \o chain /\ i.reasons = AdmitStackChain(scene, chain)
         /\ i.success = [n \in DOMAIN steps |-> steps[n].success]
         /\ i.binding = PairBinding(scene, chain[2], chain[1])
         /\ i.score = ScoreStackChain(scene, chain) - (v - 1) * 10 /\ i.plan = steps
         /\ i.targetAt = AtOf(scene, chain[2])
<1> DEFINE scene == Suites[s].scene
           chain == chains[v]
           steps == StackSteps(scene, chain)
           key == <<"stateful">> \o chain
           success == [n \in DOMAIN steps |-> steps[n].success]
           reasons == AdmitStackChain(scene, chain)
           binding == PairBinding(scene, chain[2], chain[1])
           score == ScoreStackChain(scene, chain) - (v - 1) * 10
<1>1. i = Item(s, key, tier, chain[2], chain[1], success, reasons, binding, score, steps)
  BY DEF MadeFrom, TowerItem
<1> HIDE DEF steps, key, success, reasons, binding, score
<1>2. /\ i.suite = s /\ i.key = key /\ i.success = success /\ i.reasons = reasons
      /\ i.binding = binding /\ i.score = score /\ i.plan = steps
      /\ i.targetAt = AtOf(scene, chain[2])
  BY <1>1, ItemFields
<1> QED
  BY <1>2 DEF steps, key, success, reasons, binding, score

LEMMA TowerKeyOf ==
  ASSUME NEW s, NEW tier, NEW i, NEW objects, NEW chains, NEW v, MadeFrom(i, s, tier, objects, chains, v)
  PROVE  i.key = <<"stateful">> \o chains[v]
<1> DEFINE chain == chains[v]
           steps == StackSteps(Suites[s].scene, chain)
<1>1. /\ i.suite = s /\ i.key = <<"stateful">> \o chain
      /\ i.success = [n \in DOMAIN steps |-> steps[n].success]
  BY TowerFields
<1> QED
  BY <1>1

LEMMA TowerItemIs ==
  ASSUME NEW s \in DOMAIN Suites, NEW tier, NEW i \in TowerItems(s, tier)
  PROVE  Ordered(i, s)
<1>1. PICK objects, chains, v : MadeFrom(i, s, tier, objects, chains, v)
  BY TowerFrom
<1> DEFINE scene == Suites[s].scene
           chain == chains[v]
           steps == StackSteps(scene, chain)
<1>2. /\ i.suite = s /\ i.key = <<"stateful">> \o chain
      /\ i.success = [n \in DOMAIN steps |-> steps[n].success]
      /\ i.binding = PairBinding(scene, chain[2], chain[1])
      /\ i.score = ScoreStackChain(scene, chain) - (v - 1) * 10 /\ i.plan = steps
      /\ i.targetAt = AtOf(scene, chain[2])
  BY <1>1, TowerFields
<1>0. SceneIsGiven(scene)
  BY SceneOf
<1>3. Listed(objects) /\ Len(objects) >= 3
  BY <1>1, TowersAreListed DEF MadeFrom
<1>4. v \in Nat /\ chain \in Towers(scene, objects)
  BY <1>0, <1>1, <1>3, ChosenTowers DEF MadeFrom
<1> HIDE DEF chain
<1>5. /\ Len(chain) \in Nat \ {0} /\ DOMAIN chain = 1..Len(chain) /\ Injective(chain)
      /\ chain \in Keys /\ Len(chain) <= Cardinality(ToSet(Names)) /\ Cardinality(ToSet(Names)) \in Nat
      /\ ScoreStackChain(scene, chain) \in Int
  BY <1>0, <1>3, <1>4, TowerIs
<1>6. i.key \in NamedUpTo(LongestKey)
  <2>1. <<"stateful">> \in Keys /\ Len(<<"stateful">>) = 1
    BY SuitesAssumption DEF SuitesAssumption, Keys
  <2>2. <<"stateful">> \o chain \in Keys /\ Len(<<"stateful">> \o chain) = 1 + Len(chain)
    BY <1>5, <2>1 DEF Keys
  <2> QED
    BY <1>2, <1>5, <2>2 DEF NamedUpTo, LongestKey
<1>7. IsList(i.binding.picks) /\ IsList(i.binding.hints)
  BY <1>0, <1>2, BindingLists DEF PairBinding
<1>8. i.targetAt = Nowhere \/ i.targetAt \in Position
  BY <1>0, <1>2, AtIs
<1>9. i.score \in Int
  BY <1>2, <1>4, <1>5
<1>10. Builds(i, chain)
  <2> HIDE DEF steps, scene
  <2>1. i.suite = s /\ i.plan = steps /\ i.success = [n \in DOMAIN i.plan |-> i.plan[n].success]
    BY <1>2
  <2> QED
    BY <1>2, <1>5, <2>1 DEF Builds, steps, scene
<1> HIDE DEF steps, scene
<1> QED
  BY <1>2, <1>6, <1>7, <1>8, <1>9, <1>10 DEF Ordered, Prepared

-----------------------------------------------------------------------------
(* The key of an item tells it from the others of its suite.               *)
LEMMA SamePickup ==
  ASSUME NEW s, NEW tier, NEW a \in PickupItems(s, tier), NEW b \in PickupItems(s, tier)
  PROVE  a = b
BY DEF PickupItems

LEMMA PlaceKey ==
  ASSUME NEW s, NEW tier, NEW goal, NEW reasons, NEW binding, NEW score,
         NEW i, i = PlaceItem(s, tier, goal, reasons, binding, score)
  PROVE  i.key = <<goal.of, goal.in>>
<1> DEFINE total == ScoreIf(reasons, score) + ExecutionBonus(binding, AtOf(Suites[s].scene, goal.of), AtOf(Suites[s].scene, goal.in))
<1>1. i = Item(s, <<goal.of, goal.in>>, tier, goal.of, goal.in, <<goal>>, reasons, binding, total, <<>>)
  BY DEF PlaceItem
<1> HIDE DEF total
<1> QED
  BY <1>1, ItemFields

LEMMA SameBottle ==
  ASSUME NEW s \in DOMAIN Suites, NEW tier, NEW a \in BottleItems(s, tier), NEW b \in BottleItems(s, tier), a.key = b.key
  PROVE  a = b
<1> DEFINE scene == Suites[s].scene
           asset(id) == AssetOf(scene, id)
           at(id) == AtOf(scene, id)
           wants == { p \in ToSet(Suites[s].goal) : p.type = "inside" /\ {p.of, p.in} \subseteq DOMAIN scene.assets }
           made(g) == PlaceItem(s, tier, g, AdmitPickplace(asset(g.of), at(g.of), asset(g.in)),
                      MultiBinding(g.of, asset(g.of), g.in, asset(g.in)),
                      ScorePickplace(asset(g.of), at(g.of), asset(g.in), at(g.in)))
<1>1. (\E g \in wants : a = made(g)) /\ (\E g \in wants : b = made(g))
  BY DEF BottleItems
<1>2. PICK g \in wants : a = made(g)
  BY <1>1
<1>3. PICK h \in wants : b = made(h)
  BY <1>1
<1>4. \A p \in wants : p = Inside(p.of, p.in)
  <2> TAKE p \in wants
  <2>1. p \in ToSet(Suites[s].goal) /\ p.type = "inside"
    OBVIOUS
  <2> QED
    BY <2>1, SceneOf DEF GoalIsGiven, ToSet
<1>5. a.key = <<g.of, g.in>> /\ b.key = <<h.of, h.in>>
  BY <1>2, <1>3, PlaceKey
<1> HIDE DEF wants, made
<1>6. g.of = h.of /\ g.in = h.in
  <2>1. <<g.of, g.in>> = <<h.of, h.in>>
    BY <1>5
  <2> QED
    BY <2>1
<1>7. g = h
  BY <1>4, <1>6
<1> QED
  BY <1>2, <1>3, <1>7

(* A pair item is the item of its key.                                     *)
PairOf(s, tier, p) ==
  LET scene == Suites[s].scene IN
  PlaceItem(s, tier, Stacked(p[1], p[2]), PairReasons(scene, p[1], p[2]),
            PairBinding(scene, p[1], p[2]), PairScore(scene, p[1], p[2]))

LEMMA PairKey ==
  ASSUME NEW s \in DOMAIN Suites, NEW tier, NEW i \in PairItems(s, tier)
  PROVE  /\ i = PairOf(s, tier, i.key) /\ Len(i.key) = 2
         /\ i.key[1] \in DOMAIN Suites[s].scene.assets
<1> DEFINE scene == Suites[s].scene
           pairs == UNION { ToSet(objects) \X ToSet(objects) : objects \in TowersOf(Suites[s].goal) }
           wants == { q \in pairs : q[1] # q[2] /\ ToSet(q) \subseteq DOMAIN scene.assets }
<1>1. PICK p \in wants : i = PairOf(s, tier, p)
  BY DEF PairItems, PairOf
<1>2. i.key = <<Stacked(p[1], p[2]).of, Stacked(p[1], p[2]).in>>
  BY <1>1, PlaceKey DEF PairOf
<1>3. i.key = <<p[1], p[2]>>
  BY <1>2 DEF Stacked
<1>4. p = <<p[1], p[2]>> /\ ToSet(p) \subseteq DOMAIN scene.assets
  OBVIOUS
<1>5. p[1] \in ToSet(p)
  <2>1. 1 \in DOMAIN p
    BY <1>4
  <2> QED
    BY <2>1 DEF ToSet
<1> HIDE DEF wants
<1>6. i.key = p
  BY <1>3, <1>4
<1> QED
  BY <1>1, <1>3, <1>4, <1>5, <1>6

LEMMA TowerKey ==
  ASSUME NEW a \in Keys, NEW b \in Keys, <<"stateful">> \o a = <<"stateful">> \o b
  PROVE  a = b
<1>1. /\ Len(a) \in Nat /\ DOMAIN a = 1..Len(a) /\ Len(b) \in Nat /\ DOMAIN b = 1..Len(b)
      /\ a = [k \in DOMAIN a |-> a[k]] /\ b = [k \in DOMAIN b |-> b[k]]
  BY KeyIs DEF Keys
<1>2. <<"stateful">> \in Keys /\ Len(<<"stateful">>) = 1
  BY SuitesAssumption DEF SuitesAssumption, Keys
<1>3. \A c \in Keys : /\ Len(<<"stateful">> \o c) = 1 + Len(c)
                      /\ \A k \in 1..Len(c) : (<<"stateful">> \o c)[k + 1] = c[k]
  BY <1>2 DEF Keys
<1>4. Len(a) = Len(b)
  <2>1. 1 + Len(a) = Len(<<"stateful">> \o a) /\ 1 + Len(b) = Len(<<"stateful">> \o b)
    BY <1>3
  <2>2. 1 + Len(a) = 1 + Len(b)
    BY <2>1, Zenon
  <2>3. Len(a) \in Nat /\ Len(b) \in Nat
    BY <1>1
  <2> QED
    BY <2>2, <2>3
<1>5. \A k \in 1..Len(a) : a[k] = b[k]
  BY <1>1, <1>3, <1>4
<1> QED
  BY <1>1, <1>4, <1>5

LEMMA SameTower ==
  ASSUME NEW s \in DOMAIN Suites, NEW tier, NEW a \in TowerItems(s, tier), NEW b \in TowerItems(s, tier), a.key = b.key
  PROVE  a = b
<1> DEFINE scene == Suites[s].scene
<1>0. SceneIsGiven(scene)
  BY SceneOf
<1>1. PICK objects, chains, v : MadeFrom(a, s, tier, objects, chains, v)
  BY TowerFrom
<1>2. PICK others, variants, w : MadeFrom(b, s, tier, others, variants, w)
  BY TowerFrom
<1>3. /\ Listed(objects) /\ Len(objects) >= 3 /\ Listed(others) /\ Len(others) >= 3
      /\ chains = ChooseChains(scene, objects) /\ v \in DOMAIN chains
      /\ variants = ChooseChains(scene, others) /\ w \in DOMAIN variants
  BY <1>1, <1>2, TowersAreListed DEF MadeFrom
<1>4. chains[v] \in Towers(scene, objects) /\ Injective(chains) /\ variants[w] \in Towers(scene, others)
  BY <1>0, <1>3, ChosenTowers
<1>5. /\ chains[v] \in Keys /\ ToSet(chains[v]) = ToSet(objects)
      /\ variants[w] \in Keys /\ ToSet(variants[w]) = ToSet(others)
  BY <1>0, <1>3, <1>4, TowerIs
<1>6. a.key = <<"stateful">> \o chains[v] /\ b.key = <<"stateful">> \o variants[w]
  BY <1>1, <1>2, TowerKeyOf
<1>7. chains[v] = variants[w]
  BY <1>5, <1>6, TowerKey
<1>8. chains = variants
  BY <1>3, <1>5, <1>7, SameObjectsSameTowers
<1>9. v = w
  BY <1>3, <1>4, <1>7, <1>8 DEF Injective
<1> QED
  BY <1>1, <1>2, <1>8, <1>9 DEF MadeFrom

LEMMA TowerKeyIs ==
  ASSUME NEW s \in DOMAIN Suites, NEW tier, NEW i \in TowerItems(s, tier)
  PROVE  i.key[1] = "stateful"
<1>0. SceneIsGiven(Suites[s].scene)
  BY SceneOf
<1>1. PICK objects, chains, v : MadeFrom(i, s, tier, objects, chains, v)
  BY TowerFrom
<1>2. Listed(objects) /\ Len(objects) >= 3 /\ chains = ChooseChains(Suites[s].scene, objects) /\ v \in DOMAIN chains
  BY <1>1, TowersAreListed DEF MadeFrom
<1>3. chains[v] \in Keys
  BY <1>0, <1>2, ChosenTowers, TowerIs
<1>4. i.key = <<"stateful">> \o chains[v]
  BY <1>1, TowerKeyOf
<1>5. <<"stateful">> \in Keys /\ Len(<<"stateful">>) = 1
  BY SuitesAssumption DEF SuitesAssumption, Keys
<1> QED
  BY <1>3, <1>4, <1>5 DEF Keys

LEMMA KindsOf ==
  ASSUME NEW s, NEW tier, NEW i \in ItemsOf(s, tier)
  PROVE  \/ ItemsOf(s, tier) = BottleItems(s, tier)
         \/ ItemsOf(s, tier) = PickupItems(s, tier)
         \/ ItemsOf(s, tier) \subseteq PairItems(s, tier) \cup TowerItems(s, tier)
BY DEF ItemsOf

LEMMA ItemOrdered ==
  ASSUME NEW s \in DOMAIN Suites, NEW tier, NEW i \in ItemsOf(s, tier), i.reasons = {}
  PROVE  Ordered(i, s)
BY KindsOf, PickupIs, BottleIs, PairIs, TowerItemIs

LEMMA PairNotTower ==
  ASSUME NEW s \in DOMAIN Suites, NEW tier, NEW a \in PairItems(s, tier), NEW b \in TowerItems(s, tier)
  PROVE  a.key # b.key
<1>1. a.key[1] \in DOMAIN Suites[s].scene.assets
  BY PairKey
<1>2. a.key[1] # "stateful"
  BY <1>1, SceneOf DEF SceneIsGiven
<1> QED
  BY <1>2, TowerKeyIs

(* Two items of one suite with the same key are one: the pool can be       *)
(* ordered by score, scene and key.                                        *)
LEMMA SameItem ==
  ASSUME NEW s \in DOMAIN Suites, NEW tier, NEW a \in ItemsOf(s, tier), NEW b \in ItemsOf(s, tier), a.key = b.key
  PROVE  a = b
<1>1. CASE ItemsOf(s, tier) = BottleItems(s, tier)
  BY <1>1, SameBottle
<1>2. CASE ItemsOf(s, tier) = PickupItems(s, tier)
  BY <1>2, SamePickup
<1>3. CASE ItemsOf(s, tier) \subseteq PairItems(s, tier) \cup TowerItems(s, tier)
  <2>1. CASE a \in PairItems(s, tier) /\ b \in PairItems(s, tier)
    <3>1. a = PairOf(s, tier, a.key) /\ b = PairOf(s, tier, b.key)
      BY <2>1, PairKey
    <3> QED
      BY <3>1
  <2>2. CASE a \in TowerItems(s, tier) /\ b \in TowerItems(s, tier)
    BY <2>2, SameTower
  <2>3. CASE a \in PairItems(s, tier) /\ b \in TowerItems(s, tier)
    BY <2>3, PairNotTower
  <2>4. CASE a \in TowerItems(s, tier) /\ b \in PairItems(s, tier)
    BY <2>4, PairNotTower
  <2> QED
    BY <1>3, <2>1, <2>2, <2>3, <2>4
<1> QED
  BY <1>1, <1>2, <1>3, KindsOf

(* Whatever is in the pool can be prepared, and a pool that is not empty   *)
(* has a first item.                                                       *)
LEMMA PoolIs ==
  ASSUME NEW classes, NEW tier, NEW maxScenes, NEW pool, pool = DiscoverTaskPool(classes, tier, maxScenes)
  PROVE  /\ \A n \in DOMAIN pool : Prepared(pool[n])
         /\ pool # <<>> => 1 \in DOMAIN pool
<1> DEFINE of(c) == { s \in DOMAIN Suites : Suites[s].class = c }
           scanned == UNION { { s \in of(c) : Cardinality({ r \in of(c) : r < s }) < maxScenes } : c \in classes }
           items == Accepted(UNION { ItemsOf(s, tier) : s \in scanned })
           sooner(i, j) == \/ i.score > j.score
                           \/ /\ i.score = j.score
                              /\ i.suite < j.suite \/ (i.suite = j.suite /\ Earlier(i.key, j.key))
           before == { r \in items \X items : sooner(r[1], r[2]) }
           keys == (DOMAIN Suites) \X NamedUpTo(LongestKey)
           f == [i \in items |-> <<i.suite, i.key>>]
<1>1. pool = InOrder(items, before)
  BY DEF DiscoverTaskPool
<1>2. \A i \in items : \E s \in DOMAIN Suites : i \in ItemsOf(s, tier) /\ i.reasons = {}
  <2> TAKE i \in items
  <2>1. i \in UNION { ItemsOf(s, tier) : s \in scanned } /\ i.reasons = {}
    BY DEF Accepted
  <2>2. PICK s \in scanned : i \in ItemsOf(s, tier)
    BY <2>1
  <2>3. s \in DOMAIN Suites
    OBVIOUS
  <2> QED
    BY <2>1, <2>2, <2>3
<1> HIDE DEF items
<1>3. \A i \in items : \E s \in DOMAIN Suites : i \in ItemsOf(s, tier) /\ Ordered(i, s)
  BY <1>2, ItemOrdered
<1>4. \A i \in items : /\ i.suite \in DOMAIN Suites /\ i \in ItemsOf(i.suite, tier)
                       /\ i.score \in Int /\ i.key \in NamedUpTo(LongestKey) /\ Prepared(i)
  BY <1>3 DEF Ordered
<1>5. \A i, j \in items : i.suite = j.suite /\ i.key = j.key => i = j
  BY <1>4, SameItem
<1>6. \A s \in DOMAIN Suites : s \in Int
  BY SuitesAssumption DEF SuitesAssumption, Listed
<1>7. \A i \in items : i.key \in Keys /\ i.suite \in Int /\ i.score \in Int
  BY <1>4, <1>6 DEF NamedUpTo
<1>8. IsFiniteSet(items)
  <2>1. IsFiniteSet(keys)
    <3>1. IsFiniteSet(DOMAIN Suites)
      BY SuitesAssumption, FS_Interval DEF SuitesAssumption, Listed
    <3>2. IsFiniteSet(NamedUpTo(LongestKey))
      BY LongestIs, KeysFinite
    <3> QED
      BY <3>1, <3>2, FS_Product
  <2>2. f \in [items -> keys]
    BY <1>4
  <2>3. \A i, j \in items : f[i] = f[j] => i = j
    <3> SUFFICES ASSUME NEW i \in items, NEW j \in items, f[i] = f[j] PROVE i = j
      OBVIOUS
    <3>1. <<i.suite, i.key>> = <<j.suite, j.key>>
      OBVIOUS
    <3>2. i.suite = j.suite /\ i.key = j.key
      BY <3>1
    <3> QED
      BY <3>2, <1>5
  <2> HIDE DEF f, keys
  <2>4. f \in Injection(items, keys)
    BY <2>2, <2>3 DEF Injection, IsInjective
  <2> QED
    BY <2>1, <2>4, FS_Injection
<1>9. Puts(items, before)
  <2>1. \A i \in items : <<i, i>> \notin before
    BY <1>7, EarlierNotItself
  <2>2. \A i, j \in items : i # j => <<i, j>> \in before \/ <<j, i>> \in before
    <3> SUFFICES ASSUME NEW i \in items, NEW j \in items, i # j PROVE sooner(i, j) \/ sooner(j, i)
      OBVIOUS
    <3>1. i.suite # j.suite \/ i.key # j.key
      BY <1>5
    <3>2. i.key # j.key => Earlier(i.key, j.key) \/ Earlier(j.key, i.key)
      BY <1>7, EarlierEither
    <3> QED
      BY <1>7, <3>1, <3>2
  <2>3. \A i, j, k \in items : <<i, j>> \in before /\ <<j, k>> \in before => <<i, k>> \in before
    <3> SUFFICES ASSUME NEW i \in items, NEW j \in items, NEW k \in items, sooner(i, j), sooner(j, k) PROVE sooner(i, k)
      OBVIOUS
    <3>1. Earlier(i.key, j.key) /\ Earlier(j.key, k.key) => Earlier(i.key, k.key)
      BY <1>7, EarlierOn
    <3> QED
      BY <1>7, <3>1
  <2> QED
    BY <2>1, <2>2, <2>3 DEF Puts
<1> HIDE DEF before
<1>10. /\ pool \in [1..Cardinality(items) -> items] /\ Cardinality(items) \in Nat
  BY <1>1, <1>8, <1>9, InOrderEnumerates, FS_CardinalityType DEF Enumerates
<1>11. pool # <<>> => 1 \in DOMAIN pool
  <2> SUFFICES ASSUME 1 \notin DOMAIN pool PROVE pool = <<>>
    OBVIOUS
  <2>1. Cardinality(items) = 0
    BY <1>10
  <2> QED
    BY <1>10, <2>1
<1> QED
  BY <1>4, <1>10, <1>11

-----------------------------------------------------------------------------
(* A label that is put first in a binding leaves the plan as it is.        *)
LEMMA LabelKeepsPlan ==
  ASSUME NEW chosen, Prepared(chosen), NEW label, NEW i, i = WithPickLabel(chosen, label)
  PROVE  Prepared(i)
<1>1. CASE ~IsLabel(label)
  BY <1>1 DEF WithPickLabel
<1>2. CASE IsLabel(label)
  <2> DEFINE picks == Dedupe(<<label>> \o chosen.binding.picks)
             hints == Dedupe(<<label>> \o chosen.binding.hints)
  <2>1. /\ i.suite = chosen.suite /\ i.plan = chosen.plan /\ i.success = chosen.success
        /\ i.targetAt = chosen.targetAt
    BY <1>2 DEF WithPickLabel
  <2>2. /\ i.binding.picks = chosen.binding.picks \/ i.binding.picks = picks
        /\ i.binding.hints = chosen.binding.hints \/ i.binding.hints = hints
    <3>1. i = [chosen EXCEPT !.binding.pick = label,
                             !.binding.picks = Dedupe(<<label>> \o @),
                             !.binding.hints = Dedupe(<<label>> \o @)]
      BY <1>2 DEF WithPickLabel
    <3> DEFINE new == [chosen.binding EXCEPT !.pick = label, !.picks = picks, !.hints = hints]
    <3>2. i = [chosen EXCEPT !.binding = new]
      BY <3>1
    <3>3. new.picks = chosen.binding.picks \/ new.picks = picks
      <4> HIDE DEF picks, hints
      <4> QED
        OBVIOUS
    <3>4. new.hints = chosen.binding.hints \/ new.hints = hints
      <4> HIDE DEF picks, hints
      <4> QED
        OBVIOUS
    <3> HIDE DEF new, picks, hints
    <3>5. i.binding = new \/ i.binding = chosen.binding
      BY <3>2
    <3> QED
      BY <3>3, <3>4, <3>5
  <2>4. IsList(picks) /\ IsList(hints)
    BY OneIsList, BothAreLists, DedupeIsList DEF Prepared
  <2> HIDE DEF picks, hints
  <2>5. IsList(i.binding.picks) /\ IsList(i.binding.hints)
    BY <2>2, <2>4 DEF Prepared
  <2>6. \A chain : Builds(chosen, chain) => Builds(i, chain)
    BY <2>1 DEF Builds
  <2> QED
    BY <2>1, <2>5, <2>6 DEF Prepared
<1> QED
  BY <1>1, <1>2

(* A tower of n objects is built in n - 1 steps.                           *)
LEMMA StepsAre ==
  ASSUME NEW scene, NEW chain, Len(chain) \in Nat, NEW steps, steps = StackSteps(scene, chain)
  PROVE  /\ DOMAIN steps = 1..(Len(chain) - 1)
         /\ Len(chain) # 0 => Len(steps) = Len(chain) - 1
         /\ IsList(steps)
<1> DEFINE N == Len(chain)
           each(i) == StackStep(scene, i, chain[i + 1], chain[i], PairBinding(scene, chain[i + 1], chain[i]))
<1>0. N \in Nat
  OBVIOUS
<1>1. steps = [i \in 1..(N - 1) |-> each(i)]
  BY DEF StackSteps
<1> HIDE DEF each, N
<1>3. DOMAIN steps = 1..(N - 1) /\ \A i \in 1..(N - 1) : steps[i] = each(i)
  BY <1>1
<1>4. steps = [i \in 1..(N - 1) |-> steps[i]]
  BY <1>1, <1>3
<1>5. IsList(steps) /\ (N # 0 => Len(steps) = N - 1)
  <2>1. CASE N = 0
    <3>1. 1..(N - 1) = 1..0
      BY <2>1
    <3>2. steps = [i \in 1..0 |-> steps[i]]
      BY <1>4, <3>1
    <3> QED
      BY <2>1, <3>2, CountedIsList
  <2>2. CASE N # 0
    <3>1. N - 1 \in Nat
      BY <1>0, <2>2
    <3> QED
      BY <1>4, <3>1, CountedIsList
  <2> QED
    BY <2>1, <2>2
<1> QED
  BY <1>3, <1>5 DEF N

(* Step i puts object i + 1 on object i, which is the top of what stands.  *)
LEMMA StepIs ==
  ASSUME NEW scene, NEW chain, NEW steps, steps = StackSteps(scene, chain), NEW i \in DOMAIN steps
  PROVE  /\ steps[i].source = chain[i + 1] /\ steps[i].support = chain[i]
         /\ steps[i].success = Stacked(chain[i + 1], chain[i])
         /\ steps[i].pickArg = PickArg(i) /\ steps[i].placeArg = PlaceArg(i)
         /\ steps[i].sourceAt = AtOf(scene, chain[i + 1])
         /\ steps[i].picks = PairBinding(scene, chain[i + 1], chain[i]).picks
<1> DEFINE each(k) == StackStep(scene, k, chain[k + 1], chain[k], PairBinding(scene, chain[k + 1], chain[k]))
<1>1. steps = [k \in 1..(Len(chain) - 1) |-> each(k)]
  BY DEF StackSteps
<1>2. \A k : /\ each(k).source = chain[k + 1] /\ each(k).support = chain[k]
             /\ each(k).success = Stacked(chain[k + 1], chain[k])
             /\ each(k).pickArg = PickArg(k) /\ each(k).placeArg = PlaceArg(k)
             /\ each(k).sourceAt = AtOf(scene, chain[k + 1])
             /\ each(k).picks = PairBinding(scene, chain[k + 1], chain[k]).picks
  BY DEF StackStep
<1> HIDE DEF each
<1>3. steps[i] = each(i)
  BY <1>1
<1> QED
  BY <1>2, <1>3

(* The steps along a chain of different objects build one tower: each      *)
(* object is moved once, after the one under it, and nothing is on either  *)
(* when it is.                                                             *)
LEMMA ChainStands ==
  ASSUME Prepared(item)
  PROVE  TowerStands
<1> SUFFICES ASSUME item.plan # <<>> PROVE TowerStands
  BY DEF TowerStands
<1>0. PICK it : it = item
  OBVIOUS
<1>1. PICK chain : Builds(it, chain)
  BY <1>0 DEF Prepared
<1> DEFINE steps == it.plan
           N == Len(chain)
           scene == Suites[it.suite].scene
<1>2. N \in Nat /\ DOMAIN chain = 1..N /\ (\A i, j \in 1..N : i # j => chain[i] # chain[j])
  BY <1>1 DEF Builds, Injective
<1>3. steps = StackSteps(scene, chain) /\ it.success = [n \in DOMAIN steps |-> steps[n].success]
  BY <1>1 DEF Builds
<1> HIDE DEF scene
<1>4. /\ DOMAIN steps = 1..(N - 1) /\ (N # 0 => Len(steps) = N - 1) /\ IsList(steps)
      /\ \A i \in DOMAIN steps : /\ steps[i].source = chain[i + 1] /\ steps[i].support = chain[i]
                                /\ steps[i].success = Stacked(chain[i + 1], chain[i])
  <2>1. steps = StackSteps(scene, chain)
    BY <1>3
  <2>2. Len(chain) \in Nat
    BY <1>2
  <2> HIDE DEF steps, N
  <2>3. /\ DOMAIN steps = 1..(Len(chain) - 1)
        /\ Len(chain) # 0 => Len(steps) = Len(chain) - 1
        /\ IsList(steps)
    BY <2>1, <2>2, StepsAre
  <2>4. \A i \in DOMAIN steps : /\ steps[i].source = chain[i + 1] /\ steps[i].support = chain[i]
                               /\ steps[i].success = Stacked(chain[i + 1], chain[i])
    BY <2>1, StepIs
  <2> QED
    BY <2>3, <2>4 DEF N
<1> DEFINE under(n, id) == { steps[i].support : i \in { j \in 1..n : steps[j].source = id } }
           free(n, id) == \A i \in 1..n : steps[i].support # id \/ \E j \in (i + 1)..n : steps[j].source = steps[i].source
<1>5. N >= 2
  <2>1. Len(steps) \in Nat /\ DOMAIN steps = 1..Len(steps)
    BY <1>4, ListPlacesAre
  <2>2. Len(steps) # 0
    <3> SUFFICES ASSUME Len(steps) = 0 PROVE FALSE
      OBVIOUS
    <3>1. \E X : steps \in Seq(X)
      BY <1>4 DEF IsList
    <3>2. steps = <<>>
      BY <3>1
    <3> QED
      BY <1>0, <3>2
  <2>3. 1 \in 1..(N - 1)
    BY <2>1, <2>2, <1>4
  <2> QED
    BY <1>2, <2>3
<1> DEFINE L == N - 1
<1>6. L \in Nat /\ N = L + 1 /\ DOMAIN steps = 1..L /\ Len(steps) = L
  <2>1. N \in Nat /\ N >= 2
    BY <1>2, <1>5
  <2>2. DOMAIN steps = 1..(N - 1) /\ Len(steps) = N - 1
    BY <1>4, <2>1
  <2> HIDE DEF steps, N
  <2> QED
    BY <2>1, <2>2
<1>9. DOMAIN it.success = 1..L /\ \A i \in 1..L : it.success[i] = steps[i].success
  BY <1>3, <1>6
<1> HIDE DEF steps, N, L
<1>7. \A i \in 1..L : steps[i].source = chain[i + 1] /\ steps[i].support = chain[i] /\ i \in 1..N /\ i + 1 \in 1..N
  <2>1. \A i \in 1..L : i \in 1..N /\ i + 1 \in 1..N
    BY <1>6
  <2> QED
    BY <1>4, <1>6, <2>1
<1>8. \A i \in 1..L : it.success[i].of = chain[i + 1] /\ it.success[i].in = chain[i]
  <2>1. \A i \in 1..L : steps[i].success = Stacked(chain[i + 1], chain[i])
    BY <1>4, <1>6
  <2>2. \A a, b : Stacked(a, b).of = a /\ Stacked(a, b).in = b
    BY DEF Stacked
  <2> QED
    BY <1>9, <2>1, <2>2
<1>10. \A n \in 1..L : free(n - 1, steps[n].source) /\ free(n - 1, steps[n].support)
  <2> TAKE n \in 1..L
  <2>1. \A i \in 1..(n - 1) : i \in 1..L /\ i # n /\ i # n + 1 /\ n \in Int
    BY <1>6
  <2>2. \A i \in 1..(n - 1) : /\ steps[i].support = chain[i] /\ i \in 1..N /\ n \in 1..N /\ n + 1 \in 1..N
                              /\ steps[n].source = chain[n + 1] /\ steps[n].support = chain[n]
    BY <1>7, <2>1
  <2>3. \A i \in 1..(n - 1) : steps[i].support # steps[n].source /\ steps[i].support # steps[n].support
    BY <1>2, <2>1, <2>2
  <2> QED
    BY <2>3
<1>11. \A i \in 1..L : under(L, it.success[i].of) = {it.success[i].in}
  <2> TAKE i \in 1..L
  <2>1. \A j \in 1..L : steps[j].source = chain[i + 1] <=> j = i
    <3> TAKE j \in 1..L
    <3>1. j # i => j + 1 # i + 1
      BY <1>6
    <3> QED
      BY <1>2, <1>7, <3>1
  <2>2. { j \in 1..L : steps[j].source = chain[i + 1] } = {i}
    BY <2>1
  <2>3. under(L, chain[i + 1]) = {steps[i].support}
    BY <2>2
  <2> QED
    BY <1>7, <1>8, <2>3
<1>12. Cardinality(Involved) = L + 1
  <2>1. Involved = UNION { {steps[i].source, steps[i].support} : i \in 1..L }
    BY <1>0, <1>6 DEF Involved, steps
  <2>2. Involved = { chain[k] : k \in 1..N }
    <3>1. \A i \in 1..L : steps[i].source \in { chain[k] : k \in 1..N } /\ steps[i].support \in { chain[k] : k \in 1..N }
      BY <1>7
    <3>2. \A k \in 1..N : chain[k] \in Involved
      <4> TAKE k \in 1..N
      <4>1. CASE k \in 1..L
        BY <4>1, <1>7, <2>1
      <4>2. CASE k \notin 1..L
        <5>1. k = L + 1 /\ L \in 1..L
          BY <4>2, <1>2, <1>5, <1>6
        <5> QED
          BY <5>1, <1>7, <2>1
      <4> QED
        BY <4>1, <4>2
    <3> QED
      BY <2>1, <3>1, <3>2
  <2> DEFINE f == [k \in 1..N |-> chain[k]]
             S == { chain[k] : k \in 1..N }
  <2>3. f \in Injection(1..N, S)
    BY <1>2 DEF Injection, IsInjective
  <2>4. f \in Surjection(1..N, S)
    BY DEF Surjection
  <2>5. IsFiniteSet(1..N) /\ Cardinality(1..N) = N
    BY <1>2, FS_Interval
  <2> HIDE DEF f, S
  <2>6. Cardinality(S) = N
    BY <2>3, <2>4, <2>5, FS_Surjection, Zenon
  <2> QED
    BY <1>6, <2>2, <2>6 DEF S
<1> QED
  <2>1. /\ \A n \in DOMAIN steps : free(n - 1, steps[n].source) /\ free(n - 1, steps[n].support)
        /\ \A i \in DOMAIN it.success : under(Len(steps), it.success[i].of) = {it.success[i].in}
        /\ Cardinality(Involved) = Len(steps) + 1
    BY <1>6, <1>9, <1>10, <1>11, <1>12
  <2>2. item.plan = steps /\ item = it
    BY <1>0 DEF steps
  <2> QED
    <3> DEFINE below(n, id) == { item.plan[i].support : i \in { j \in 1..n : item.plan[j].source = id } }
               open(n, id) == \A i \in 1..n : \/ item.plan[i].support # id
                                              \/ \E j \in (i + 1)..n : item.plan[j].source = item.plan[i].source
    <3>1. \A n \in DOMAIN item.plan : open(n - 1, item.plan[n].source) /\ open(n - 1, item.plan[n].support)
      <4>1. \A n, id : open(n, id) <=> free(n, id)
        BY <2>2
      <4> HIDE DEF open, free
      <4> QED
        BY <2>1, <2>2, <4>1
    <3>2. \A i \in DOMAIN item.success : below(Len(item.plan), item.success[i].of) = {item.success[i].in}
      <4>1. \A n, id : below(n, id) = under(n, id)
        BY <2>2
      <4> HIDE DEF below, under
      <4> QED
        BY <2>1, <2>2, <4>1
    <3>3. Cardinality(Involved) = Len(item.plan) + 1
      BY <2>1, <2>2
    <3> QED
      BY <3>1, <3>2, <3>3, Zenon DEF TowerStands

-----------------------------------------------------------------------------
(* What is selected is an item of the pool, and stays one.                 *)
PlanKept ==
  /\ stage \notin {"call", "aborted"} => Prepared(item)
  /\ item # NoItem => Prepared(item)

(* An item is selected from a pool that holds it.                          *)
LEMMA SelectedIs ==
  ASSUME NEW pool, \A n \in DOMAIN pool : Prepared(pool[n]), pool # <<>> => 1 \in DOMAIN pool, NEW wish,
         ~(pool = <<>> \/ (wish # <<>> /\ \A i \in DOMAIN pool : TaskId(pool[i]) # wish))
  PROVE  Prepared(Selected(pool, wish))
BY DEF Selected

LEMMA PlanFrame ==
  ASSUME PlanKept, item' = item, stage \notin {"call", "aborted"}
  PROVE  PlanKept'
BY DEF PlanKept

(* No step of a run takes the selected item's plan away or replaces it by  *)
(* another item's.                                                         *)
LEMMA PlanStep ==
  ASSUME PlanKept, [AutoNext]_autoVars
  PROVE  PlanKept'
<1>1. CASE Select
  <2>1. PICK pool, wish, label, tier :
          pool = DiscoverTaskPool(Classes(tier), tier, MaxScenes) /\
          IF pool = <<>> \/ (wish # <<>> /\ \A i \in DOMAIN pool : TaskId(pool[i]) # wish)
          THEN stage' = "aborted" /\ UNCHANGED item
          ELSE stage' = "align" /\ item' = WithPickLabel(Selected(pool, wish), label)
    <3> DEFINE Chooses(pool, wish, label) ==
                 IF pool = <<>> \/ (wish # <<>> /\ \A i \in DOMAIN pool : TaskId(pool[i]) # wish)
                 THEN stage' = "aborted" /\ UNCHANGED item
                 ELSE stage' = "align" /\ item' = WithPickLabel(Selected(pool, wish), label)
    <3>1. PICK tier \in Tiers : \E pool \in { DiscoverTaskPool(Classes(tier), tier, MaxScenes) } :
                                \E wish \in Wishes, label \in OwnLabels : Chooses(pool, wish, label)
      BY <1>1 DEF Select
    <3>2. PICK pool \in { DiscoverTaskPool(Classes(tier), tier, MaxScenes) } :
            \E wish \in Wishes, label \in OwnLabels : Chooses(pool, wish, label)
      BY <3>1
    <3>3. PICK wish \in Wishes, label \in OwnLabels : Chooses(pool, wish, label)
      BY <3>2
    <3>4. pool = DiscoverTaskPool(Classes(tier), tier, MaxScenes) /\ Chooses(pool, wish, label)
      BY <3>3
    <3> HIDE DEF Chooses
    <3>5. \E p, w, l, t : p = DiscoverTaskPool(Classes(t), t, MaxScenes) /\ Chooses(p, w, l)
      BY <3>4
    <3> QED
      BY <3>5 DEF Chooses
  <2>2. (\A n \in DOMAIN pool : Prepared(pool[n])) /\ (pool # <<>> => 1 \in DOMAIN pool)
    BY <2>1, PoolIs
  <2>3. CASE pool = <<>> \/ (wish # <<>> /\ \A i \in DOMAIN pool : TaskId(pool[i]) # wish)
    BY <2>1, <2>3 DEF PlanKept
  <2>4. CASE ~(pool = <<>> \/ (wish # <<>> /\ \A i \in DOMAIN pool : TaskId(pool[i]) # wish))
    <3>1. Prepared(Selected(pool, wish))
      BY <2>2, <2>4, SelectedIs
    <3>2. Prepared(item')
      BY <2>1, <2>4, <3>1, LabelKeepsPlan
    <3> QED
      BY <3>2 DEF PlanKept
  <2> QED
    BY <2>3, <2>4
<1>2. CASE GroundSelection
  <2>1. stage = "ground" /\ Prepared(item)
    BY <1>2 DEF GroundSelection, PlanKept
  <2>2. item' = item \/ \E label : item' = WithPickLabel(item, label)
    <3>1. CASE ~(setting.execute /\ setting.direct) /\ stage' = "generate" /\ UNCHANGED <<item, view>>
      BY <3>1
    <3>2. CASE ~(~(setting.execute /\ setting.direct) /\ stage' = "generate" /\ UNCHANGED <<item, view>>)
      <4>1. \E best : IF best = NoAttempt THEN stage' = "aborted" /\ UNCHANGED item
                      ELSE /\ stage' = "generate"
                           /\ item' = (IF best.label = item.binding.pick THEN item
                                       ELSE WithPickLabel(item, best.label))
        BY <1>2, <3>2 DEF GroundSelection
      <4> QED
        BY <4>1
    <3> QED
      BY <3>1, <3>2
  <2>3. Prepared(item')
    BY <2>1, <2>2, LabelKeepsPlan
  <2> QED
    BY <2>3 DEF PlanKept
<1>3. CASE Align
  BY <1>3, PlanFrame DEF Align, Abort
<1>4. CASE ResetForPreflight
  BY <1>4, PlanFrame DEF ResetForPreflight
<1>5. CASE Generate
  BY <1>5, PlanFrame DEF Generate, Abort
<1>6. CASE CheckArgs
  BY <1>6, PlanFrame DEF CheckArgs
<1>7. CASE CheckEpisode
  BY <1>7, PlanFrame DEF CheckEpisode
<1>8. CASE ResetForEpisode
  BY <1>8, PlanFrame DEF ResetForEpisode
<1>9. CASE Operate
  BY <1>9, PlanFrame DEF Operate
<1>10. CASE JudgeEpisode
  BY <1>10, PlanFrame DEF JudgeEpisode
<1>11. CASE UNCHANGED autoVars
  BY <1>11 DEF autoVars, PlanKept
<1> QED
  BY <1>1, <1>2, <1>3, <1>4, <1>5, <1>6, <1>7, <1>8, <1>9, <1>10, <1>11 DEF AutoNext

(* The item a run works on is one of the pool, with the plan it had there, *)
(* until the run is over: whatever label the preflight and the episode put *)
(* first in its binding (_with_binding_label_overrides), the plan is that  *)
(* of a chain of different objects (_stateful_stack_steps).                *)
THEOREM PlansAreKept == AutoSpec => []PlanKept
<1>1. AutoInit => PlanKept
  BY DEF AutoInit, PlanKept
<1> QED
  BY <1>1, PlanStep, PTL DEF AutoSpec

(* A plan, whatever tower of the pool it is of and whatever label was put  *)
(* first in it, builds that tower: its steps, carried out in their order,  *)
(* take a free object and put it on a free one, and leave every predicate  *)
(* of the task's success true (_stateful_stack_steps).                     *)
THEOREM TowersStand == AutoSpec => []TowerStands
<1>1. PlanKept => TowerStands
  BY ChainStands DEF PlanKept, TowerStands
<1> QED
  BY <1>1, PlansAreKept, PTL

-----------------------------------------------------------------------------
(* The first check of an episode is about the object that is taken first.  *)
LEMMA EpisodeClose ==
  ASSUME NEW i, Prepared(i), NEW seen, Answered(seen), NEW args,
         NEW checks, checks = RuntimeChecks(i.binding, i.plan, i.targetAt, i.placeAt),
         Asked(checks, args) \subseteq DOMAIN seen,
         NEW told, told = Preflight(seen, args, checks),
         NEW first, first = PickArg(IF i.plan = <<>> THEN 0 ELSE 1),
         first \in DOMAIN told.checks, told.checks[first] \in {"ok", "overrode"}
  PROVE  first \in DOMAIN told.args /\ Close(seen, told.args[first], i.targetAt)
<1>1. /\ Len(checks) \in Nat \ {0} /\ 1 \in DOMAIN checks
      /\ checks[1].arg = first /\ checks[1].target = i.targetAt /\ IsList(checks[1].labels)
      /\ ~checks[1].always
      /\ \A k \in 2..Len(checks) : checks[k].arg # checks[1].arg
  <2>1. CASE i.plan = <<>>
    <3>1. first = PickArg(0)
      BY <2>1
    <3>2. IsList(i.binding.picks) /\ IsList(i.binding.hints)
      BY DEF Prepared
    <3> QED
      BY <2>1, <3>1, <3>2, EpisodeChecksAre
  <2>2. CASE i.plan # <<>>
    <3> DEFINE steps == i.plan
               scene == Suites[i.suite].scene
    <3>1. PICK chain : Builds(i, chain)
      BY <2>2 DEF Prepared
    <3>2. i.suite \in DOMAIN Suites
      BY DEF Prepared
    <3>3. SceneIsGiven(scene)
      BY <3>2, SceneOf
    <3>4. Len(chain) \in Nat /\ steps = StackSteps(scene, chain) /\ i.targetAt = AtOf(scene, chain[2])
      BY <3>1 DEF Builds
    <3>5. checks = PlanChecks(steps) /\ first = PickArg(1) /\ steps # <<>>
      BY <2>2 DEF RuntimeChecks
    <3> HIDE DEF steps, scene
    <3>6. IsList(steps) /\ DOMAIN steps = 1..(Len(chain) - 1)
      BY <3>4, StepsAre
    <3>7. 1 \in DOMAIN steps
      <4>1. \E X : steps \in Seq(X)
        BY <3>6 DEF IsList
      <4> QED
        BY <3>5, <4>1
    <3>8. steps[1].sourceAt = i.targetAt
      <4>1. steps[1].sourceAt = AtOf(scene, chain[1 + 1])
        BY <3>4, <3>7, StepIs
      <4> QED
        BY <3>4, <4>1
    <3>9. IsList(steps[1].picks)
      <4>1. steps[1].picks = PairBinding(scene, chain[1 + 1], chain[1]).picks
        BY <3>4, <3>7, StepIs
      <4> QED
        BY <3>3, <4>1, BindingLists DEF PairBinding
    <3>10. \A k \in DOMAIN steps : steps[k].pickArg = PickArg(k) /\ steps[k].placeArg = PlaceArg(k)
      BY <3>4, StepIs
    <3> QED
      BY <3>5, <3>6, <3>8, <3>9, <3>10, PlanChecksAre
  <2> QED
    BY <2>1, <2>2
<1>2. checks[1].target = Nowhere \/ checks[1].target \in Position
  BY <1>1 DEF Prepared
<1>3. ToSet(FirstOf(Dedupe(<<ArgOf(args, checks[1].arg)>> \o checks[1].labels), 10)) \subseteq DOMAIN seen
  BY <1>1, AskedFirst
<1>4. checks[1].arg \in DOMAIN told.checks /\ told.checks[checks[1].arg] \in {"ok", "overrode"}
  BY <1>1
<1>5. checks[1].arg \in DOMAIN told.args /\ Close(seen, told.args[checks[1].arg], checks[1].target)
  BY <1>1, <1>2, <1>3, <1>4, PreflightClose
<1> QED
  BY <1>1, <1>5

-----------------------------------------------------------------------------
(* What the camera reads.                                                  *)
ReadingsAre(labels, reading) ==
  /\ DOMAIN reading = labels \cup DOMAIN view
  /\ \A l \in DOMAIN view : reading[l] = view[l]
  /\ \A l \in labels \ DOMAIN view : reading[l] \in DOMAIN layout \cup {NoId}

LEMMA ReadingIs ==
  ASSUME NEW labels, NEW reading \in Readings(labels)
  PROVE  ReadingsAre(labels, reading)
<1> DEFINE fresh == labels \ DOMAIN view
           seen(l) == (IF Faulty THEN {NoId} ELSE {}) \cup (IF Fits(l) = {} THEN {NoId} ELSE Fits(l))
<1>1. PICK more \in { f \in [fresh -> DOMAIN layout \cup {NoId}] : \A l \in fresh : f[l] \in seen(l) } :
         reading = [l \in labels \cup DOMAIN view |-> IF l \in fresh THEN more[l] ELSE view[l]]
  BY DEF Readings
<1>2. more \in [fresh -> DOMAIN layout \cup {NoId}]
  OBVIOUS
<1> HIDE DEF seen
<1> QED
  BY <1>1, <1>2 DEF ReadingsAre

LaidOut == \A id \in DOMAIN layout : layout[id] \in Position
Read == \A l \in DOMAIN view : view[l] \in DOMAIN layout \cup {NoId}

(* What is read of labels is answered with places of the scene.            *)
LEMMA ReadingSeen ==
  ASSUME LaidOut, Read, NEW labels, NEW reading, ReadingsAre(labels, reading)
  PROVE  /\ Answered(Seen(reading)) /\ DOMAIN Seen(reading) = labels \cup DOMAIN view
         /\ \A l \in DOMAIN reading : reading[l] \in DOMAIN layout \cup {NoId}
<1>1. \A l \in DOMAIN reading : reading[l] \in DOMAIN layout \cup {NoId}
  BY DEF ReadingsAre, Read
<1>2. DOMAIN Seen(reading) = DOMAIN reading
  BY DEF Seen
<1>3. \A l \in DOMAIN reading : Seen(reading)[l] = Nowhere \/ Seen(reading)[l] \in Position
  BY <1>1 DEF Seen, LaidOut
<1> QED
  BY <1>1, <1>2, <1>3 DEF Answered, ReadingsAre

-----------------------------------------------------------------------------
(* What keeps a grasp near its object.                                     *)
FirstPasses == FirstArg \in DOMAIN report.checks /\ report.checks[FirstArg] \in {"ok", "overrode"}
Aimed == FirstArg \in DOMAIN report.args /\ Close(Seen(view), report.args[FirstArg], item.targetAt)

SceneIsShown ==
  /\ stage = "call" => view = <<>>
  /\ stage # "call" => loaded.suite \in DOMAIN Suites
Rested ==
  /\ stage \in {"call", "align", "reset"} => preflight # "ok"
  /\ preflight = "ok" /\ grasped = <<>> => layout = Manifest(loaded.suite)
Counted ==
  \/ grasped = <<>> /\ step = 0
  \/ /\ IsList(grasped) /\ grasped # <<>> /\ step \in Nat \ {0}
     /\ stage \in {"run", "judge", "done"}
Aim == stage \in {"layout", "run"} /\ grasped = <<>> /\ preflight = "ok" /\ FirstPasses => Aimed

GInv == PlanKept /\ LaidOut /\ Read /\ SceneIsShown /\ Rested /\ Counted /\ Aim /\ GraspIsNear

(* A step that moves nothing and does not yet lead to the episode.         *)
LEMMA NothingMoves ==
  ASSUME GInv, PlanKept', Read', UNCHANGED <<loaded, layout, preflight, step, grasped>>,
         stage \notin {"call", "run", "judge", "done"}, stage' \notin {"call", "layout", "run"},
         stage' \in {"align", "reset"} => stage \in {"align", "reset"}
  PROVE  GInv'
<1>1. grasped = <<>> /\ step = 0
  BY DEF GInv, Counted
<1>2. grasped' = <<>> /\ step' = 0
  BY <1>1
<1>3. LaidOut'
  BY DEF GInv, LaidOut
<1>4. SceneIsShown'
  BY DEF GInv, SceneIsShown
<1>5. Rested'
  <2>1. Manifest(loaded'.suite) = Manifest(loaded.suite)
    BY DEF Manifest
  <2> QED
    BY <2>1, <1>1 DEF GInv, Rested
<1>6. Counted' /\ Aim' /\ GraspIsNear'
  BY <1>2 DEF Counted, Aim, GraspIsNear
<1> QED
  BY <1>3, <1>4, <1>5, <1>6 DEF GInv

LEMMA ViewKept ==
  ASSUME GInv, UNCHANGED <<layout, view>>
  PROVE  Read'
BY DEF GInv, Read

LEMMA ViewRead ==
  ASSUME GInv, UNCHANGED layout, NEW labels, NEW reading \in Readings(labels), view' = reading
  PROVE  Read'
<1>1. \A l \in DOMAIN reading : reading[l] \in DOMAIN layout \cup {NoId}
  BY ReadingIs, ReadingSeen DEF GInv
<1> QED
  BY <1>1 DEF Read

(* Each step keeps what a near grasp rests on.                             *)
LEMMA SelectKeeps ==
  ASSUME GInv, PlanKept', Select
  PROVE  GInv'
<1>1. stage = "call" /\ stage' \in {"aborted", "align"} /\ UNCHANGED <<view, preflight, report, step, grasped>>
  BY DEF Select
<1>2. \E s \in DOMAIN Suites : loaded'.suite = s /\ layout' \in {Manifest(s), Left(s)}
  <2>1. \E s \in DOMAIN Suites : \E visible : loaded' = [suite |-> s, visible |-> visible] /\ layout' \in {Manifest(s), Left(s)}
    <3> DEFINE Shows(s, visible) ==
                 loaded' = [suite |-> s, visible |-> visible] /\ layout' \in {Manifest(s), Left(s)}
    <3>1. PICK tier \in Tiers : \E pool \in { DiscoverTaskPool(Classes(tier), tier, MaxScenes) } :
                                \E visible \in BOOLEAN, s \in DOMAIN Suites : Shows(s, visible)
      BY DEF Select
    <3>2. \E visible \in BOOLEAN, s \in DOMAIN Suites : Shows(s, visible)
      BY <3>1
    <3> QED
      BY <3>2
  <2> QED
    BY <2>1
<1>3. grasped = <<>> /\ step = 0 /\ view = <<>> /\ preflight # "ok"
  BY <1>1 DEF GInv, Counted, SceneIsShown, Rested
<1>4. LaidOut'
  <2>1. PICK s \in DOMAIN Suites : layout' \in {Manifest(s), Left(s)}
    BY <1>2
  <2>2. \A id \in DOMAIN Manifest(s) : Manifest(s)[id] \in Position
    BY SceneOf DEF SceneIsGiven, Manifest
  <2>3. \A id \in DOMAIN Left(s) : Left(s)[id] \in Position
    BY RoboDojoAssumption DEF RoboDojoAssumption
  <2> QED
    BY <2>1, <2>2, <2>3 DEF LaidOut
<1>5. Read' /\ SceneIsShown'
  BY <1>1, <1>2, <1>3 DEF Read, SceneIsShown
<1>6. Rested' /\ Counted' /\ Aim' /\ GraspIsNear'
  BY <1>1, <1>3 DEF Rested, Counted, Aim, GraspIsNear
<1> QED
  BY <1>4, <1>5, <1>6 DEF GInv

LEMMA ResetKeeps ==
  ASSUME GInv, PlanKept', ResetForPreflight
  PROVE  GInv'
<1>1. stage = "reset" /\ stage' = "ground" /\ UNCHANGED <<loaded, report, step, grasped>>
  BY DEF ResetForPreflight
<1>2. grasped = <<>> /\ step = 0 /\ preflight # "ok" /\ loaded.suite \in DOMAIN Suites
  BY <1>1 DEF GInv, Counted, Rested, SceneIsShown
<1>3. \/ UNCHANGED <<layout, view, preflight>>
      \/ Settles(Manifest(loaded.suite)) /\ preflight' = "ok"
      \/ (Settles(layout) \/ Settles(Manifest(loaded.suite))) /\ preflight' = "failed"
  BY DEF ResetForPreflight
<1>4. /\ layout' = layout \/ layout' = Manifest(loaded.suite)
      /\ preflight' = "ok" => layout' = Manifest(loaded.suite)
      /\ (layout' = layout /\ view' = view) \/ view' = <<>>
  BY <1>2, <1>3 DEF Settles
<1>5. LaidOut'
  <2>1. \A id \in DOMAIN Manifest(loaded.suite) : Manifest(loaded.suite)[id] \in Position
    BY <1>2, SceneOf DEF SceneIsGiven, Manifest
  <2> QED
    BY <1>4, <2>1 DEF GInv, LaidOut
<1>6. Read' /\ SceneIsShown'
  BY <1>1, <1>2, <1>4 DEF GInv, Read, SceneIsShown
<1>7. Rested'
  BY <1>1, <1>4 DEF Rested, Manifest
<1>8. Counted' /\ Aim' /\ GraspIsNear'
  BY <1>1, <1>2 DEF Counted, Aim, GraspIsNear
<1> QED
  BY <1>5, <1>6, <1>7, <1>8 DEF GInv

LEMMA CheckKeeps ==
  ASSUME GInv, PlanKept', CheckEpisode
  PROVE  GInv'
<1>1. stage = "episode" /\ UNCHANGED <<loaded, item, layout, preflight, step, grasped>>
  BY DEF CheckEpisode
<1>2. CASE ~setting.execute \/ ~setting.direct
  <2>1. stage' = "judge" /\ view' = view
    BY <1>2 DEF CheckEpisode
  <2> QED
    BY <1>1, <2>1, NothingMoves, ViewKept
<1>3. CASE setting.execute /\ setting.direct
  <2>1. PICK reading \in Readings(Asked(EpisodeChecks, skill.args)) :
          view' = reading /\ report' = Preflight(Seen(reading), skill.args, EpisodeChecks)
    BY <1>3 DEF CheckEpisode
  <2>2. stage' \in {"layout", "run"}
    BY <1>3 DEF CheckEpisode
  <2>3. grasped' = <<>> /\ step' = 0 /\ grasped = <<>>
    BY <1>1 DEF GInv, Counted
  <2>4. LaidOut' /\ SceneIsShown' /\ Rested'
    BY <1>1, <2>2, <2>3 DEF GInv, LaidOut, SceneIsShown, Rested, Manifest
  <2>5. Read'
    BY <1>1, <2>1, ViewRead
  <2>6. Counted' /\ GraspIsNear'
    BY <2>3 DEF Counted, GraspIsNear
  <2>7. Aim'
    <3> SUFFICES ASSUME FirstPasses' PROVE Aimed'
      BY DEF Aim
    <3>1. Prepared(item)
      BY <1>1 DEF GInv, PlanKept
    <3>2. Answered(Seen(reading)) /\ Asked(EpisodeChecks, skill.args) \subseteq DOMAIN Seen(reading)
      BY ReadingIs, ReadingSeen DEF GInv
    <3>3. FirstArg' = FirstArg /\ Seen(view)' = Seen(reading)
      BY <1>1, <2>1 DEF FirstArg, Seen
    <3>4. FirstArg \in DOMAIN report'.checks /\ report'.checks[FirstArg] \in {"ok", "overrode"}
      BY <3>3 DEF FirstPasses
    <3> DEFINE first == FirstArg
               told == report'
               checks == EpisodeChecks
               seen == Seen(reading)
    <3>5. first = PickArg(IF item.plan = <<>> THEN 0 ELSE 1) /\ told = Preflight(seen, skill.args, checks)
          /\ checks = RuntimeChecks(item.binding, item.plan, item.targetAt, item.placeAt)
      BY <2>1 DEF FirstArg, EpisodeChecks
    <3>6. Answered(seen) /\ Asked(checks, skill.args) \subseteq DOMAIN seen
          /\ first \in DOMAIN told.checks /\ told.checks[first] \in {"ok", "overrode"}
      BY <3>2, <3>4
    <3> HIDE DEF first, told, checks, seen
    <3>7. first \in DOMAIN told.args /\ Close(seen, told.args[first], item.targetAt)
      BY <3>1, <3>5, <3>6, EpisodeClose
    <3> QED
      BY <1>1, <3>3, <3>7 DEF Aimed, first, told, seen
  <2> QED
    BY <2>4, <2>5, <2>6, <2>7 DEF GInv
<1> QED
  BY <1>2, <1>3

LEMMA EpisodeResetKeeps ==
  ASSUME GInv, PlanKept', ResetForEpisode
  PROVE  GInv'
<1>1. stage = "layout" /\ stage' \in {"run", "judge"} /\ UNCHANGED <<loaded, item, preflight, report, step, grasped>>
  BY DEF ResetForEpisode
<1>2. /\ layout' = layout \/ layout' = Manifest(loaded.suite)
      /\ (layout' = layout /\ view' = view) \/ view' = <<>>
      /\ view' = (IF layout' = layout THEN view ELSE <<>>)
  BY DEF ResetForEpisode, Settles
<1>3. grasped = <<>> /\ step = 0 /\ loaded.suite \in DOMAIN Suites
  BY <1>1 DEF GInv, Counted, SceneIsShown
<1>4. LaidOut'
  <2>1. \A id \in DOMAIN Manifest(loaded.suite) : Manifest(loaded.suite)[id] \in Position
    BY <1>3, SceneOf DEF SceneIsGiven, Manifest
  <2> QED
    BY <1>2, <2>1 DEF GInv, LaidOut
<1>5. Read' /\ SceneIsShown'
  BY <1>1, <1>2, <1>3 DEF GInv, Read, SceneIsShown
<1>6. Rested'
  BY <1>1, <1>2, <1>3 DEF GInv, Rested, Manifest
<1>7. Counted' /\ GraspIsNear'
  BY <1>1, <1>3 DEF Counted, GraspIsNear
<1>8. Aim'
  <2> SUFFICES ASSUME preflight = "ok", FirstPasses' PROVE Aimed'
    BY <1>1 DEF Aim
  <2>1. layout = Manifest(loaded.suite)
    BY <1>3 DEF GInv, Rested
  <2>2. layout' = layout /\ view' = view
    BY <1>2, <2>1
  <2>3. FirstPasses
    BY <1>1 DEF FirstPasses, FirstArg
  <2>4. Aimed
    BY <1>1, <1>3, <2>3 DEF GInv, Aim
  <2>5. FirstArg' = FirstArg /\ Seen(view)' = Seen(view)
    BY <1>1, <2>2 DEF FirstArg, Seen
  <2> QED
    BY <1>1, <2>4, <2>5 DEF Aimed
<1> QED
  BY <1>4, <1>5, <1>6, <1>7, <1>8 DEF GInv

(* What the skill takes, and where it puts it.                             *)
Takes(object, there) ==
  /\ object \in DOMAIN layout /\ there \in Position
  /\ grasped' = Append(grasped, [object |-> object, at |-> layout[object]])
  /\ \/ layout' = [layout EXCEPT ![object] = there]
     \/ layout' = [layout EXCEPT ![object] = <<@[1], @[2] + 25, @[3]>>]
  /\ view' = <<>> /\ step' = step + 1 /\ stage' \in {"judge", "run"}

LEMMA OnIs ==
  ASSUME NEW at \in Position, NEW category
  PROVE  On(at, category) \in Position /\ <<at[1], at[2], at[3] + 20>> \in Position
         /\ <<at[1], at[2] + 25, at[3]>> \in Position
BY DEF On, Position

LEMMA OperateIs ==
  ASSUME LaidOut, Read, Operate
  PROVE  /\ stage = "run" /\ UNCHANGED <<setting, loaded, item, preflight, skill, report>>
         /\ \E labels : \E reading \in Readings(labels) :
              \/ stage' = "judge" /\ view' = reading /\ UNCHANGED <<layout, step, grasped>>
              \/ LET pick == Runtime(PickArg(ArgNumber)) IN
                 IsLabel(pick) /\ pick \in labels /\ \E there : Takes(reading[pick], there)
<1> DEFINE pick == Runtime(PickArg(ArgNumber))
           place == Runtime(PlaceArg(ArgNumber))
           labels == {pick, place} \ {NoLabel}
           object(reading) == IF IsLabel(pick) THEN reading[pick] ELSE NoId
           goal(reading) == IF IsLabel(place) THEN reading[place] ELSE NoId
           there(reading) ==
             IF ~IsLabel(place)
             THEN <<layout[object(reading)][1], layout[object(reading)][2], layout[object(reading)][3] + 20>>
             ELSE On(layout[goal(reading)], AssetOf(Scene, goal(reading)).category)
           misses(reading) == object(reading) = NoId \/ (IsLabel(place) /\ goal(reading) \in {NoId, object(reading)})
<1>0. stage = "run" /\ UNCHANGED <<setting, loaded, item, preflight, skill, report>>
  BY DEF Operate
<1>1. PICK reading \in Readings(labels) :
        IF misses(reading)
        THEN stage' = "judge" /\ view' = reading /\ UNCHANGED <<layout, step, grasped, outcome>>
        ELSE /\ grasped' = Append(grasped, [object |-> object(reading), at |-> layout[object(reading)]])
             /\ \/ layout' = [layout EXCEPT ![object(reading)] = there(reading)]
                \/ Faulty /\ layout' = [layout EXCEPT ![object(reading)] = <<@[1], @[2] + 25, @[3]>>]
             /\ view' = <<>> /\ step' = step + 1
             /\ stage' = (IF step + 1 = Operations THEN "judge" ELSE "run")
             /\ outcome' = [outcome EXCEPT !.pipeline = (step + 1 = Operations)]
  BY DEF Operate
<1>2. \A l \in labels : l \in DOMAIN reading /\ reading[l] \in DOMAIN layout \cup {NoId}
  <2>1. ReadingsAre(labels, reading)
    BY ReadingIs
  <2>2. DOMAIN reading = labels \cup DOMAIN view
    BY <2>1 DEF ReadingsAre
  <2> QED
    BY <2>1, <2>2, ReadingSeen
<1> HIDE DEF pick, place
<1>3. CASE misses(reading)
  BY <1>0, <1>1, <1>3
<1>4. CASE ~misses(reading)
  <2>1. IsLabel(pick) /\ object(reading) = reading[pick] /\ reading[pick] # NoId /\ pick \in labels
    BY <1>4 DEF IsLabel
  <2>2. reading[pick] \in DOMAIN layout
    BY <1>2, <2>1
  <2>3. there(reading) \in Position
    <3>1. CASE ~IsLabel(place)
      BY <2>1, <2>2, <3>1, OnIs DEF LaidOut
    <3>2. CASE IsLabel(place)
      <4>1. goal(reading) = reading[place] /\ reading[place] # NoId /\ place \in labels
        BY <1>4, <3>2 DEF IsLabel
      <4>2. layout[reading[place]] \in Position
        BY <1>2, <4>1 DEF LaidOut
      <4> QED
        BY <3>2, <4>1, <4>2, OnIs
    <3> QED
      BY <3>1, <3>2
  <2> DEFINE spot == there(reading)
  <2>4. Takes(reading[pick], spot)
    <3> HIDE DEF there, object, labels, goal
    <3> QED
      BY <1>1, <1>4, <2>1, <2>2, <2>3 DEF Takes
  <2> HIDE DEF spot
  <2> QED
    BY <1>0, <2>1, <2>4 DEF pick
<1> QED
  BY <1>3, <1>4

(* The first grasp, of a label that passed its check.                      *)
LEMMA FirstGraspIsNear ==
  ASSUME GInv, stage = "run", grasped = <<>>, preflight = "ok", FirstPasses, NEW labels, NEW reading \in Readings(labels),
         NEW pick, pick = Runtime(PickArg(ArgNumber))
  PROVE  Distance(layout[reading[pick]], item.targetAt) <= Tolerance
<1>1. step = 0
  BY DEF GInv, Counted
<1>2. PickArg(ArgNumber) = FirstArg
  BY <1>1 DEF ArgNumber, FirstArg
<1>3. Aimed
  BY DEF GInv, Aim
<1>4. pick = report.args[FirstArg]
  BY <1>2, <1>3 DEF Runtime, Aimed
<1>5. /\ pick \in DOMAIN Seen(view) /\ Seen(view)[pick] # Nowhere
      /\ Distance(Seen(view)[pick], item.targetAt) <= Tolerance
  BY <1>3, <1>4 DEF Aimed, Close
<1>6. pick \in DOMAIN view /\ Seen(view)[pick] = layout[view[pick]]
  <2>1. DOMAIN Seen(view) = DOMAIN view
    BY DEF Seen
  <2> QED
    BY <1>5, <2>1 DEF Seen
<1>7. reading[pick] = view[pick]
  BY <1>6, ReadingIs DEF ReadingsAre
<1> QED
  BY <1>5, <1>6, <1>7

LEMMA AppendsAre ==
  ASSUME NEW s, IsList(s), NEW e, NEW t, t = Append(s, e)
  PROVE  IsList(t) /\ t # <<>> /\ (s # <<>> => t[1] = s[1]) /\ (s = <<>> => t[1] = e)
<1>1. PICK X : s \in Seq(X)
  BY DEF IsList
<1>2. s \in Seq(X \cup {e})
  BY <1>1
<1>3. t \in Seq(X \cup {e}) /\ Len(t) = Len(s) + 1 /\ Len(s) \in Nat
  BY <1>2
<1>4. s # <<>> => t[1] = s[1]
  <2> SUFFICES ASSUME s # <<>> PROVE t[1] = s[1]
    OBVIOUS
  <2>1. Len(s) # 0
    BY <1>1
  <2>2. 1 \in 1..Len(s)
    BY <1>3, <2>1
  <2> QED
    BY <1>2, <2>2
<1>5. s = <<>> => t[1] = e
  BY <1>2
<1> QED
  BY <1>3, <1>4, <1>5 DEF IsList

LEMMA OperateKeeps ==
  ASSUME GInv, PlanKept', Operate
  PROVE  GInv'
<1>1. stage = "run" /\ UNCHANGED <<setting, loaded, item, preflight, skill, report>>
  BY OperateIs DEF GInv
<1>2. PICK labels : \E reading \in Readings(labels) :
        \/ stage' = "judge" /\ view' = reading /\ UNCHANGED <<layout, step, grasped>>
        \/ LET pick == Runtime(PickArg(ArgNumber)) IN
           IsLabel(pick) /\ pick \in labels /\ \E there : Takes(reading[pick], there)
  BY OperateIs DEF GInv
<1>3. PICK reading \in Readings(labels) :
        \/ stage' = "judge" /\ view' = reading /\ UNCHANGED <<layout, step, grasped>>
        \/ LET pick == Runtime(PickArg(ArgNumber)) IN
           IsLabel(pick) /\ pick \in labels /\ \E there : Takes(reading[pick], there)
  BY <1>2
<1>4. FirstArg' = FirstArg /\ (FirstPasses' <=> FirstPasses)
  BY <1>1 DEF FirstArg, FirstPasses
<1>5. CASE stage' = "judge" /\ view' = reading /\ UNCHANGED <<layout, step, grasped>>
  <2>1. Read'
    BY <1>5, ViewRead
  <2>2. LaidOut' /\ SceneIsShown' /\ Rested' /\ Counted' /\ Aim'
    BY <1>1, <1>5 DEF GInv, LaidOut, SceneIsShown, Rested, Counted, Aim, Manifest
  <2>3. GraspIsNear'
    BY <1>1, <1>4, <1>5 DEF GInv, GraspIsNear
  <2> QED
    BY <2>1, <2>2, <2>3 DEF GInv
<1>6. CASE \E there : Takes(reading[Runtime(PickArg(ArgNumber))], there)
  <2> DEFINE pick == Runtime(PickArg(ArgNumber))
             object == reading[pick]
  <2>1. PICK there : Takes(object, there)
    BY <1>6
  <2> HIDE DEF object
  <2>2. IsList(grasped)
    <3>1. <<>> \in Seq({})
      OBVIOUS
    <3> QED
      BY <3>1 DEF GInv, Counted, IsList
  <2>3. /\ IsList(grasped') /\ grasped' # <<>>
        /\ grasped # <<>> => grasped'[1] = grasped[1]
        /\ grasped = <<>> => grasped'[1] = [object |-> object, at |-> layout[object]]
    <3> DEFINE e == [object |-> object, at |-> layout[object]]
               t == grasped'
               s == grasped
    <3>1. t = Append(s, e)
      BY <2>1 DEF Takes
    <3>2. IsList(s)
      BY <2>2
    <3> HIDE DEF e, t, s
    <3>3. IsList(t) /\ t # <<>> /\ (s # <<>> => t[1] = s[1]) /\ (s = <<>> => t[1] = e)
      BY <3>1, <3>2, AppendsAre
    <3> QED
      BY <3>3 DEF e, t, s
  <2>4. LaidOut'
    <3>1. object \in DOMAIN layout /\ layout[object] \in Position
      BY <2>1 DEF Takes, GInv, LaidOut
    <3> DEFINE slip == <<layout[object][1], layout[object][2] + 25, layout[object][3]>>
    <3>2. slip \in Position /\ there \in Position
      BY <3>1, <2>1, OnIs DEF Takes
    <3>3. layout' = [layout EXCEPT ![object] = there] \/ layout' = [layout EXCEPT ![object] = slip]
      BY <2>1 DEF Takes
    <3> HIDE DEF slip
    <3>4. DOMAIN layout' = DOMAIN layout
          /\ \A id \in DOMAIN layout : layout'[id] \in {layout[id], there, slip}
      BY <3>3
    <3> QED
      BY <3>2, <3>4 DEF GInv, LaidOut
  <2>5. Read' /\ SceneIsShown'
    BY <1>1, <2>1 DEF Takes, GInv, Read, SceneIsShown
  <2>6. Rested' /\ Aim'
    BY <1>1, <2>1, <2>3 DEF Takes, Rested, Aim
  <2>7. Counted'
    <3>1. step' \in Nat \ {0}
      BY <2>1 DEF Takes, GInv, Counted
    <3> QED
      BY <2>1, <2>3, <3>1 DEF Takes, Counted
  <2>8. GraspIsNear'
    <3> SUFFICES ASSUME preflight = "ok", FirstPasses
                 PROVE  Distance(grasped'[1].at, item'.targetAt) <= Tolerance
      BY <1>1, <1>4 DEF GraspIsNear, FirstPasses
    <3>1. CASE grasped # <<>>
      BY <1>1, <2>3, <3>1 DEF GInv, GraspIsNear, FirstPasses
    <3>2. CASE grasped = <<>>
      <4>1. Distance(layout[object], item.targetAt) <= Tolerance
        BY <1>1, <3>2, FirstGraspIsNear DEF object
      <4> QED
        BY <1>1, <2>3, <3>2, <4>1
    <3> QED
      BY <3>1, <3>2
  <2> QED
    BY <2>4, <2>5, <2>6, <2>7, <2>8 DEF GInv
<1> QED
  BY <1>3, <1>5, <1>6

LEMMA JudgeKeeps ==
  ASSUME GInv, PlanKept', JudgeEpisode
  PROVE  GInv'
<1>1. stage = "judge" /\ stage' = "done"
      /\ UNCHANGED <<setting, loaded, item, layout, view, preflight, skill, report, step, grasped>>
  BY DEF JudgeEpisode
<1> QED
  BY <1>1 DEF GInv, LaidOut, Read, SceneIsShown, Rested, Counted, Aim, GraspIsNear, FirstArg, Manifest

LEMMA GraspStep ==
  ASSUME GInv, [AutoNext]_autoVars
  PROVE  GInv'
<1>0. PlanKept'
  BY PlanStep DEF GInv
<1>1. CASE Select
  BY <1>0, <1>1, SelectKeeps
<1>2. CASE Align
  BY <1>0, <1>2, NothingMoves, ViewKept DEF Align, Abort
<1>3. CASE ResetForPreflight
  BY <1>0, <1>3, ResetKeeps
<1>4. CASE GroundSelection
  <2>1. stage = "ground" /\ stage' \in {"generate", "aborted"} /\ UNCHANGED <<loaded, layout, preflight, step, grasped>>
    BY <1>4 DEF GroundSelection
  <2>2. view' = view \/ \E labels : \E reading \in Readings(labels) : view' = reading
    <3>1. CASE ~(setting.execute /\ setting.direct) /\ stage' = "generate" /\ UNCHANGED <<item, view>>
      BY <3>1
    <3>2. CASE ~(~(setting.execute /\ setting.direct) /\ stage' = "generate" /\ UNCHANGED <<item, view>>)
      BY <1>4, <3>2 DEF GroundSelection
    <3> QED
      BY <3>1, <3>2
  <2>3. Read'
    BY <2>1, <2>2, ViewKept, ViewRead
  <2> QED
    BY <1>0, <2>1, <2>3, NothingMoves
<1>5. CASE Generate
  <2>1. stage = "generate" /\ stage' \in {"check", "aborted"}
        /\ UNCHANGED <<loaded, layout, view, preflight, step, grasped>>
    BY <1>5 DEF Generate, Abort
  <2> QED
    BY <1>0, <2>1, NothingMoves, ViewKept
<1>6. CASE CheckArgs
  <2>1. stage = "check" /\ stage' = "episode" /\ UNCHANGED <<loaded, layout, preflight, step, grasped>>
    BY <1>6 DEF CheckArgs
  <2>2. view' = view \/ \E labels : \E reading \in Readings(labels) : view' = reading
    BY <1>6 DEF CheckArgs
  <2>3. Read'
    BY <2>1, <2>2, ViewKept, ViewRead
  <2> QED
    BY <1>0, <2>1, <2>3, NothingMoves
<1>7. CASE CheckEpisode
  BY <1>0, <1>7, CheckKeeps
<1>8. CASE ResetForEpisode
  BY <1>0, <1>8, EpisodeResetKeeps
<1>9. CASE Operate
  BY <1>0, <1>9, OperateKeeps
<1>10. CASE JudgeEpisode
  BY <1>0, <1>10, JudgeKeeps
<1>11. CASE UNCHANGED autoVars
  BY <1>0, <1>11 DEF autoVars, GInv, LaidOut, Read, SceneIsShown, Rested, Counted, Aim, FirstPasses, Aimed, Seen,
     GraspIsNear, FirstArg, Manifest
<1> QED
  BY <1>1, <1>2, <1>3, <1>4, <1>5, <1>6, <1>7, <1>8, <1>9, <1>10, <1>11 DEF AutoNext

(* A skill whose label passed the check of its episode, in a scene that    *)
(* was put back before, grasps within the tolerance of the selected object *)
(* or fails to: whichever labels a pool's objects have, whatever the       *)
(* camera makes of them, whatever was left in the scene and whatever the   *)
(* model answered in between (_candidate_arg_preflight,                    *)
(* validate_pick_label).                                                   *)
THEOREM GraspsAreNear == AutoSpec => []GraspIsNear
<1>1. AutoInit => GInv
  BY DEF AutoInit, GInv, PlanKept, LaidOut, Read, SceneIsShown, Rested, Counted, Aim, GraspIsNear
<1>2. GInv => GraspIsNear
  BY DEF GInv
<1> QED
  BY <1>1, <1>2, GraspStep, PTL DEF AutoSpec

-----------------------------------------------------------------------------
(* AgentController.  What every plan keeps to: its type, a specification   *)
(* only of what was seen, a stop that is kept, and judges that are not     *)
(* heard.                                                                  *)

(* The plan is one of a prefix of the history.                             *)
Planned == plan = NoPlan \/ plan = Plan(SubSeq(history, 1, plan.seen))

(* A stop was decided on a success that is still in the history.           *)
Earned == plan.route = "stop_success" => Passed(history)

-----------------------------------------------------------------------------
(* The planner.                                                            *)

LEMMA DecisionType ==
  ASSUME NEW h
  PROVE  Decide(h).route \in Routes /\ Decide(h).node \in Nodes
BY DEF Decide, Routes, Nodes

LEMMA PlanType ==
  ASSUME NEW h, Len(h) \in 0..MaxEpisodes
  PROVE  /\ Plan(h) \in [route : Routes \union {"none"}, node : Nodes \union {"none"},
                         spec : {"none", "proposed", "needs_observation"},
                         seen : 0..MaxEpisodes]
         /\ Plan(h).seen = Len(h)
         /\ Plan(h).spec # "none" <=> Plan(h).route = "new_skill_candidate"
BY DecisionType DEF Plan, Proposal

(* No frames looked at is a gap the agent is told of.                      *)
LEMMA BlindIsTold ==
  ASSUME NEW e, e.from = "suite", e.visual = "none"
  PROVE  "missing_structured_visual_feedback" \in Observation(e).agent_feedback.evidence_gaps
<1>1. "missing_structured_visual_feedback" \in TraceGaps(e) BY DEF TraceGaps
<1>2. "missing_structured_visual_feedback" \in AgentVisibleGaps(e)
  BY <1>1 DEF AgentVisibleGaps, EvidenceGaps, EvaluatorText
<1>3. SafeFeedback(e).evidence_gaps = AgentVisibleGaps(e)
  BY DEF SafeFeedback, AgentSafe, StrippedKeys, AgentFeedback
<1> QED BY <1>2, <1>3 DEF Observation

(* An episode that reached its end lets the planner propose only if frames *)
(* of some episode were analysed.                                          *)
LEMMA ProposesWhatIsSeen ==
  ASSUME NEW h, Reached(h), Proposal(h) = "proposed"
  PROVE  Analyzed(h)
<1> SUFFICES ASSUME ~Analyzed(h) PROVE FALSE OBVIOUS
<1>1. ~Unseen(h) BY DEF Proposal
<1>2. PICK i \in DOMAIN h : PipelineSuccess(h[i]) BY DEF Reached
<1>3. h[i].from = "suite" /\ h[i].visual = "none" BY <1>2 DEF PipelineSuccess, Analyzed
<1> QED BY <1>1, <1>3, BlindIsTold DEF Unseen

LEMMA DecisionReached ==
  ASSUME NEW h, Decide(h).route = "new_skill_candidate"
  PROVE  Reached(h) /\ (Decide(h).node = "propose_new_skill_spec" => ~Unseen(h))
BY DEF Decide

LEMMA SightOfPlan ==
  ASSUME NEW h
  PROVE  /\ Plan(h).spec = "proposed" => Analyzed(h)
         /\ Plan(h).node = "propose_new_skill_spec" => Plan(h).spec = "proposed"
<1>1. ASSUME Plan(h).spec = "proposed" PROVE Analyzed(h)
  <2>1. Decide(h).route = "new_skill_candidate" /\ Proposal(h) = "proposed" BY <1>1 DEF Plan
  <2> QED BY <2>1, DecisionReached, ProposesWhatIsSeen
<1>2. ASSUME Plan(h).node = "propose_new_skill_spec" PROVE Plan(h).spec = "proposed"
  <2>1. Decide(h).node = "propose_new_skill_spec" BY <1>2 DEF Plan
  <2>2. Decide(h).route = "new_skill_candidate" BY <2>1 DEF Decide
  <2>3. Proposal(h) = "proposed" BY <2>1, <2>2, DecisionReached DEF Proposal
  <2> QED BY <2>2, <2>3 DEF Plan
<1> QED BY <1>1, <1>2

LEMMA StopIsSuccess ==
  ASSUME NEW h
  PROVE  Plan(h).route = "stop_success" <=> h # <<>> /\ Passed(h)
BY DEF Plan, Decide

-----------------------------------------------------------------------------
(* Two episodes that went alike and are judged alike.                      *)

Alike(e, o) ==
  /\ o.from = e.from /\ o.run = e.run /\ o.family = e.family /\ o.visual = e.visual
  /\ Success(o) = Success(e) /\ ConfirmedSuccess(o) = ConfirmedSuccess(e)

LEMMA AlikeRuns ==
  ASSUME NEW e, NEW o, Alike(e, o)
  PROVE  /\ Completed(o) = Completed(e) /\ FailedActions(o) = FailedActions(e)
         /\ HasTimeline(o) = HasTimeline(e)
         /\ PipelineSuccess(o) = PipelineSuccess(e)
         /\ RunSignature(o) = RunSignature(e)
         /\ TraceGaps(o) = TraceGaps(e) /\ UntrustedSuccess(o) = UntrustedSuccess(e)
<1>1. Completed(o) = Completed(e) /\ FailedActions(o) = FailedActions(e)
      /\ HasTimeline(o) = HasTimeline(e)
  BY DEF Alike, Completed, FailedActions, HasTimeline
<1>2. PipelineSuccess(o) = PipelineSuccess(e) BY <1>1 DEF Alike, PipelineSuccess
<1>3. RunSignature(o) = RunSignature(e) BY <1>1 DEF Alike, RunSignature
<1>4. TraceGaps(o) = TraceGaps(e) BY <1>1 DEF Alike, TraceGaps
<1>5. UntrustedSuccess(o) = UntrustedSuccess(e) BY DEF Alike, UntrustedSuccess
<1> QED BY <1>1, <1>2, <1>3, <1>4, <1>5

(* A signature written by the judges replaces only one of a run that ended.*)
LEMMA OwnSignature ==
  ASSUME NEW e, ~PipelineSuccess(e)
  PROVE  Signature(e) = RunSignature(e)
BY DEF Signature

LEMMA NotDryNotEffect ==
  ASSUME NEW e
  PROVE  Signature(e) = "dry_run" <=> e.run = "dry"
<1>1. RunSignature(e) = "dry_run" <=> e.run = "dry" BY DEF RunSignature
<1>2. e.run = "dry" => ~PipelineSuccess(e) BY DEF PipelineSuccess, Completed
<1> QED BY <1>1, <1>2 DEF Signature

LEMMA AlikeGaps ==
  ASSUME NEW e, NEW o, Alike(e, o)
  PROVE  AgentVisibleGaps(o) = AgentVisibleGaps(e)
<1>1. (Signature(o) = "dry_run") = (Signature(e) = "dry_run")
  BY NotDryNotEffect DEF Alike
<1> DEFINE Common(x) ==
      (IF ~HasTimeline(x) /\ Signature(x) # "dry_run" THEN {"missing_action_timeline"} ELSE {})
      \union (IF x.from = "loop" THEN {"missing_structured_visual_feedback"} ELSE {})
      \union (IF FailedActions(x) = {} /\ ~Success(x) THEN {"missing_failed_step_attribution"} ELSE {})
      \union TraceGaps(x)
<1>2. Common(o) = Common(e) BY <1>1, AlikeRuns DEF Alike
<1>3. ASSUME NEW x
      PROVE  AgentVisibleGaps(x) = Common(x) \ {"missing_predicate_feedback", "predicate_failed",
                                                 "missing_effect_feedback"}
  BY DEF AgentVisibleGaps, EvidenceGaps, EvaluatorText
<1> HIDE DEF Common
<1> QED BY <1>2, <1>3

LEMMA PlanningIsShown ==
  ASSUME NEW e
  PROVE  "motion_planning_action_failed" \in AgentVisibleModes(e)
           <=> /\ ~ConfirmedSuccess(e) /\ ~UntrustedSuccess(e)
               /\ "motion_planning" \in FailedActions(e)
<1>1. Signature(e) # "motion_planning_action_failed" BY DEF Signature, RunSignature
<1>2. "motion_planning_action_failed" \in FailureModes(e)
        <=> /\ ~ConfirmedSuccess(e) /\ ~UntrustedSuccess(e)
            /\ "motion_planning" \in FailedActions(e)
  BY <1>1 DEF FailureModes
<1> QED BY <1>2 DEF AgentVisibleModes, EvaluatorModes

LEMMA AlikeSummary ==
  ASSUME NEW e, NEW o, Alike(e, o)
  PROVE  AgentSummary(o) = AgentSummary(e)
<1>1. ("motion_planning_action_failed" \in AgentVisibleModes(o))
        = ("motion_planning_action_failed" \in AgentVisibleModes(e))
  BY PlanningIsShown, AlikeRuns DEF Alike
<1>2. ~PipelineSuccess(e) => AgentVisibleSignature(o) = AgentVisibleSignature(e)
  BY AlikeRuns, OwnSignature DEF AgentVisibleSignature
<1> QED BY <1>1, <1>2, AlikeRuns, AlikeGaps DEF AgentSummary, Alike

LEMMA AlikeFeedback ==
  ASSUME NEW e, NEW o, Alike(e, o)
  PROVE  SafeFeedback(o) = SafeFeedback(e)
<1> DEFINE Shown == {"observable_status", "pipeline_success", "skill_success", "reported_success",
                     "reported_success_without_effect_evidence", "failed_actions",
                     "visual_feedback", "recurring_summary", "evidence_gaps"}
<1>1. ASSUME NEW x
      PROVE  SafeFeedback(x) = [key \in Shown |-> AgentFeedback(x)[key]]
  <2>1. DOMAIN AgentFeedback(x) \ StrippedKeys = Shown BY DEF AgentFeedback, StrippedKeys
  <2> QED BY <2>1 DEF SafeFeedback, AgentSafe
<1>2. ObservableStatus(o) = ObservableStatus(e) BY AlikeRuns DEF ObservableStatus, Alike
<1>3. ASSUME NEW key \in Shown PROVE AgentFeedback(o)[key] = AgentFeedback(e)[key]
  BY <1>2, AlikeRuns, AlikeGaps, AlikeSummary DEF AgentFeedback, Alike
<1> QED BY <1>1, <1>3

LEMMA AlikeObservation ==
  ASSUME NEW e, NEW o, Alike(e, o)
  PROVE  Observation(o) = Observation(e)
BY AlikeRuns, AlikeFeedback DEF Observation, Alike

(* A decision goes by the observations and the gate.                       *)
LEMMA AlikeDecision ==
  ASSUME NEW h, NEW g, DOMAIN g = DOMAIN h, (g = <<>>) = (h = <<>>),
         \A i \in DOMAIN h : Alike(h[i], g[i])
  PROVE  Decide(g) = Decide(h)
<1>1. \A i \in DOMAIN h : Observation(g[i]) = Observation(h[i]) BY AlikeObservation
<1>2. \A i \in DOMAIN h : PipelineSuccess(g[i]) = PipelineSuccess(h[i]) BY AlikeRuns
<1>3. Unseen(g) = Unseen(h) BY <1>1 DEF Unseen
<1>4. Failing(g) = Failing(h)
  <2>1. \A i \in DOMAIN h : Observation(g[i]).agent_feedback.failed_actions
                           = Observation(h[i]).agent_feedback.failed_actions
    BY <1>1, Zenon
  <2> QED BY <2>1, Zenon DEF Failing
<1>5. Reached(g) = Reached(h) BY <1>2 DEF Reached
<1>6. Passed(g) = Passed(h) BY DEF Passed, Alike
<1>7. Repeated(g) = Repeated(h) BY DEF Repeated, Alike
<1> QED BY <1>3, <1>4, <1>5, <1>6, <1>7 DEF Decide

-----------------------------------------------------------------------------
(* A report more.                                                          *)

LEMMA Longer ==
  ASSUME AgentTypeOK, NEW from, Reported(from)
  PROVE  /\ history' \in Seq(EpisodeReports) /\ Len(history') = Len(history) + 1
         /\ Len(history') <= MaxEpisodes
         /\ \A n \in 0..Len(history) : SubSeq(history', 1, n) = SubSeq(history, 1, n)
         /\ Passed(history) => Passed(history')
<1>1. PICK e \in EpisodeReports : history' = Append(history, e) BY DEF Reported
<1>2. Len(history) < MaxEpisodes /\ history \in Seq(EpisodeReports) /\ MaxEpisodes \in Nat
  BY AgentAssumption DEF Reported, Room, AgentTypeOK
<1>3. history' \in Seq(EpisodeReports) /\ Len(history') = Len(history) + 1 BY <1>1, <1>2
<1>4. \A i \in 1..Len(history) : history'[i] = history[i] BY <1>1, <1>2
<1>5. ASSUME NEW n \in 0..Len(history) PROVE SubSeq(history', 1, n) = SubSeq(history, 1, n)
  BY <1>2, <1>3, <1>4
<1>6. Passed(history) => Passed(history')
  BY <1>2, <1>3, <1>4 DEF Passed
<1> QED BY <1>2, <1>3, <1>5, <1>6

(* Every variable is always of its type.                                   *)
THEOREM AgentTyping == AgentSpec => []AgentTypeOK
<1>1. AgentInit => AgentTypeOK
  <2> SUFFICES ASSUME AgentInit PROVE AgentTypeOK OBVIOUS
  <2>1. history \in Seq(EpisodeReports) /\ Len(history) = 0 BY DEF AgentInit
  <2>2. 0 \in 0..MaxEpisodes /\ 0 <= MaxEpisodes BY AgentAssumption
  <2>3. plan = NoPlan /\ torn \in BOOLEAN BY DEF AgentInit
  <2>4. plan \in [route : Routes \union {"none"}, node : Nodes \union {"none"},
                 spec : {"none", "proposed", "needs_observation"}, seen : 0..MaxEpisodes]
    BY <2>2, <2>3 DEF NoPlan
  <2>5. (plan.spec # "none") <=> (plan.route = "new_skill_candidate")
    BY <2>3 DEF NoPlan
  <2>6. plan.seen = 0 BY <2>3 DEF NoPlan
  <2> QED BY <2>1, <2>2, <2>3, <2>4, <2>5, <2>6 DEF AgentTypeOK
<1>2. AgentTypeOK /\ [AgentNext]_agentVars => AgentTypeOK'
  <2> SUFFICES ASSUME AgentTypeOK, [AgentNext]_agentVars PROVE AgentTypeOK' OBVIOUS
  <2>1. ASSUME NEW from, Reported(from) PROVE AgentTypeOK'
    <3>1. torn' = torn /\ plan' = plan BY <2>1 DEF Reported
    <3>2. Len(history) \in Nat BY DEF AgentTypeOK
    <3> QED BY <2>1, <3>1, <3>2, Longer DEF AgentTypeOK
  <2>2. CASE ReportCutShort BY <2>2 DEF ReportCutShort, AgentTypeOK
  <2>3. CASE AgentPlan
    <3>1. Len(history) \in 0..MaxEpisodes BY AgentAssumption DEF AgentTypeOK
    <3> QED BY <2>3, <3>1, PlanType DEF AgentPlan, AgentTypeOK
  <2>4. CASE UNCHANGED agentVars BY <2>4 DEF agentVars, AgentTypeOK
  <2> QED BY <2>1, <2>2, <2>3, <2>4 DEF AgentNext, SuiteReports, LoopReports
<1> QED BY <1>1, <1>2, PTL DEF AgentSpec

(* Every plan is one of what was reported before it.                       *)
LEMMA Planning == AgentSpec => []Planned
<1>1. AgentInit => Planned BY DEF AgentInit, Planned
<1>2. AgentTypeOK /\ Planned /\ [AgentNext]_agentVars => Planned'
  <2> SUFFICES ASSUME AgentTypeOK, Planned, [AgentNext]_agentVars PROVE Planned' OBVIOUS
  <2>1. ASSUME NEW from, Reported(from) PROVE Planned'
    <3>1. plan' = plan /\ plan.seen \in 0..Len(history)
      BY <2>1 DEF Reported, AgentTypeOK
    <3> QED BY <2>1, <3>1, Longer DEF Planned, NoPlan
  <2>2. CASE ReportCutShort BY <2>2 DEF ReportCutShort, Planned, NoPlan
  <2>3. CASE AgentPlan
    <3>1. history' = history /\ plan' = Plan(history) /\ plan'.seen = Len(history)
      BY <2>3 DEF AgentPlan, Plan
    <3>2. SubSeq(history, 1, Len(history)) = history BY DEF AgentTypeOK
    <3> QED BY <3>1, <3>2 DEF Planned
  <2>4. CASE UNCHANGED agentVars BY <2>4 DEF agentVars, Planned, NoPlan
  <2> QED BY <2>1, <2>2, <2>3, <2>4 DEF AgentNext, SuiteReports, LoopReports
<1> QED BY <1>1, <1>2, AgentTyping, PTL DEF AgentSpec

(* A specification is proposed only of a history in which frames were      *)
(* analysed, and whenever the node that proposes is named.                 *)
THEOREM SeenFirst == AgentSpec => []SpecIsSeen
<1>1. Planned => SpecIsSeen
  BY SightOfPlan DEF Planned, SpecIsSeen, NoPlan
<1> QED BY <1>1, Planning, PTL

(* Past the gate nothing is shown or decided by what the judges said.      *)
THEOREM NotHeard == AgentSpec => []JudgesAreNotHeard
<1>1. AgentTypeOK => JudgesAreNotHeard
  <2> SUFFICES ASSUME AgentTypeOK, history # <<>>, NEW last, last = Len(history),
                      NEW o \in Rejudged(history[last])
               PROVE  /\ Observation(o) = Observation(history[last])
                      /\ Decide([history EXCEPT ![last] = o]) = Decide(history)
    BY DEF JudgesAreNotHeard
  <2> DEFINE g == [history EXCEPT ![last] = o]
  <2>1. history \in Seq(EpisodeReports) /\ last \in DOMAIN history BY DEF AgentTypeOK
  <2>2. \A e \in EpisodeReports : \A x \in Rejudged(e) : Alike(e, x) /\ Alike(e, e)
    <3> SUFFICES ASSUME NEW e \in EpisodeReports, NEW x \in Rejudged(e)
                 PROVE  Alike(e, x) /\ Alike(e, e)
      OBVIOUS
    <3>1. e \in [from : {"suite", "loop"}, run : Happening.runs,
                 family : Families \union {"unclassified"}, visual : Happening.visuals,
                 predicate : {e.predicate}, verifier : {e.verifier}]
      BY DEF EpisodeReports, Episode
    <3> QED BY <3>1 DEF Rejudged, Alike
  <2>3. history[last] \in EpisodeReports /\ Alike(history[last], o) BY <2>1, <2>2
  <2>4. DOMAIN g = DOMAIN history /\ g # <<>> BY <2>1
  <2>5. \A i \in DOMAIN history : Alike(history[i], g[i])
    BY <2>1, <2>3 DEF Alike
  <2>6. Observation(o) = Observation(history[last]) BY <2>3, AlikeObservation
  <2>7. Decide(g) = Decide(history)
    <3> HIDE DEF g
    <3> QED BY <2>4, <2>5, AlikeDecision
  <2> QED BY <2>6, <2>7
<1> QED BY <1>1, AgentTyping, PTL

(* Once the planner stops it never says anything else.                     *)
THEOREM StopsForGood == AgentSpec => StopIsKept
<1>1. AgentInit => Earned BY DEF AgentInit, Earned, NoPlan
<1>2. AgentTypeOK /\ Earned /\ [AgentNext]_agentVars => Earned'
  <2> SUFFICES ASSUME AgentTypeOK, Earned, [AgentNext]_agentVars PROVE Earned' OBVIOUS
  <2>1. ASSUME NEW from, Reported(from) PROVE Earned'
    <3>1. plan' = plan BY <2>1 DEF Reported
    <3> QED BY <2>1, <3>1, Longer DEF Earned
  <2>2. CASE ReportCutShort BY <2>2 DEF ReportCutShort, Earned, Passed
  <2>3. CASE AgentPlan BY <2>3, StopIsSuccess DEF AgentPlan, Earned, Passed
  <2>4. CASE UNCHANGED agentVars BY <2>4 DEF agentVars, Earned, Passed
  <2> QED BY <2>1, <2>2, <2>3, <2>4 DEF AgentNext, SuiteReports, LoopReports
<1>3. AgentTypeOK /\ Earned /\ [AgentNext]_agentVars => [plan.route = "stop_success" => plan'.route = "stop_success"]_agentVars
  <2> SUFFICES ASSUME AgentTypeOK, Earned, AgentNext, plan.route = "stop_success"
               PROVE  plan'.route = "stop_success"
    OBVIOUS
  <2>1. CASE AgentPlan
    <3>1. Passed(history) BY DEF Earned
    <3>2. history # <<>> BY <3>1 DEF Passed
    <3> QED BY <2>1, <3>1, <3>2, StopIsSuccess DEF AgentPlan
  <2>2. CASE plan' = plan BY <2>2
  <2> QED BY <2>1, <2>2 DEF AgentNext, SuiteReports, LoopReports, Reported, ReportCutShort
<1> QED BY <1>1, <1>2, <1>3, AgentTyping, PTL DEF AgentSpec, StopIsKept
=============================================================================
