# A verification of demo-graph-lab in TLA+

This directory holds TLA+ models of the programs in `src/`, the TLC
configurations that check them, and TLAPS proofs about them. Every definition
is translated from the Python source; `PROJECT.json` maps each one to the lines
it stands for and lists components, runs, mutants, findings, hazards and
theorems. All paths below are relative to `src/`; `ksm/` stands for
`components/knowin-skill-manager/ksm/` and `seg/` for
`components/robot-subtask-seg/src/robot_subtask_seg/`.

    tlc -workers 2 -config NodePolicyRuns.cfg MCNodePolicy   # a run
    tlapm NodePolicyProofs.tla                               # a proof module

Contents: 1 the system, 2 the modules, 3 the runs, 4 the proofs, 5 what
disagreed, 6 what is not modelled, 7 the plan.

## 1. The system

The repository turns one recorded demonstration into robot programs and
improves them by executing them:

    video --> segment --> refine --> audit      extract-video-evidence,
                 |                              enrich-dense-tracking
                 +--------> demonstration bundle <------+
                                   |
                             demo graph --> code agent --> frozen policy, seeds
                                   |
              experiments/insert_tubes (M1)
                 |  NodePolicy over M1Runtime            perception services
                 v
          Knowin World: EvalServer (/reset /skill /finalize) and the pipeline
                 ^           (/run_script, /skill_status, robot controls)
                 |
       ksm: suite runner <-- ASPIRE loop, staged experiment, RoboDojo automation

Nothing is shared between processes but the EvalServer, the pipeline with its
scene, and files. Every client is one synchronous Python thread; the one
exception is the sampler thread of a stage. Two things make the system hard.
The robot is slow and does not stop when a client gives it up: a request that
timed out goes on, the next client finds it, and no request of the pipeline
carries an identity. And the offline half is a chain of commands over files,
each written by another command that may have been given up half way, with the
answers of language models, which need not be consistent with anything, in
between.

| component | state | operations | what is hard | what makes it correct |
|---|---|---|---|---|
| **Node policy** `method/demo_graph/runner.py`, `state_machine.py`, `models.py` | results, attempt, phase, last constraint | `run`, `_run_node` over observe / goal / controller callables | retries, callables that raise or break their contract, cyclic graphs | fresh evidence, honest counts and blame, it ends |
| **EvalServer adapter** `adapters/knowin_world/adapter.py` | active session, poison | `reset`, `execute_skill`, `finalize` | lost and late exchanges, another client, responses that prove nothing | no rejected run is finalized, every final record is one's own, once |
| **RoboDojo automation** `ksm/robodojo_auto.py`, `grounding.py`, `predicate.py` | the loaded scene, the selected task, the candidate's arguments | task pool, scene alignment, label checks, generation, episode, verdict | a scene left by others, three checks that each may replace a label, towers built step by step | the plan builds its tower, the right object is grasped, success is in the scene |
| **Segmentation** `seg/segmentation.py`, `normalize.py`, `quality.py`, `refinement.py`, `action_trace.py`, `cli.py` | traces, errors, sheets, reports of two directories | segment, refine-actions, materialize-actions, audit-run, archive | files of earlier attempts, two judges of readiness, times that are relative or absolute | a passing directory is complete, its traces are timelines, its steps are executable |
| **Demonstration evidence** `seg/video_evidence.py`, `dense_tracking.py`, `demonstration_bundle.py`, `operation_structure.py` | the evidence files of a video | extract, enrich, export, refine structure | objects that hide and cross, files written one after the other | detections are shared out, links are one to one, the bundle's accounts agree |
| **Demo graph extraction** `method/demo_graph/extractor.py`, `models.py` | the graph file | load, extract | a grasp left over from another tube | every insertion has its own grasp |
| **Code agent, freezing, seeds** `method/demo_graph/code_agent.py`, `metric_scan.py`, `manifest.py`, `seed_harness.py` | policy, digests, the protocol's directory | select, compile, bind, freeze, run seeds | an editor beside a frozen policy, protocols begun again | what is extracted compiles and binds, a directory is about one code |
| **Suite runner, pipeline client** `ksm/suite_runner.py`, `ksm/runner.py` | the episode; the pipeline and the scene outlive it | `run_suite`, `run_published_skill`, `reset_runtime_state`, `wait_done`, `episode_outcome` | skills that outlast the deadline, a lagging status, refused submissions | a success is the episode's own, a suite ends |
| **ASPIRE loop** `ksm/aspire.py`, `leaderboard.py`, `skill_library.py` | generation, packages, parent; reports, library and manifest on disk | `run_aspire` | history scanned back from disk, stops anywhere, ids that repeat | ranking, lineage and manifest agree with the reports |
| **Staged experiment** `ksm/staged_experiment.py`, `capture.py` | gate, previous state, successful prefix, parent, samplers | `run_staged_experiment` | a gate over stages that share a pipeline; sampler threads | no stage passes on what another left; the ledgers agree |
| **M1 run** `experiments/insert_tubes/run_m1.py`, `runtime.py` | preflight, pick and place pose, first seen pose, reuse flag, attachment evidence | preflight, priming, the policy over M1Runtime, `pick_controller` command by command | perception that may see anything, evidence carried between looks, commands that fail | attachment is perceived, not inferred from commands; controllers keep the policy's contract |
| **Evidence boundary** `ksm/feedback_attribution.py`, `trace_analysis.py`, `visual_feedback.py`, ... | none: a report is read and re-read | attribution, agent feedback, `agent_safe_payload` | derived labels, one filter of words for all of them | what an evaluator found does not reach the agent |
| **Agent controller** `ksm/agent_state.py`, `agent_nodes.py`, `agent_skill_spec.py`, `cli.py` | the reports below the history roots | `agent-plan`: observe, decide, specify a new skill | reports of two writers, some without feedback, some cut short | no specification of what was not seen, a stop is kept |
| Visual servo `method/demo_graph/servo.py` | iteration, last error | `run` | a correction judged by an older observation | converged means within tolerance |
| Candidates `method/demo_graph/candidates.py` | none | selection | ties, staleness | deterministic selection |
| Policy, registry, skill representation `ksm/policy.py`, `registry.py`, `skill_ir.py` | none | validation | completeness of the checks | what passes can be published |
| Earlier loop, command line, files | none of their own | | | |
| Grasp tools `components/grasp-proposal-tools` | none | request, answer | floating point | |
| Runtime doctor, release check | none | read-only probes | | |

The rows in bold are modelled, the others are in `PROJECT.json` with the reason
they are not (section 6), and the plan says which come next (section 7).
The hazards of the code, each at the line where it bites, are listed in
`PROJECT.json` with the properties that watch them.

## 2. The modules

Control is kept (every guard, early return, error path, and their order); data
is reduced to what the properties distinguish.

    PolicyContract <== NodePolicy ---------- M1Run        <== refinement (checked and proved)
                                 composed by
    KwPipeline --> SuiteRun ---------------- StagedExperiment
                                 composed by
    EvalSession          AspireLoop (run_suite as a verdict per episode)
    Evidence ------------------------------- AgentController
                                 operators of
    Grounding --> TaskPool, Predicates ----- RoboDojoAuto
    Listing --> SubtaskTrace --------------- SegmentationRun
    Listing --> VideoEvidence,
                OperationStructure --------- DemonstrationEvidence
    ConstraintGraphs --> CodeAgent --------- PolicyBuild

Definitions whose comment begins "Mutant:", and variants that no specification
uses, are plausible mistakes in the definition that follows them;
`PROJECT.json` names for each property the mutant that breaks it.

**PolicyContract** is what a caller of `PythonNodePolicy` may rely on: nodes are
visited along `next_node`; while a node is visited the scene may change (`Move`);
a node is recorded done only in a state of the scene in which its goal holds
(`Accept`); `succeeded` only after the last node.

**NodePolicy** is `run` and `_run_node` statement by statement. `pc` is the
call that is due (`observe`, `goal`, `control`, ...), with one action per way
each callable can come out: it returns, raises, returns something that is not
a `ControllerResult`, or names a constraint that is not the node's. `phases` is
the path through `NodePhase`, checked against the table of `state_machine.py`.
`world`, the goals that hold in the scene, changes arbitrarily under a
controller; `observation` is what was last seen of it. `calls` is a history
variable. `Promise` maps the state to PolicyContract's.

**EvalSession** is `KnowinWorldAdapter` with its HTTP exchange as steps (`Send`,
`ServeReset`/`StartSkill`/`AnswerSkill`/..., `ResetReturns`/`SkillRejected`/...,
`TransportFails`). A request given up by the client stays in `late` and may be
served in any later state. The server and its pipeline are external, modelled
from what the adapter sends and checks; `OtherClientResets` is a second client.
A run id stands for both ids of a session.

**Grounding**, **TaskPool** and **Predicates** are modules of operators: which
of a skill's labels grounds near its object and which replaces it; which tasks
of a suite are admitted, bound to labels, scored and, for towers, planned; how an
episode's predicates are evaluated with and without Knowin World. Positions are
centimetres and scores thousandths, as in the code's constants. **RoboDojoAuto**
is `run_robodojo_auto` on them: `Select`, `Align` (the scene the WebUI shows is
made the task's, or is already), `ResetForPreflight`, `GroundSelection`,
`Generate`, the two checks of the candidate's arguments (`CheckArgs`,
`CheckEpisode`), `ResetForEpisode`, one `Operate` per pick or placement, and
`JudgeEpisode`. What the camera answers for a label is fixed as long as nothing
moves and open otherwise.

**Listing** has the lists that are filtered, sorted or joined from others, each
defined by the order in which it takes which places and none by recursion, so
that what they hold can be proved.

**SubtaskTrace** is what becomes of an answer of the vision model:
normalisation, audit, the children a second answer splits a segment into, the
steps of an action trace; times are the milliseconds the code rounds to, a label
is the set of the words the code looks for in it. **SegmentationRun** is the
commands over the run's directory and the refined one, a video at a time, given
up anywhere (`Interrupt`), the audit with its archive. The refined directory may
lie inside the run's (`inside`), as it does by default, so that archiving the
one takes the other along.

**VideoEvidence** links the grounded detections of each prompt to tracklets,
anchors the objects that are tracked, summarises dense tracks and pairs sparse
observations with them, on a line of boxes of one size.
**OperationStructure** is what is kept of the model's procedures and
instances. Their times are floats that the code compares as they are and writes
rounded to milliseconds; they are counted in ticks, `TicksPerMs` to the
millisecond, and `Rounded` rounds half to even as `round` does. **DemonstrationEvidence** is the four commands over the files of one
directory: each client asks again up to `MaxRetries` times, `GiveUpJob` gives a
command up between two files, and the history variable `torn` says that it left
a new archive beside an old summary.

**ConstraintGraphs** is `ConstraintGraph` and its extraction from segments and
relations; **CodeAgent** selects a cycle, compiles and binds it. **PolicyBuild**
is the commands over the files they share: extraction, `run_m1`'s compilation,
and the seed protocol with its snapshot, manifests and report, one seed at a
time; an editor changes the graph or the policy at any moment. A text is its
own digest.

**KwPipeline** is the pipeline as its clients use it: one skill queued, one
running, the last status, and whether the objects lie as laid out. A skill ends
when it likes, or never. **SuiteRun** is `run_suite` on it: publish, layout reset,
pipeline reset, home, submit, poll, evaluate, per episode; each exchange may
be lost, a skill may outlast the deadline (`PollRaises`), the status may lag.
What the predicates and verifiers find is any.

**AspireLoop** is `run_aspire`: generations, attempts at a candidate with the
error fed back, suite verdicts, parents chosen by the leaderboard over the
history that is scanned from disk, distillation, manifest. `Stop` ends an
invocation between any two steps, possibly leaving a report cut short (`Torn`),
and the next one starts on what is on disk.

**StagedExperiment** is `run_staged_experiment` over a plan of stages. The suite
of a stage is SuiteRun itself, instantiated twice on the one pipeline: `Fresh`
for stages that reset before they execute, `Kept` for those that go on. A skill
is 1 (this suite's) or 2 (an earlier one's). The samplers are threads of their
own: `Sample`, `Capture`, `Leave`, against the main thread's `StopSampler` and
`Join`.

**M1Run** is one invocation of `run_m1.py` in any of its modes: up to
`MaxProbes` preflight probes, priming, then NodePolicy instantiated with
M1Runtime's observation for its scene, so that `Look` (the body of `observe`
with the attachment gate) takes the place of its observing actions, and the
controllers replace its `Control`. `pick_controller` goes command by command
(`PickStarts`, `Command`, `Settled`, ...), the arm stops by itself (`ArmStops`).

**Evidence** is a module of operators: from an episode, given by how its run went,
what the frames show and what the two evaluators say, to its report, its failure
modes and evidence gaps, and the agent's feedback. **AgentController** is `agent-plan` called now and again
while suites (`SuiteReports`) and the older loop (`LoopReports`) write reports;
`Decide` is `decide_next_action`, `Proposal` the specification of a new skill. A
report cut short (`ReportCutShort`) ends every later plan with an exception.

The MC modules only define constant values too long for a `.cfg`.

## 3. The runs

| run | module, cfg | distinct states | shows |
|---|---|---|---|
| `policy_runs` | MCNodePolicy, NodePolicyRuns | 8,358 | ActsOnFreshEvidence, AttemptsAreCalls, BlameIsAttributable, the refinement KeepsPromise, Terminates |
| `eval_faulty` | MCEvalSession, EvalSessionFaulty | 341,151 | RejectedRunsNeverFinal, FinalIsOwnAndOnce, SettledFinalIsQuiet |
| `robodojo_auto` | MCRoboDojoAuto, RoboDojoAuto | 161,786 | TowerStands, GraspIsNear, SuccessIsReal |
| `segmentation` | MCSegmentationRun, SegmentationRun | 523,684 | ReadyTracesAreSound, PassIsComplete, SplitsInsideTheParent, VerdictsAgree |
| `evidence` | MCDemonstrationEvidence, DemonstrationEvidence | 338,080 | TrackletsShareOut, LinksAreOneToOne, StructureIsClosed, QuotesAgreeUnlessTorn |
| `policy_build` | MCPolicyBuild, PolicyBuild | 872,572 | OneCodePerDirectory, FunnelBlamesTheFailure, GraspsArePaired, ExtractedCyclesBind |
| `suite_faulty` | MCSuiteRun, SuiteRunFaulty | 237,187 | SuccessIsOwn, QuietStartsFromLayout, Finishes |
| `aspire` | MCAspireLoop, AspireLoop | 374,104 | ManifestIsEarned, ParentIsUnbeaten, Ends |
| `staged` | MCStagedExperiment, StagedExperiment | 582,866 | PickIsOwn, LedgerAgrees, ParentsPassed, OneLateSample, Concludes |
| `m1` | MCM1Run, M1Run | 226,276 | PreflightSuffices, AttachmentIsEarned, ControllersKeepContract, Returns |
| `m1_refused` | MCM1Run, M1RunRefused | violated | FailureIsLast (section 5) |
| `agent` | MCAgentController, AgentController | 141,002 | JudgesAreNotHeard, SpecIsSeen |

Every property stands beside its statement in the module. The type invariants,
PhasesLegal, FullMarksAreEarned, StopsAtSuccess, LineageGoesBack and StopIsKept
are stated in the modules too; they hold in these runs and are proved (section
4), so that no run repeats them.

Bounds, and why they are enough:

- *policy*: `MaxNodeVisits = 3` on a line of two nodes (the budget is not
  reached) and on a loop (it is); node `a` has two attempts and two identifiers
  to blame, so that a blame of the attempt before differs from this one's.
- *eval*: `MaxRuns = 3` is the session's run, the next, and one of another
  client; `MaxCalls = 6` lets a session be reset, broken, reset and finalized
  with one request still late.
- *robodojo*: a pickup beside its double, a pickup of an object the scene gives no
  position, two bottles and a bin, a tower of three, and a nearer tower whose base
  must be refused, are the kinds of goal the pool knows; each scene may be left with its objects changed about. Tier
  3 is the pickups, 4 the bottles and pairs of blocks, 5 the towers too; `Faulty` lets resets,
  generation, motions and readings fail.
- *segmentation*: two videos are what "complete" needs, three commands a
  segmentation, its refinement and an audit or a second attempt. The answers
  have unsorted, nested, empty, overlapping, out-of-range and compound segments,
  the refinements relative and absolute times, and every way to miss the window.
- *evidence*: five frames let a tracklet be left for `MaxGap = 2` frames and
  resumed or not; two cups cross, hide and come back beside a rack that stands
  still. With four ticks to the millisecond and a video of five and a half
  milliseconds, windows and phases collapse when they are rounded, ties round
  to either side, and an end at the end of the video is written past it. Two
  failures exhaust the one retry of a request; four commands are
  extract, enrich, export and one of them again.
- *policy_build*: demonstrations of two and three insertions, one with a grasp
  left out, one of disagreeing traces; hand-made graphs reversed, looping,
  untrusted. `MaxNodeVisits = 12` is passed by a chain of three cycles and not
  by one of two. `RunLengths` end a run at every action of a second cycle, inside a
  first one, with everything passed, and with the visits spent. Three commands are extract, compile, seeds, or seeds twice
  into the one directory, with one edit between any two steps.
- *suite*: three tasks of one candidate, the second resetting: an episode that
  leaves something, one that must not be deceived by it, and one that is not
  protected. Faults `lost`, `timeout`, `lag` are all on.
- *aspire*: two invocations of two generations are the least in which history
  crosses a restart and a parent may be of the wrong generation; two candidates
  make a generation mixed; both invocations have the same prefix, so that one
  id names several skills.
- *staged*: `Plans` is every selection of `bind`, `pick`, another stage and
  `home` in the guide's order, `Lifecycles` whether pick's candidate is
  maintained, and an initial pipeline an earlier program may have left busy.
- *m1*: `MaxProbes = 3` and two attempts per node as in the code; poses are 2 x 2
  by what the attachment gate tells apart (risen or not, strayed or not).
- *agent*: two reports, one of which may be cut short, each of every run, of a
  known or an unknown family, with three of the five visuals and seven pairs of
  verdicts, and a plan after any of them: two are what a repeated family takes.

Deadlock checking is off because every one of these programs ends.

Fairness:

- `NodePolicy!FairSpec`, `WF(Next)`: `run` is one synchronous call whose
  callables return or raise. Terminates rests on the visit budget only.
- `SuiteRun!FairSpec`: weak fairness of the runner's own thread. The pipeline
  owes nothing; `wait_done` has a deadline, so that Finishes holds though a skill
  never ends.
- `StagedExperiment!FairSpec`: the main thread's steps and each sampler thread's,
  whose exchanges have timeouts of their own; the pipeline owes nothing here either.
- `AspireLoop!FairSpec`: the `Work` of an invocation, never its `Stop`: model
  client and suite return or raise.
- `M1Run!FairSpec`: `Program`, the steps of the process. `ArmStops` is not
  fair: `_wait_arm` has a deadline and `PipelineClient` a timeout.
- The other modules have no liveness property: the adapter promises no progress,
  and the rest are commands that somebody gives, each a bounded loop.

## 4. The proofs

About 14,000 obligations in eight modules, for every value of the constants that
the assumptions admit.

| module | theorem | states | rests on |
|---|---|---|---|
| NodePolicyProofs | `Typing` | TypeInv | GraphAssumption, NodeAssumption (what `ConstraintGraph` and `Node` validate) |
| | `FreshEvidence` | ActsOnFreshEvidence | Evidence |
| | `AttemptBudget` | AttemptsAreCalls | Counting |
| | `OwnBlame` | BlameIsAttributable | Blaming, ContractAssumption |
| | `LegalPhases` | PhasesLegal | Phasing |
| | `Implements` | Spec => KeepsPromise, the refinement | Walking, Evidence |
| M1RunProofs | `Typing` | the type invariant of the policy inside the run | M1Assumption, TypeInv |
| | `KeepContract` | ControllersKeepContract | Contracted |
| | `PreflightIsEnough` | PreflightSuffices | TypeInv |
| | `AttachmentEarned` | AttachmentIsEarned | EarnedInv |
| | `OwnBlame`, `AttemptBudget` | a node is blamed on its own holes; AttemptsAreCalls of the policy as it runs here | Contracted; Counting |
| FrozenPolicyProofs | `Typing`, `PoisonOutlasts`, `OwnFinal` | EvalSession's TypeOK, RejectedRunsNeverFinal, FinalIsOwnAndOnce | BoundAssumption, IInv |
| | `SettledIsQuiet` | SettledFinalIsQuiet | IInv, Quiet |
| | `OneCode` | PolicyBuild's OneCodePerDirectory | ProtocolAssumption |
| | `GraspsPaired` | GraspsArePaired | DemonstrationsAssumption, CyclesArePaired |
| | `CyclesBound` | ExtractedCyclesBind | DemonstrationsAssumption, ControllersAssumption, ChainIsList |
| | `FunnelIsRight` | FunnelBlamesTheFailure | also FunnelAssumption; BlameInv |
| DemonstrationProofs | `PassingIsComplete` | PassIsComplete | SegmentationAssumption, IInv |
| | `ReadyIsSound`, `SplitsStayInside`, `VerdictsAreOne` | ReadyTracesAreSound, SplitsInsideTheParent, VerdictsAgree | AnswersAssumption, DurationAssumption, RunInv |
| | `QuotesHold` | QuotesAgreeUnlessTorn | FilesAssumption, Settled |
| | `TrackletsAreShared`, `LinksHold` | TrackletsShareOut, LinksAreOneToOne | EvidenceAssumption, ScenesAssumption, Filmed |
| | `StructuresClose` | StructureIsClosed | StructuresAssumption, TicksAssumption, ClosedInv |
| AutomationProofs | `Typing`, `OwnSuccess`, `EarnedMarks` | SuiteRun's TypeOK, SuccessIsOwn, FullMarksAreEarned | SuiteAssumption, IInv |
| | `QuietStart` | QuietStartsFromLayout | IInv, QInv |
| | `RealSuccess` | RoboDojoAuto's SuccessIsReal | Judged |
| | `PlansAreKept`, `TowersStand` | the plan of an item is kept; TowerStands | SuitesAssumption, PlanKept |
| | `GraspsAreNear` | GraspIsNear | SuitesAssumption, RoboDojoAssumption, GInv |
| | `AgentTyping`, `SeenFirst` | AgentController's AgentTypeOK, SpecIsSeen | AgentAssumption, Planned |
| | `NotHeard` | JudgesAreNotHeard | AlikeObservation, AlikeDecision |
| | `StopsForGood` | AgentSpec => StopIsKept | Earned |
| AspireLoopProofs | `Typing`, `StopsFirst` | TypeOK, StopsAtSuccess | LoopAssumption, Core |
| | `LineageEnds` | `~SamePrefix => (Spec => []LineageGoesBack)` | Lines |
| | `EarnedManifest` | ManifestIsEarned | Core, Whole |
| | `Unbeaten` | ParentIsUnbeaten | Core, Ranked |
| StagedExperimentProofs | `OwnPicks`, `PassedParents` | PickIsOwn, ParentsPassed | PlanAssumption, Inv |
| | `LedgerIsAgreed` | LedgerAgrees | Inv (`FrontIsAgreed`), Replays |
| | `LateOnce` | OneLateSample | Sampling |

ListingProofs has the facts about lists that DemonstrationProofs, AutomationProofs and
FrozenPolicyProofs cite.

*NodePolicy.* A visit ends in ten return statements and retries in two, so the
proof splits Next into `RunLoop`, `Ending` and `Continuing` and proves once what
each says. `Evidence`: an observation describes the scene until the controller
is called. `Counting`: `calls` is `attempt`, less the call not made yet.
`Blaming`: what is remembered to blame is this node's own. `PhaseAt` (in
`Phasing`) says which phase each `pc` is in, without which the next `track` could
not be known to be legal. `Walking` gives the abstract walk's place, and with it
each step is a step of PolicyContract or a stutter.

*M1Run.* The policy inside is NodePolicy instantiated, so its definitions are
there and its theorems are not: M1Runtime's observation and controllers replace
two of its actions. The proof splits Next into what happens outside the policy,
its loop, the ends of a visit, and the commands of a controller. `Contracted` says
that what a controller has answered, and what is remembered to blame, is the
node's own. AttachmentIsEarned speaks of a result long after the looks it rests
on: `Begun` says what the runtime may have been primed with until the policy looks
for the first time, `Shown` that a goal is accepted only of a pick with fresh
evidence or a reorient, `Risen` that the tube was then seen above the pose of the
preflight and not beside it, and `PicksRisen` keeps that for the results already
recorded. It is why a whole cycle stops before its align at the latest.

*EvalSession.* RejectedRunsNeverFinal is not inductive: a finalize in flight
would do. `InProgress` says what the session owns while an exchange is under
way and `Started` that runs only name runs that were; `Poison` ties the flag to
the set of rejected runs, which is what makes `reset`'s order (clear only after
the answer) matter. For SettledFinalIsQuiet, `AtRest` says where
nothing can move the robot: in the session's own run as long as each of its
skills was proved to have ended and none is on its way, and in a run that has
just begun; `QuietAnswer` that the final record on its way is a quiet one.

*Lists.* What a list that is filtered, sorted or joined holds is a matter of ranks: the
n-th member is the one with n - 1 before it. `Least` replaces induction: a
non-empty set of naturals has a least member, and the least counterexample has a
predecessor which is none. The same argument is used for the recursive
functions of the models (runs of frames, greedy matching, splits).

*Segmentation.* `Covered` is the loop's invariant: a segment command that is
running has left a trace or an error of every video that is not among those it
still has to do. With nothing to do and no error, no video is missing, however
many attempts left traces before.

For the other three, `RunInv` says of each file what its writer left in it: a kept
trace is one that normalisation and audit produced (`Filed`), a report is the
audit of traces as they then were (`Reported`), steps are those materialised from
the segments they name (`Stepped`), and a command in progress holds such things
(`Commanded`). What is left is about the operators. Normalised segments are a
`Timeline` (each within the video), children are a `Family` (each within a parent
of its seed, whether the answer's times are taken as relative or absolute),
`Clear` segments (no error of the audit) follow each other without overlap, and
the steps of a clear trace are ready, so that the two judges of readiness cannot
disagree about a trace that the audit passed.

*Demonstration evidence.* `Settled` says that files that name each other agree
unless `torn`, through retries, commands given up and extractions begun again; it
makes QuotesAgreeUnlessTorn, an action property, a fact about `ExportBundle`.
`Filmed` says that the tracklets on file were made from observations of frames.
Under it lies the loop over frames: `Good` is its invariant (every observation so
far is in exactly one tracklet, whose observations follow each other within
`MaxGap` frames and the distance the code allows), and `Decided` is what one
frame's matching says, for which greedy matching is shown to choose no tracklet
and no observation twice. `Linked` says the same of dense links. `Closed` says
that the instances that are kept have names of their own, refer to procedures that
are kept and lie within the video, their phases within them, as they are written:
`RoundedInOrder` says that rounding keeps the order of two times, though not that
they differ. TicksAssumption says only that a millisecond has some ticks.

*PolicyBuild.* `Claimed` and `Running` say what a run in progress may rely on: it
came into a directory that held nothing, and the seeds that have a manifest
are those selected and not to do. Without the refusal of a used directory the
manifests of an earlier code would stay beside the new snapshot.

The extractor's loop is a recursive function over the segments. `PairedBy` is what
it has made after each of them: every insertion so far has one cycle, with a grasp
after which no other insertion came, and what is pending is such a grasp
(`PairsStep`); `CyclesArePaired` follows from the least segment at which it would
fail. `Named` and `PlaceIs` say where the five nodes of a cycle are in the graph,
and `CyclesChain` that they are `Chained`: names differ, and each node leads to
the one after it. The chain of such a graph is its list of nodes (`ChainIsList`),
so that the n-th cycle begins at the n-th pick (`StartsAre`), its window is a sound
graph of its own once its end is closed (`WindowCloses`), and what is compiled in the
order of the chain binds in that of the list. For the funnel, `PassedIs` says
which actions have passed in a chain that repeats the cycle (all those before the
failed node in its cycle, and not its own), and `ResultIsBlamed` that the first
stage missing is then the failed node's; `Known` (a graph file is extracted or
written by hand) and `Blame` carry it to what the directories hold.

DemonstrationsAssumption says that segments have indices of their own, which
their writers give them and the extractor does not look at (it takes -1 for a
missing one, `extractor.py:41`), and that no graph written by hand has the id of an
extracted one: ids stand for digests here. FunnelAssumption is about the graphs
written by hand: those that can be run go through the whole of a cycle and repeat
it. The stages of `seed_harness.py` are named after the actions of this cycle, and
of a graph without an `align` the funnel would say that `align` failed although the
policy succeeded. ControllersAssumption has the five actions of `run_m1`, their
controllers, and that `max_node_visits` (32 by default, and nobody gives another) is
at least 3.

*SuiteRun.* SuccessIsOwn needs `OneSkill` (at most one skill is queued or
running) and `OwnPipeline`: after the reset of a resetting task, whatever
the pipeline shows is this episode's, so that the first terminal status is its
own. `Progress` gives one report per episode, from which EarnedMarks counts.
For QuietStartsFromLayout, `Calm` says that nothing has moved an object since the
layout was put back in an episode before which all was quiet.

*RoboDojoAuto.* `Judged`: a success on record means that the item is done and that
what it asks for holds, which no later step disturbs.

TowerStands is a fact about the pool: `PlanKept` says that the item in hand is
`Prepared`, with the plan of a chain of different objects, and every step
keeps it, whatever label is put first in its binding. That the pool holds nothing else
(`PoolIs`) is the work: its order is one of scores, scenes and keys, so that
scores are numbers (of what is rejected they need not be), keys are of a bounded
length and ordered as strings (`EarlierEither`, `EarlierOn`), a key tells its
item from the others of its suite (`SameItem`), and the variants of a
tower are permutations of its objects, none of them chosen twice (`ChosenTowers`).
`ChainStands` then follows the top of the tower through the plan.

GraspIsNear relates three readings of the camera: that of the selection, that of
the episode's check and that of the grasp. `Aim` carries the second over to the third: once
the first label passed, it was measured within the tolerance (`ValidateClose`,
`PreflightClose`: no later check of the same preflight writes to that argument),
and until something is grasped nothing moves what the camera read (`Rested`,
`SceneIsShown`, `Counted`). `Rested` is why the reset before the preflight is
needed: without it the layout need not be the one the target's position was read
from, and the label may be near to where nothing stands.

SuitesAssumption says what the files of a suite are like: ids are strings with a
place in the order of all of them, none of them is the word that begins the key of a tower,
positions are three numbers, the lists of a goal are lists, and a tower names each
of its objects once. RoboDojoAssumption
says of what a scene was left like only that its objects have positions.

*AspireLoop.* `Filed` says which reports can be on disk, `Searching` that no
generation before the current one has reached the threshold, `Settled` what
an ended invocation has decided. `Lines` adds that a parent is always of an
earlier generation; this fails when two invocations share a prefix, and the
theorem says so. `Whole` says that a suite is complete, with a report
of each task for each package, before it is distilled, and stays so. `Ranked`
says that while a generation is under way its leaderboard is the one of the
reports from before it, those of this run counted twice; `CountedAlike` turns
that into once or twice the tally of an id that is not mixed, and `SameRates`
that equal weights leave the order of two rates alone.

*StagedExperiment.* `Frontier` says how far the experiment came: `k` stages
passed, and everything else (gate, state, facts, what is skipped) follows from
`k`. `OwnPick` carries SuiteRun's `OneSkill` and `Owned` over to a pick, whose
suite runs on the pipeline the stages share, and `SuiteOver` what a suite leaves
when it is judged. The proof splits Next by thread: the main thread, the suite,
the pipeline alone, a sampler. `Sampling` says that only a sample under way when
its sampler is stopped is late. `Replays`: the prefix a candidate is packaged with
runs the stages that passed before it, in their order, whichever were skipped in
between.

*AgentController.* `Planned`: the plan last printed is that of a prefix of the
history, so that a property of plans is one of `Plan` over any sequence of
episodes. SpecIsSeen then rests on `BlindIsTold`: an episode whose frames were not
analysed has a gap that survives the boundary. NotHeard shows key by key that
`SafeFeedback` of two episodes that went alike and are confirmed alike is the
same (`AlikeFeedback`); it would not be, were they not confirmed alike.

Only model-checked:

- all liveness, and with it every use of fairness, which the prover does not
  handle: Terminates, Finishes, Ends, Concludes, Returns;
- `m1_refused`, which is a counterexample.

RECURSIVE operators and the library's induction theorems, which take an operator
as a parameter, cannot be used in a proof: what is computed along a sequence is
proved where it is written as a list of Listing or as a recursive function.
`ReportAssumption` is evaluated by TLC and used in no proof.

## 5. Where code and words disagree

`m1_refused`: `pick_controller` catches a `PipelineError` of its own module, the
client raises another class of that name; the failure meant to end the node is
retried (`runtime.py:395`).

Met while modelling, and in the models as the code has them, without a run:

- A skill whose exchange failed leaves the session finalizable while the robot
  moves (`adapter.py:190`). SettledFinalIsQuiet is about sessions all of whose
  skills were proved to have ended.
- The layout is put back before the pipeline is reset, so that a skill given up
  moves the objects in between (`ksm/runner.py:150`). QuietStartsFromLayout says
  what is left of a start from the layout.
- The memory of a candidate says `validated` or `failed` under keys the filter
  does not know, in a prompt that says success is omitted
  (`feedback_attribution.py:1034`, `aspire.py:238`). Evidence stops at the
  feedback of an episode.
- A graph of exactly `max_node_visits` nodes that all succeed is reported as
  "graph exceeded max_node_visits" (`runner.py:116`, `:139`), and a constraint
  that an earlier attempt named is returned with the last reason (`:238`).
- `confirmed_success_evidence` is true of an episode whose pipeline failed and
  whose predicate holds: its task failed and it is confirmed
  (`feedback_attribution.py:71`). JudgesAreNotHeard is stated among episodes that
  are confirmed alike for this reason.
- The older loop's `success` is the pipeline's, and the controller stops on it
  (`agent_state.py:450`). Its reports carry no feedback, so their gaps are not seen.
- `decide_next_action` sends a failed action to another iteration whether frames
  were looked at or not; `docs/agent_controller_migration.md:97` asks for
  enrichment first. A reuse route exists that no report written here leads to.
- `agent_observable_status` and `no_observable_visual_state_change` read flags of
  a schema that the prompt for the visual model no longer asks for.
- An `error.json` of a first attempt is not removed when a second one succeeds
  (`seg/cli.py:85`): the run stays failed until it is archived or cleaned.
- A layout reset that fails before the label preflight is recorded and not acted
  on (`robodojo_auto.py:183`); GraspIsNear is about runs whose reset succeeded.
- The frames' archive of dense tracking is rewritten before the evidence that
  summarises it (`dense_tracking.py:235`); a bundle exported after an enrichment
  given up in between joins the two. QuotesAgreeUnlessTorn says when.
- A window or phase of no length is dropped, but one shorter than half a
  millisecond may be written with its start equal to its end: times are compared
  before they are rounded (`operation_structure.py:188`, `:202`, `:213`). An end that
  was cut to the duration is rounded up with it and may lie past the video.
  StructureIsClosed says what is left: windows are in order, and phases in them.

## 6. What is not modelled

In the modelled components:

- JSON of graphs, receipts, digests and evidence contracts; the wording of
  prompts, reasons and reports; disk errors other than a file cut short or not
  written.
- A submission to the pipeline that arrives after its client gave it up
  (`ksm/runner.py:85`; SuiteRun delivers at once or never). No request carries an
  identity, so nothing the client does could tell; SuccessIsOwn is relative to
  this. In EvalSession, where the adapter can tell, late requests are modelled.
- Tasks with `reset_layout: false` are executed, but SuccessIsOwn is stated of
  resetting ones: the code has nothing to tell the others apart by
  (`suite_runner.py:212`).
- The label preflight of a suite (`suite_runner.py:187`), which only chooses a
  label; RoboDojoAuto has its own.
- `go_home` of a staged experiment does not reset: a submission the pipeline
  refuses leaves the pick's status (`staged_experiment.py:762`). PickIsOwn is
  about picks.
- An accepted command moves the arm at once in M1Run; an arm that has not
  begun to move looks settled to `_wait_arm` (`runtime.py:343`).
- The broker's registration checks, budgets and audit records; the candidate
  chain of M1, which is recorded and decides nothing.
- `ksm/staged_state.py`, which projects a finished run onto a guide.
- In AspireLoop: invocations with prefixes of their own are in the proofs and not
  in the run, whose shared prefix is the harder case.
- In RoboDojoAuto: `run_robodojo_staged_auto`, which hands its task to
  StagedExperiment, and `run_robodojo_decision`, which asks a model and counts
  its answers; the checks of labels of a staged task before its steps have moved
  anything (`grounding.py:101`).
- In segmentation: prompts, pixels, providers, and the scoring against
  references (`eval.py`); `--limit`, which segments the first videos only; the
  order in which the files of one video are written; a video whose duration is unknown, whose segments have no upper bound.
- In RoboDojoAuto, a tower that names an object twice: the code permutes the list
  and could plan the object onto itself (`robodojo_auto.py:1748`).
- In demonstration evidence: displacements, depth, previews and the tracking
  service's own files (`components/video-perception-service`) beyond what they
  answer; prompts that are the same under `_safe_name`; objects that first appear
  after their prompt's first frame, which are never tracked
  (`dense_tracking.py:440`); an `evidence_guided` structure, whose bundle is not
  compared with the trace.
- In PolicyBuild: the provenance of nodes and the diagnostics file; the grasp-only
  mode of `run_m1` and runs that write no policy file; `on_recoverable`, which the
  extractor writes and the runner does not follow; `isolation.py`, which nothing
  calls; graphs that loop, as the file a seed is run over. A file that changes
  between its scan and its digest is frozen unscanned (`metric_scan.py:313`): the
  model has the step, and no property says it cannot happen, because it can.
- In Evidence: subgoals, runtime arguments and the wording of summaries; failures
  of a run other than motion planning, the skill's own verifier and "another
  action"; the memory of a candidate, the stage prompts, `reflection.py` and
  `evaluation.py`.
- In AgentController: which candidate an episode belongs to, history roots that
  name a `suite_report.json`, and the checks of a generated skill against its
  specification.

Components without a module: the servo and candidate selection are planned;
policy/registry validation, the grasp tools, the doctor, the release check, the
command lines and the earlier ASPIRE loop are validators without state,
floating-point geometry, read-only probes or superseded.

## 7. Plan

Done, in this order: NodePolicy with PolicyContract, EvalSession, SuiteRun on
KwPipeline, AspireLoop, StagedExperiment, M1Run, AgentController on Evidence;
then RoboDojoAuto, SegmentationRun, DemonstrationEvidence and PolicyBuild; then the
theorems of section 4, those about RoboDojoAuto's plans and grasps and about
PolicyBuild's extractor and funnel last.

Next, the most decisive first:

1. *SkillSpec*: the checks of `agent_skill_spec.py` on a generated skill, and the
   stage decisions, composed with AgentController's proposal.
2. *Servo* and *MethodBroker* under M1Run: bounded observe-correct-verify (a
   convergence is reported with the error of a third observation, which may be
   above the tolerance), budgets of calls.
3. PolicyBuild composed with NodePolicy: that a graph the extractor writes
   satisfies the assumptions NodePolicy makes of one.
4. Candidate selection and grasp normalisation against reference definitions.
5. AgentController's history composed with AspireLoop's.

Abstract specifications worth stating: a suite as a judge of one episode at a
time (what AspireLoop and StagedExperiment use of SuiteRun), a final record as
one atomic step (what EvalSession offers), and a protocol's directory as one
write (what PolicyBuild's interruptions spoil).
