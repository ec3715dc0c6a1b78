---------------------------- MODULE RoboDojoAuto ----------------------------
(***************************************************************************)
(* run_robodojo_auto (ksm/robodojo_auto.py): a task is chosen from the     *)
(* pool, its labels are grounded, a skill is generated for it, the labels  *)
(* of the skill are checked twice more and the one episode of its suite is *)
(* run and judged.  The scene is whatever the WebUI shows: its objects are *)
(* where the last run left them until a reset puts them back, and a camera *)
(* reads the same labels the same way only as long as nothing moves.       *)
(***************************************************************************)
EXTENDS TaskPool, Predicates

CONSTANTS
  Tiers, MaxScenes,
  Wishes,      \* preferred_task_id, <<>> for none
  OwnLabels,   \* primary_pick_label of the operator, or NoLabel
  Left(_),     \* where the objects of a scene may have been left
  HalfOf(_),   \* half the width, depth and height of an asset of a category
  Faulty       \* whether requests, generation and motions may fail

ASSUME RoboDojoAssumption ==
  /\ Faulty \in BOOLEAN /\ MaxScenes \in Nat \ {0}
  /\ \A s \in DOMAIN Suites : \A id \in DOMAIN Left(s) : Left(s)[id] \in Position

VARIABLES
  stage,
  setting,    \* tier, execute, whether the pipeline is direct, reset_before_execute
  loaded,     \* the suite whose scene the WebUI shows, and whether ps shows it
  item,       \* the selected pool item
  layout,     \* where the objects of the loaded scene are
  view,       \* what the labels read so far were answered with: ids, or NoId
  preflight,  \* status of the layout reset before the preflight
  skill,      \* skill_args of the candidate and the defaults of its YAML
  report,     \* the last report on the skill's labels
  step,       \* the steps of the skill that are over
  grasped,    \* history: what each step grasped, and where it was
  outcome      \* of the episode

autoVars == <<stage, setting, loaded, item, layout, view, preflight, skill, report, step, grasped, outcome>>

Scene == Suites[loaded.suite].scene
Manifest(s) == Suites[s].scene.imports
NoItem == <<>>
NoResult == [pipeline |-> FALSE, predicates |-> "none", success |-> FALSE]

NoSetting == [tier |-> 0, execute |-> FALSE, direct |-> FALSE, reset |-> FALSE]
NoScene == [suite |-> 0, visible |-> FALSE]

AutoInit ==
  /\ stage = "call" /\ setting = NoSetting /\ loaded = NoScene /\ layout = <<>>
  /\ item = NoItem /\ view = <<>> /\ preflight = "skipped"
  /\ skill = [args |-> <<>>, defaults |-> <<>>] /\ report = Skipped(<<>>)
  /\ step = 0 /\ grasped = <<>> /\ outcome = NoResult

-----------------------------------------------------------------------------
(* Selection.                                                              *)

TaskId(chosen) == <<chosen.suite, chosen.key>>

(* _select_pool_item: the wish if it is in the pool, else the first.       *)
Selected(pool, wish) ==
  IF wish = <<>> THEN pool[1] ELSE pool[CHOOSE i \in DOMAIN pool : TaskId(pool[i]) = wish]

(* _with_binding_label_overrides: the binding only, never the plan.        *)
WithPickLabel(chosen, label) ==
  IF ~IsLabel(label) THEN chosen
  ELSE [chosen EXCEPT !.binding.pick = label,
                      !.binding.picks = Dedupe(<<label>> \o @),
                      !.binding.hints = Dedupe(<<label>> \o @)]

Abort == stage' = "aborted" /\ UNCHANGED <<setting, loaded, item, layout, view, preflight, skill,
                                        report, step, grasped, outcome>>

(* The call, whatever the WebUI shows just then.  An empty pool and a wish *)
(* outside it raise.                                                       *)
Select ==
  /\ stage = "call"
  /\ \E tier \in Tiers : \E pool \in { DiscoverTaskPool(Classes(tier), tier, MaxScenes) } :
       \E execute, direct, reset, visible \in BOOLEAN, s \in DOMAIN Suites,
          wish \in Wishes, label \in OwnLabels :
         /\ setting' = [tier |-> tier, execute |-> execute, direct |-> direct, reset |-> reset]
         /\ loaded' = [suite |-> s, visible |-> visible]
         /\ layout' \in {Manifest(s), Left(s)}
         /\ IF pool = <<>> \/ (wish # <<>> /\ \A i \in DOMAIN pool : TaskId(pool[i]) # wish)
            THEN stage' = "aborted" /\ UNCHANGED item
            ELSE stage' = "align" /\ item' = WithPickLabel(Selected(pool, wish), label)
  /\ UNCHANGED <<view, preflight, skill, report, step, grasped, outcome>>

(* _scene_alignment_report: only a scene that ps shows can be a mismatch.  *)
Align ==
  /\ stage = "align"
  /\ IF setting.execute /\ loaded.visible /\ loaded.suite # item.suite THEN Abort
     ELSE stage' = "reset" /\ UNCHANGED <<setting, loaded, item, layout, view, preflight, skill,
                                       report, step, grasped, outcome>>

(* A scene that stays as it is reads as before.                            *)
Settles(places) == layout' = places /\ view' = (IF places = layout THEN view ELSE <<>>)

(* _reset_webui_layout_for_preflight: a failure is noted and goes on.      *)
ResetForPreflight ==
  /\ stage = "reset" /\ stage' = "ground"
  /\ \/ ~(setting.execute /\ setting.direct) /\ UNCHANGED <<layout, view, preflight>>
     \/ setting.execute /\ setting.direct /\ Settles(Manifest(loaded.suite)) /\ preflight' = "ok"
     \/ /\ Faulty /\ setting.execute /\ setting.direct
        /\ Settles(layout) \/ Settles(Manifest(loaded.suite))
        /\ preflight' = "failed"
  /\ UNCHANGED <<setting, loaded, item, skill, report, step, grasped, outcome>>

-----------------------------------------------------------------------------
(* The camera.                                                             *)

(* What a label may be taken for: a look or a word for any object it fits, *)
(* an id for its own.                                                      *)
Fits(label) ==
  CASE label.by = "look" -> { id \in DOMAIN layout : Contains(VisualLabels(AssetOf(Scene, id)), label) }
    [] label.by \in {"kind", "word"} -> { id \in DOMAIN layout : AssetOf(Scene, id).category = label.word }
    [] OTHER -> { id \in DOMAIN layout : Ref(id) = label }

(* The ways the labels asked for can be read, as far as they were not yet. *)
Readings(labels) ==
  LET fresh == labels \ DOMAIN view
      seen(l) == (IF Faulty THEN {NoId} ELSE {}) \cup (IF Fits(l) = {} THEN {NoId} ELSE Fits(l))
  IN  { [l \in labels \cup DOMAIN view |-> IF l \in fresh THEN more[l] ELSE view[l]] : more \in
          { f \in [fresh -> DOMAIN layout \cup {NoId}] : \A l \in fresh : f[l] \in seen(l) } }

Seen(reading) == [l \in DOMAIN reading |-> IF reading[l] = NoId THEN Nowhere ELSE layout[reading[l]]]

(* _grounding_candidate_labels: the id of the target is not a name a       *)
(* camera knows.                                                           *)
CandidateLabels(chosen) ==
  LET labels == Dedupe(chosen.binding.picks \o chosen.binding.hints \o <<chosen.binding.pick>>)
  IN  Chosen(labels, { i \in DOMAIN labels : labels[i] # Ref(chosen.target) })

(* _grounding_preflight: the best label that grounds at all is selected,   *)
(* wherever it grounds; none at all raises.                                *)
GroundSelection ==
  /\ stage = "ground"
  /\ \/ ~(setting.execute /\ setting.direct) /\ stage' = "generate" /\ UNCHANGED <<item, view>>
     \/ /\ setting.execute /\ setting.direct
        /\ LET labels == FirstOf(CandidateLabels(item), 8) IN
           \E reading \in Readings(ToSet(labels)) :
             LET best == ChooseGrounded([i \in DOMAIN labels |->
                                           Attempt(Seen(reading), labels[i], item.targetAt)])
             IN  /\ view' = reading
                 /\ IF best = NoAttempt THEN stage' = "aborted" /\ UNCHANGED item
                    ELSE /\ stage' = "generate"
                         /\ item' = (IF best.label = item.binding.pick THEN item
                                     ELSE WithPickLabel(item, best.label))
  /\ UNCHANGED <<setting, loaded, layout, preflight, skill, report, step, grasped, outcome>>

-----------------------------------------------------------------------------
(* The candidate.                                                          *)

(* What the model may answer: the labels of the binding or the plan, or    *)
(* the last of the candidates, which may be the id.                        *)
Answers ==
  IF item.plan # <<>>
  THEN { [a \in UNION { {item.plan[i].pickArg, item.plan[i].placeArg} : i \in DOMAIN item.plan } |->
            LET i == a[2] IN IF a[1] = "pick" THEN item.plan[i].pick ELSE item.plan[i].place] }
  ELSE { IF item.place = NoId THEN WithArg(<<>>, PickArg(0), pick)
         ELSE WithArg(WithArg(<<>>, PickArg(0), pick), PlaceArg(0), item.binding.place) :
         pick \in {item.binding.pick, Last(item.binding.picks)} }

(* generate_skill_from_task_llm: the YAML takes the arguments as defaults, *)
(* unless it has its own.                                                  *)
Generate ==
  /\ stage = "generate"
  /\ \/ Faulty /\ Abort
     \/ \E args \in Answers, own \in {NoLabel, item.binding.pick} :
          /\ skill' = [args |-> args,
                       defaults |-> IF IsLabel(own) THEN WithArg(args, PickArg(0), own) ELSE args]
          /\ stage' = "check"
          /\ UNCHANGED <<setting, loaded, item, layout, view, preflight, report, step, grasped, outcome>>

(* Of a stack or a container task both labels are checked; the pick label  *)
(* even where the scene gives its object no position.                      *)
CandidateChecks ==
  IF item.plan # <<>> THEN PlanChecks(item.plan)
  ELSE << [ToCheck(PickArg(0), CandidateLabels(item), item.targetAt) EXCEPT !.always = TRUE],
          ToCheck(PlaceArg(0), <<item.binding.place>> \o item.binding.places, item.placeAt) >>

(* _sync_generated_skill_arg_defaults.                                     *)
Synced(defaults, args) ==
  [a \in DOMAIN defaults |-> IF a \in DOMAIN args THEN args[a] ELSE defaults[a]]

(* _candidate_arg_preflight, and the package with what it found: a check   *)
(* that fails is written down and nothing else.                            *)
CheckArgs ==
  /\ stage = "check" /\ stage' = "episode"
  /\ IF setting.execute /\ setting.direct
     THEN \E reading \in Readings(Asked(CandidateChecks, skill.args)) :
            view' = reading /\ report' = Preflight(Seen(reading), skill.args, CandidateChecks)
     ELSE view' = view /\ report' = Skipped(skill.args)
  /\ skill' = [args |-> report'.args, defaults |-> Synced(skill.defaults, report'.args)]
  /\ UNCHANGED <<setting, loaded, item, layout, preflight, step, grasped, outcome>>

-----------------------------------------------------------------------------
(* The episode of the suite, with the task file's own binding.             *)

EpisodeChecks == RuntimeChecks(item.binding, item.plan, item.targetAt, item.placeAt)

(* The labels are checked before the reset of the episode.                 *)
CheckEpisode ==
  /\ stage = "episode"
  /\ stage' = (IF ~setting.execute \/ ~setting.direct THEN "judge"
            ELSE IF setting.reset THEN "layout" ELSE "run")
  /\ IF setting.execute /\ setting.direct
     THEN \E reading \in Readings(Asked(EpisodeChecks, skill.args)) :
            view' = reading /\ report' = Preflight(Seen(reading), skill.args, EpisodeChecks)
     ELSE view' = view /\ report' = Skipped(skill.args)
  /\ UNCHANGED <<setting, loaded, item, layout, preflight, skill, step, grasped, outcome>>

(* The reset of the episode; a failure is the end of it.                   *)
ResetForEpisode ==
  /\ stage = "layout"
  /\ \/ Settles(Manifest(loaded.suite)) /\ stage' = "run"
     \/ Faulty /\ (Settles(layout) \/ Settles(Manifest(loaded.suite))) /\ stage' = "judge"
  /\ UNCHANGED <<setting, loaded, item, preflight, skill, report, step, grasped, outcome>>

Operations == IF item.plan = <<>> THEN 1 ELSE Len(item.plan)
ArgNumber == IF item.plan = <<>> THEN 0 ELSE step + 1
Runtime(arg) == IF arg \in DOMAIN report.args THEN report.args[arg] ELSE ArgOf(skill.defaults, arg)

On(at, category) == IF category = "dustbin" THEN at ELSE <<at[1], at[2], at[3] + 6>>

(* The skill takes what its label reads as, now, and puts it onto what the *)
(* place label reads as; without a place label it lifts it.                *)
Operate ==
  /\ stage = "run"
  /\ LET pick == Runtime(PickArg(ArgNumber))  place == Runtime(PlaceArg(ArgNumber)) IN
     \E reading \in Readings({pick, place} \ {NoLabel}) :
       LET object == IF IsLabel(pick) THEN reading[pick] ELSE NoId
           goal == IF IsLabel(place) THEN reading[place] ELSE NoId
           there == IF ~IsLabel(place) THEN <<layout[object][1], layout[object][2], layout[object][3] + 20>>
                    ELSE On(layout[goal], AssetOf(Scene, goal).category)
       IN  IF object = NoId \/ (IsLabel(place) /\ goal \in {NoId, object})
           THEN /\ stage' = "judge" /\ view' = reading
                /\ UNCHANGED <<layout, step, grasped, outcome>>
           ELSE /\ grasped' = Append(grasped, [object |-> object, at |-> layout[object]])
                /\ \/ layout' = [layout EXCEPT ![object] = there]
                   \/ Faulty /\ layout' = [layout EXCEPT ![object] = <<@[1], @[2] + 25, @[3]>>]
                /\ view' = <<>> /\ step' = step + 1
                /\ stage' = (IF step + 1 = Operations THEN "judge" ELSE "run")
                /\ outcome' = [outcome EXCEPT !.pipeline = (step + 1 = Operations)]
  /\ UNCHANGED <<setting, loaded, item, preflight, skill, report>>

-----------------------------------------------------------------------------
(* The verdict.                                                            *)

Box(id) ==
  LET half == HalfOf(AssetOf(Scene, id).category)  at == layout[id]
  IN  [min |-> [i \in 1..3 |-> at[i] - half[i]], max |-> [i \in 1..3 |-> at[i] + half[i]]]

Rests(top, bottom) ==
  /\ {top, bottom} \subseteq DOMAIN layout
  /\ Distance(layout[top], layout[bottom]) <= 3
  /\ layout[top][3] - layout[bottom][3] \in 3..9

Boxes == [id \in DOMAIN layout |-> Box(id)]

(* What Knowin World's predicates say of the scene.                        *)
Holding ==
  { p \in ToSet(item.success) :
      CASE p.type = "stacked" -> Rests(p.of, p.in)
        [] p.type = "inside"  -> CentreInside(BoxOf(Boxes, p.of), BoxOf(Boxes, p.in))
        [] p.type = "lift"    -> p.of \in DOMAIN layout /\ layout[p.of][3] >= AtOf(Scene, p.of)[3] + 10
        [] OTHER -> FALSE }

(* The report of the run: success is the success of the one episode.       *)
JudgeEpisode ==
  /\ stage = "judge" /\ stage' = "done"
  /\ \E available \in BOOLEAN, fetched \in (IF Faulty THEN BOOLEAN ELSE {TRUE}) :
       LET verdict == IF setting.execute
                      THEN EvaluateTaskPredicates(item.success, fetched, Boxes, available, Holding)
                      ELSE "none"
       IN  outcome' = [outcome EXCEPT !.predicates = verdict,
                                    !.success = outcome.pipeline /\ verdict = "true"]
  /\ UNCHANGED <<setting, loaded, item, layout, view, preflight, skill, report, step, grasped>>

-----------------------------------------------------------------------------
AutoNext == \/ Select \/ Align \/ ResetForPreflight \/ GroundSelection \/ Generate \/ CheckArgs
        \/ CheckEpisode \/ ResetForEpisode \/ Operate \/ JudgeEpisode

AutoSpec == AutoInit /\ [][AutoNext]_autoVars

-----------------------------------------------------------------------------
(* Properties.                                                             *)

(* The objects a task is about; of a tower every one, the base included.   *)
Involved == IF item.plan # <<>> THEN UNION { {item.plan[i].source, item.plan[i].support} : i \in DOMAIN item.plan }
            ELSE {item.target, item.place} \ {NoId}
(* The steps of a plan, carried out in their order, build one tower of the *)
(* objects: whatever a step moves is free, whatever it is put on is free,  *)
(* and at the end every predicate of the task's success holds at once      *)
(* (_stateful_stack_steps and its current_top).                            *)
TowerStands ==
  item # NoItem /\ item.plan # <<>> =>
    LET plan == item.plan
        under(n, id) == { plan[i].support : i \in { j \in 1..n : plan[j].source = id } }
        free(n, id) == \A i \in 1..n : plan[i].support # id \/ \E j \in (i + 1)..n : plan[j].source = plan[i].source
    IN  /\ \A n \in DOMAIN plan : free(n - 1, plan[n].source) /\ free(n - 1, plan[n].support)
        /\ \A i \in DOMAIN item.success :
             under(Len(plan), item.success[i].of) = {item.success[i].in}
        /\ Cardinality(Involved) = Len(plan) + 1

(* A skill whose last check let its first label pass, and whose scene was  *)
(* put back before it was looked at, grasps nothing farther than the       *)
(* tolerance from where the selected object stands, or fails to grasp: no  *)
(* matter which scene the WebUI shows, what it was left like, which label  *)
(* the preflight preferred and what the model made of it.                  *)
FirstArg == PickArg(IF item.plan = <<>> THEN 0 ELSE 1)
GraspIsNear ==
  /\ grasped # <<>> /\ preflight = "ok"
  /\ FirstArg \in DOMAIN report.checks /\ report.checks[FirstArg] \in {"ok", "overrode"}
  => Distance(grasped[1].at, item.targetAt) <= Tolerance

(* A run that reports success leaves every predicate of its task true in   *)
(* the scene, whether Knowin World's predicates were there or not.         *)
SuccessIsReal ==
  outcome.success => ToSet(item.success) \subseteq Holding
=============================================================================
