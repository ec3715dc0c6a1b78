----------------------------- MODULE Grounding -----------------------------
(***************************************************************************)
(* The label checks of ksm/grounding.py and of robodojo_auto.py: before a  *)
(* skill runs, each label it takes is grounded in the camera's view and    *)
(* compared with the position the scene gives its object.  A view is a     *)
(* function from labels to the position the model answers with, Nowhere    *)
(* when it finds nothing, raises or answers what cannot be parsed.         *)
(* Positions are <<x, y, z>> in centimetres; the arguments of a skill are  *)
(* a function from argument names to labels.                               *)
(***************************************************************************)
EXTENDS Listing, SequencesExt, FiniteSetsExt

Nowhere == <<>>
Unmeasured == -1
Tolerance == 12

(* A label names its object by its look ("red block:dof"), by a word of    *)
(* the list of generic words, by another word or by its id in the scene.   *)
NoLabel == [by |-> "nothing", word |-> ""]
IsLabel(label) == label # NoLabel

Dedupe(labels) ==
  Chosen(labels, { i \in DOMAIN labels : IsLabel(labels[i]) /\ \A j \in 1..(i - 1) : labels[j] # labels[i] })

(* A colour adds five, ":dof" one; an id of a block or a prop loses one.   *)
Specificity(label) ==
  CASE label.by = "look"  -> 7
    [] label.by = "word"  -> 1
    [] label.by = "kind"  -> 0
    [] label.by = "ref"   -> 0
    [] OTHER              -> -10

Squared(n) == n * n

(* The distance on the table, in whole centimetres.                        *)
Distance(p, q) ==
  LET d == Squared(p[1] - q[1]) + Squared(p[2] - q[2])
  IN  CHOOSE n \in 0..d : Squared(n) <= d /\ d < Squared(n + 1)

NoAttempt == [label |-> NoLabel, success |-> FALSE, distance |-> Unmeasured]

Attempt(view, label, target) ==
  [label |-> label, success |-> view[label] # Nowhere,
   distance |-> IF view[label] = Nowhere \/ target = Nowhere THEN Unmeasured
                ELSE Distance(view[label], target)]

(* The first of the best: the more specific, then the nearer.              *)
Better(a, b) == \/ Specificity(a.label) > Specificity(b.label)
                \/ Specificity(a.label) = Specificity(b.label) /\ a.distance < b.distance
Foremost(attempts) ==
  attempts[CHOOSE i \in DOMAIN attempts :
             \A j \in DOMAIN attempts : /\ ~Better(attempts[j], attempts[i])
                                        /\ j < i => Better(attempts[i], attempts[j])]

(* Among the labels that ground within two centimetres of the nearest one, *)
(* the most specific.                                                      *)
ChooseGrounded(attempts) ==
  LET successes == { i \in DOMAIN attempts : attempts[i].success }
      measured == { i \in successes : attempts[i].distance # Unmeasured }
      least == Min({ attempts[i].distance : i \in measured })
      near == { i \in measured : attempts[i].distance <= least + 2 }
  IN  IF successes = {} THEN NoAttempt
      ELSE Foremost(Chosen(attempts, IF measured = {} THEN successes ELSE near))

(* Mutant: a label that grounds anywhere is near enough.                   *)
MatchesAnywhere(attempt) == attempt.success

Matches(attempt) ==
  attempt.success /\ (attempt.distance = Unmeasured \/ attempt.distance <= Tolerance)

FirstOf(labels, n) == [i \in 1..(IF Len(labels) < n THEN Len(labels) ELSE n) |-> labels[i]]

(* The label stays if it grounds near its object; otherwise the best of    *)
(* the candidates that does replaces it; otherwise it stays and the check  *)
(* fails.                                                                  *)
ValidateLabel(view, current, target, labels) ==
  LET tried == FirstOf(Dedupe(<<current>> \o labels), 10)
      attempts == [i \in DOMAIN tried |-> Attempt(view, tried[i], target)]
      chosen == ChooseGrounded(attempts)
      currentOk == \E i \in DOMAIN attempts : attempts[i].label = current /\ Matches(attempts[i])
  IN  CASE currentOk -> [status |-> "ok", label |-> current]
        [] ~currentOk /\ Matches(chosen) -> [status |-> "overrode", label |-> chosen.label]
        [] OTHER -> [status |-> "failed", label |-> current]

-----------------------------------------------------------------------------
(* A preflight: a list of arguments to check, each with its candidates and *)
(* the position of its object, and the report it leaves.                   *)

ToCheck(arg, labels, target) == [arg |-> arg, labels |-> labels, target |-> target, always |-> FALSE]

ArgOf(args, arg) == IF arg \in DOMAIN args THEN args[arg] ELSE NoLabel

(* The labels a list of checks asks the model for.                         *)
Asked(checks, args) ==
  UNION { ToSet(FirstOf(Dedupe(<<ArgOf(args, checks[i].arg)>> \o checks[i].labels), 10)) :
          i \in DOMAIN checks }

WithArg(args, arg, label) ==
  [a \in DOMAIN args \cup {arg} |-> IF a = arg THEN label ELSE args[a]]

(* _apply_selected_label: what is selected replaces what was given.        *)
ApplySelected(report, arg, check) ==
  [report EXCEPT
     !.checks = WithArg(@, arg, check.status),
     !.args = IF IsLabel(check.label) /\ check.label # ArgOf(report.given, arg)
              THEN WithArg(@, arg, check.label) ELSE @,
     !.overrides = IF IsLabel(check.label) /\ check.label # ArgOf(report.given, arg)
                   THEN @ \cup {arg} ELSE @]

(* A check of an object without a position, or of no label, is left out    *)
(* unless it is always made.                                               *)
Check(report, view, check) ==
  LET labels == Dedupe(<<ArgOf(report.given, check.arg)>> \o check.labels)
  IN  IF ~check.always /\ (check.target = Nowhere \/ labels = <<>>)
      THEN [report EXCEPT !.checks = WithArg(@, check.arg, "skipped")]
      ELSE ApplySelected(report, check.arg,
             ValidateLabel(view, ArgOf(report.given, check.arg), check.target, check.labels))

(* _finalize_preflight_status.                                             *)
Finalize(report) ==
  LET failed == { arg \in DOMAIN report.checks : report.checks[arg] = "failed" }
  IN  [report EXCEPT !.status =
         CASE failed # {} /\ report.overrides # {} -> "failed_with_overrides"
           [] failed # {} /\ report.overrides = {} -> "failed"
           [] failed = {} /\ report.overrides # {} -> "overrode"
           [] OTHER -> @]

Skipped(args) == [status |-> "skipped", given |-> args, args |-> args,
                  checks |-> <<>>, overrides |-> {}]

Preflight(view, args, checks) ==
  LET upto[n \in 0..Len(checks)] ==
        IF n = 0 THEN [Skipped(args) EXCEPT !.status = "ok"] ELSE Check(upto[n - 1], view, checks[n])
  IN  Finalize(upto[Len(checks)])

(* apply_stateful_plan_preflight: both labels of every step, before the    *)
(* first one moves anything.                                               *)
PlanChecks(plan) ==
  [n \in 1..(2 * Len(plan)) |->
    LET at == plan[(n + 1) \div 2] IN
    IF n % 2 = 1 THEN ToCheck(at.pickArg, <<at.pick>> \o at.picks, at.sourceAt)
    ELSE ToCheck(at.placeArg, <<at.place>> \o at.places, at.supportAt)]

PickArg(i) == <<"pick", i>>
PlaceArg(i) == <<"place", i>>

(* preflight_runtime_skill_args of an episode.                             *)
RuntimeChecks(binding, plan, target, place) ==
  IF plan # <<>> THEN PlanChecks(plan)
  ELSE << ToCheck(PickArg(0), <<binding.pick>> \o binding.picks \o binding.hints, target),
          ToCheck(PlaceArg(0), <<binding.place>> \o binding.places, place) >>
=============================================================================
