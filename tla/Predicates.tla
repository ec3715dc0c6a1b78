----------------------------- MODULE Predicates -----------------------------
(***************************************************************************)
(* How the success of a task is judged after an episode (ksm/predicate.py):*)
(* by Knowin World's own predicates when they can be imported, by the      *)
(* boxes of the scene's assets for "inside" alone when they cannot.        *)
(***************************************************************************)
EXTENDS Integers, Sequences, FiniteSets

NoBox == <<>>

(* Two centimetres inside the walls, three above the rim at most.          *)
CentreInside(source, container) ==
  /\ source # NoBox /\ container # NoBox
  /\ \A i \in {1, 2} : /\ 2 * (container.min[i] + 2) <= source.min[i] + source.max[i]
                       /\ source.min[i] + source.max[i] <= 2 * (container.max[i] - 2)
  /\ 2 * container.min[3] <= source.min[3] + source.max[3]
  /\ source.min[3] + source.max[3] <= 2 * (container.max[3] + 3)

(* The assets are a function from ids to boxes; holding is the set of      *)
(* predicates that Knowin World says hold of the scene, if it is available.*)
BoxOf(assets, id) == IF id \in DOMAIN assets THEN assets[id] ELSE NoBox

EvaluatePredicate(predicate, assets, available, holding) ==
  IF available THEN [supported |-> TRUE, success |-> predicate \in holding]
  ELSE [supported |-> predicate.type = "inside",
        success |-> predicate.type = "inside"
                    /\ CentreInside(BoxOf(assets, predicate.of), BoxOf(assets, predicate.in))]

(* Mutant: what cannot be evaluated counts for nothing.                    *)
JudgeSupported(checks) ==
  LET supported == { i \in DOMAIN checks : checks[i].supported }
  IN  CASE \E i \in supported : ~checks[i].success -> "false"
        [] OTHER -> "true"

(* One supported predicate that fails decides; success takes them all.     *)
Judge(checks) ==
  LET supported == { i \in DOMAIN checks : checks[i].supported }
  IN  CASE \E i \in supported : ~checks[i].success -> "false"
        [] (\A i \in supported : checks[i].success) /\ supported # {} /\ supported = DOMAIN checks -> "true"
        [] OTHER -> "none"

(* No predicates are not judged; a scene that cannot be fetched has failed.*)
EvaluateTaskPredicates(predicates, fetched, assets, available, holding) ==
  CASE predicates = <<>> -> "none"
    [] predicates # <<>> /\ ~fetched -> "false"
    [] OTHER -> Judge([i \in DOMAIN predicates |->
                         EvaluatePredicate(predicates[i], assets, available, holding)])
=============================================================================
