------------------------------ MODULE TaskPool ------------------------------
(***************************************************************************)
(* Admission, binding and scoring of RoboDojo tasks (discover_task_pool in *)
(* ksm/robodojo_auto.py), as operators over what the suite and scene files *)
(* say.  Positions are in centimetres, scores in thousandths of a point.   *)
(***************************************************************************)
EXTENDS Grounding

CONSTANTS
  Suites,   \* the suite files of every task class, in the order of their names
  Skills,   \* the skill paths of the registry the pool looks for
  Names     \* the ids of all assets, in the order of their text

(* A suite is a record                                                     *)
(*   [class, readable, precise, scene, goal]                               *)
(* of its task class, whether its files parse, whether its wording suggests*)
(* a missing primitive, its scene and the predicates of its success.  A    *)
(* scene has assets, a function from ids to what is known of an asset, and *)
(* imports, a function from ids to positions.                              *)

Position == Int \X Int \X Int
Listed(s) == Len(s) \in Nat /\ DOMAIN s = 1..Len(s)

Stacked(top, bottom) == [type |-> "stacked", of |-> top, in |-> bottom]
Inside(object, container) == [type |-> "inside", of |-> object, in |-> container]

(* Every id is one of the names, and none is the word that begins the key  *)
(* of a tower.  A tower names each of its objects once.                    *)
SceneIsGiven(scene) ==
  /\ DOMAIN scene.assets \subseteq ToSet(Names) \ {"stateful"}
  /\ \A id \in DOMAIN scene.assets : IsFiniteSet(DOMAIN scene.assets[id].counts)
  /\ \A id \in DOMAIN scene.imports : scene.imports[id] \in Position
GoalIsGiven(goal) ==
  /\ Listed(goal)
  /\ \A i \in DOMAIN goal : /\ goal[i].type = "tower" => Listed(goal[i].objects) /\ IsInjective(goal[i].objects)
                            /\ goal[i].type = "inside" => goal[i] = Inside(goal[i].of, goal[i].in)

ASSUME SuitesAssumption ==
  /\ Listed(Suites) /\ Listed(Names) /\ {"stateful", "target_prop"} \subseteq ToSet(Names)
  /\ \A s \in DOMAIN Suites : SceneIsGiven(Suites[s].scene) /\ GoalIsGiven(Suites[s].goal)

HighRisk == {"card", "coin", "earbuds", "key", "paper", "scissors", "thread"}
Preferred == [can |-> 30, cup |-> 24, bottle |-> 22, box |-> 20, bowl |-> 18, block |-> 16, dice |-> 12]
Generic == {"block", "bottle", "can", "cup", "box", "bowl"}

NoAsset == [category |-> "", qualified |-> FALSE, collision |-> FALSE, mesh |-> FALSE, counts |-> <<>>]
AssetOf(scene, id) == IF id \in DOMAIN scene.assets THEN scene.assets[id] ELSE NoAsset
AtOf(scene, id) == IF id \in DOMAIN scene.imports THEN scene.imports[id] ELSE Nowhere

Abs(n) == IF n < 0 THEN -n ELSE n
AtLeast(least, n) == IF n < least THEN least ELSE n
AtMost(most, n) == IF n > most THEN most ELSE n

-----------------------------------------------------------------------------
(* What a camera may call an asset.                                        *)

Colours == <<"blue", "green", "orange", "pink", "purple", "red", "white", "yellow">>
ColourIndex(colour) == CHOOSE i \in DOMAIN Colours : Colours[i] = colour

(* Two colours at most, and white only beside one other or beside blue.    *)
StrongColours(ranked, strong) ==
  CASE strong = <<>> -> ranked
    [] strong # <<>> /\ Contains(ranked, "white") /\ Contains(strong, "blue") ->
         <<strong[1], "white">> \o Tail(strong)
    [] strong # <<>> /\ Contains(ranked, "white") /\ Len(strong) = 1
         /\ ~Contains(strong, "blue") -> Append(strong, "white")
    [] OTHER -> strong

RankedColours(counts) ==
  LET more(c, d) == \/ counts[c] > counts[d]
                    \/ counts[c] = counts[d] /\ ColourIndex(c) < ColourIndex(d)
  IN  InOrder(DOMAIN counts, { r \in (DOMAIN counts) \X (DOMAIN counts) : more(r[1], r[2]) })

DominantColours(counts) ==
  LET ranked == RankedColours(counts)
  IN  StrongColours(ranked, FirstOf(Chosen(ranked, { i \in DOMAIN ranked : ranked[i] # "white" }), 2))

Look(words, category) == [by |-> "look", word |-> words \o " " \o category]
Kind(category) == [by |-> IF category \in Generic THEN "kind" ELSE "word", word |-> category]
Ref(id) == [by |-> "ref", word |-> id]

(* _asset_visual_pick_labels.                                              *)
Looks(colours, category) ==
  (IF Len(colours) >= 2 /\ {"blue", "white"} \subseteq ToSet(FirstOf(colours, 3))
   THEN <<Look("blue and white", category)>> ELSE <<>>)
  \o [i \in DOMAIN FirstOf(colours, 2) |-> Look(colours[i], category)]

VisualLabels(asset) == Looks(DominantColours(asset.counts), asset.category)

CategoryLabels(category) ==
  IF category = "can" THEN <<Look("red", "can"), Kind("can")>> ELSE <<Kind(category)>>

(* _binding: the looks first, then the category, the id last.              *)
BindingOf(looks, picks) ==
  [pick |-> picks[1], picks |-> picks, hints |-> looks, place |-> NoLabel, places |-> <<>>]

PickLabels(id, asset) ==
  Dedupe(VisualLabels(asset) \o CategoryLabels(asset.category) \o <<Ref(id), Kind(asset.category)>>)

Binding(id, asset) == BindingOf(VisualLabels(asset), PickLabels(id, asset))

WithPlaces(binding, places) == [binding EXCEPT !.places = places, !.place = places[1]]

MultiBinding(id, asset, placeId, place) ==
  WithPlaces(Binding(id, asset), Dedupe(<<Kind(place.category), Ref(placeId)>>))

SupportLabels(id, asset) ==
  Dedupe(PickLabels(id, asset) \o <<Kind(asset.category), Ref(id)>>)

StackBinding(id, asset, supportId, support) ==
  WithPlaces(Binding(id, asset), SupportLabels(supportId, support))

-----------------------------------------------------------------------------
(* Admission: the reasons to refuse a task, none for one that is accepted. *)

Has(skill) == skill \in Skills

InWorkspace(at, side) ==
  at # Nowhere /\ at[1] \in 25..115 /\ Abs(at[2]) <= side /\ at[3] \in 35..110

Reasons(checks) == { r \in DOMAIN checks : checks[r] }

Admit(suite, asset, at) ==
  Reasons([ class     |-> suite.class \notin {"general_pickup", "put_bottles_into_dustbin", "stack_blocks"},
            precision |-> suite.precise,
            missing   |-> asset = NoAsset,
            qualified |-> asset # NoAsset /\ ~asset.qualified,
            collision |-> asset # NoAsset /\ ~asset.collision,
            risk      |-> asset.category \in HighRisk,
            skill     |-> ~Has("pickplace") /\ ~Has("pick"),
            pose      |-> at # Nowhere /\ ~(at[1] \in 25..110 /\ Abs(at[2]) <= 55 /\ at[3] \in 70..105) ])

AdmitPickplace(source, sourceAt, place) ==
  Reasons([ qualified |-> ~source.qualified, collision |-> ~source.collision,
            place |-> ~place.qualified, risk |-> source.category \in HighRisk,
            skill |-> ~Has("pickplace"), pose |-> ~InWorkspace(sourceAt, 55) ])

AdmitStackPair(source, sourceAt, support, supportAt) ==
  Reasons([ qualified |-> ~source.qualified, collision |-> ~source.collision,
            supportQualified |-> ~support.qualified, supportCollision |-> ~support.collision,
            pick |-> ~Has("pick"), place |-> ~Has("place"),
            pose |-> ~InWorkspace(sourceAt, 60), supportPose |-> ~InWorkspace(supportAt, 60) ])

PairReasons(scene, source, support) ==
  AdmitStackPair(AssetOf(scene, source), AtOf(scene, source), AssetOf(scene, support), AtOf(scene, support))

(* Every step of a tower, each onto the object before it.                  *)
AdmitStackChain(scene, chain) ==
  UNION { { <<i - 1, r>> : r \in PairReasons(scene, chain[i], chain[i - 1]) } : i \in 2..Len(chain) }

-----------------------------------------------------------------------------
(* Scores of accepted tasks.                                               *)

Score(class, asset, at) ==
  100000 + (IF asset.category \in DOMAIN Preferred THEN Preferred[asset.category] * 1000 ELSE 0)
  + (IF class = "general_pickup" THEN 20000 ELSE 0) + (IF asset.mesh THEN 5000 ELSE 0)
  + (IF at = Nowhere THEN 0 ELSE AtLeast(0, 12000 - Abs(at[1] - 70) * 200 - Abs(at[2]) * 100))

ScorePickplace(source, sourceAt, place, placeAt) ==
  120000 + (IF source.category = "bottle" THEN 30000 ELSE 0)
  + (IF place.category = "dustbin" THEN 20000 ELSE 0) + (IF source.mesh THEN 5000 ELSE 0)
  + AtLeast(0, 12000 - Abs(sourceAt[1] - 65) * 150 - Abs(sourceAt[2]) * 80)
  - (IF placeAt = Nowhere THEN 0 ELSE AtMost(10000, Abs(sourceAt[2] - placeAt[2]) * 30))

ScoreStackPair(source, at, support, supportAt) ==
  130000 + (IF source.category = "block" THEN 20000 ELSE 0)
  + (IF support.category = "block" THEN 20000 ELSE 0)
  + (IF source.mesh THEN 4000 ELSE 0) + (IF support.mesh THEN 4000 ELSE 0)
  + AtLeast(0, 10000 - Abs(at[1] - 55) * 120 - Abs(at[2]) * 50)
  + AtLeast(0, 12000 - Abs(Distance(at, supportAt) - 14) * 400)
  + (IF at[2] * supportAt[2] > 0 THEN 4000 ELSE 0)

PairScore(scene, source, support) ==
  ScoreStackPair(AssetOf(scene, source), AtOf(scene, source), AssetOf(scene, support), AtOf(scene, support))

ScoreStackChain(scene, chain) ==
  240000 + AtLeast(0, Len(chain) - 2) * 30000
  + (LET sum[n \in 1..Len(chain)] ==
           IF n = 1 THEN 0 ELSE sum[n - 1] + PairScore(scene, chain[n], chain[n - 1]) \div 10
     IN  sum[Len(chain)])

(* _tier4_binding_execution_bonus: the near side, and no reach across.     *)
ExecutionBonus(binding, sourceAt, placeAt) ==
  (IF binding.hints # <<>> THEN 1000 ELSE 0)
  + (IF sourceAt = Nowhere THEN 0 ELSE AtMost(5000, AtLeast(0, -sourceAt[2] * 300)))
  + (IF sourceAt = Nowhere \/ placeAt = Nowhere THEN 0
     ELSE IF sourceAt[2] * placeAt[2] > 0 THEN 6000
     ELSE IF Abs(sourceAt[2]) > 5 /\ Abs(placeAt[2]) > 5 THEN -8000 ELSE 0)

-----------------------------------------------------------------------------
(* The pool items of a suite.                                              *)

StackStep(scene, i, source, support, binding) ==
  [source |-> source, support |-> support,
   sourceAt |-> AtOf(scene, source), supportAt |-> AtOf(scene, support),
   pickArg |-> PickArg(i), placeArg |-> PlaceArg(i),
   pick |-> binding.pick, picks |-> binding.picks, place |-> binding.place, places |-> binding.places,
   success |-> Stacked(source, support)]

PairBinding(scene, source, support) ==
  StackBinding(source, AssetOf(scene, source), support, AssetOf(scene, support))

(* Mutant: every object goes on the base.                                  *)
StepsOntoBase(scene, chain) ==
  [i \in 1..(Len(chain) - 1) |->
    StackStep(scene, i, chain[i + 1], chain[1], PairBinding(scene, chain[i + 1], chain[1]))]

(* _stateful_stack_steps: each object goes on the one put down before it.  *)
StackSteps(scene, chain) ==
  [i \in 1..(Len(chain) - 1) |->
    StackStep(scene, i, chain[i + 1], chain[i], PairBinding(scene, chain[i + 1], chain[i]))]

IdIndex(id) == CHOOSE i \in DOMAIN Names : Names[i] = id
Earlier(a, b) ==
  \E k \in DOMAIN b : /\ \A j \in 1..(k - 1) : j \in DOMAIN a /\ a[j] = b[j]
                      /\ k \in DOMAIN a => IdIndex(a[k]) < IdIndex(b[k])

(* _choose_stateful_stack_chains: the six best accepted towers of the      *)
(* objects, which are all different.                                       *)
ChooseChains(scene, objects) ==
  LET known == ToSet(objects) \subseteq DOMAIN scene.assets \cap DOMAIN scene.imports
      chains == { c \in SetToSeqs(ToSet(objects)) :
                    known /\ AdmitStackChain(scene, c) = {} }
      better(a, b) == \/ ScoreStackChain(scene, a) > ScoreStackChain(scene, b)
                      \/ ScoreStackChain(scene, a) = ScoreStackChain(scene, b) /\ Earlier(a, b)
  IN  FirstOf(InOrder(chains, { r \in chains \X chains : better(r[1], r[2]) }), 6)

Item(suite, key, tier, target, place, success, reasons, binding, score, plan) ==
  [suite |-> suite, key |-> key, class |-> Suites[suite].class, tier |-> tier,
   target |-> target, place |-> place,
   targetAt |-> AtOf(Suites[suite].scene, target), placeAt |-> AtOf(Suites[suite].scene, place),
   success |-> success, reasons |-> reasons, binding |-> binding, score |-> score, plan |-> plan]

NoId == ""

(* What is refused is scored out of the pool.                              *)
ScoreIf(reasons, score) == IF reasons = {} THEN score ELSE -1000000

PickupItems(s, tier) ==
  LET asset == AssetOf(Suites[s].scene, "target_prop")
      at == AtOf(Suites[s].scene, "target_prop")
  IN  { Item(s, <<"target_prop">>, tier, "target_prop", NoId, Suites[s].goal, reasons,
             Binding("target_prop", asset), ScoreIf(reasons, Score(Suites[s].class, asset, at)), <<>>) :
        reasons \in {Admit(Suites[s], asset, at)} }

(* A task of one object that goes to one place.                            *)
PlaceItem(s, tier, goal, reasons, binding, score) ==
  LET scene == Suites[s].scene IN
  Item(s, <<goal.of, goal.in>>, tier, goal.of, goal.in, <<goal>>, reasons, binding,
       ScoreIf(reasons, score) + ExecutionBonus(binding, AtOf(scene, goal.of), AtOf(scene, goal.in)), <<>>)

(* One item for each object the task wants inside a container.             *)
BottleItems(s, tier) ==
  LET scene == Suites[s].scene
      asset(id) == AssetOf(scene, id)
      at(id) == AtOf(scene, id)
  IN  { PlaceItem(s, tier, g, AdmitPickplace(asset(g.of), at(g.of), asset(g.in)),
                  MultiBinding(g.of, asset(g.of), g.in, asset(g.in)),
                  ScorePickplace(asset(g.of), at(g.of), asset(g.in), at(g.in))) :
        g \in { p \in ToSet(Suites[s].goal) :
                 p.type = "inside" /\ {p.of, p.in} \subseteq DOMAIN scene.assets } }

(* _stacked_success_items: the objects of a tower, from the bottom.        *)
TowersOf(goal) ==
  { IF g.type = "tower" THEN g.objects ELSE <<g.in, g.of>> :
    g \in { p \in ToSet(goal) : p.type \in {"tower", "stacked"} } }

(* Every ordered pair of a tower's objects is a task of its own.           *)
PairItems(s, tier) ==
  LET scene == Suites[s].scene
      pairs == UNION { ToSet(objects) \X ToSet(objects) : objects \in TowersOf(Suites[s].goal) }
  IN  { PlaceItem(s, tier, Stacked(p[1], p[2]), PairReasons(scene, p[1], p[2]),
                  PairBinding(scene, p[1], p[2]), PairScore(scene, p[1], p[2])) :
        p \in { q \in pairs : q[1] # q[2] /\ ToSet(q) \subseteq DOMAIN scene.assets } }

(* _stateful_stack_pool_items: whole towers, one item for each variant.    *)
TowerItem(s, tier, chain, plan, variant) ==
  LET scene == Suites[s].scene
  IN  Item(s, <<"stateful">> \o chain, tier, chain[2], chain[1],
           [i \in DOMAIN plan |-> plan[i].success], AdmitStackChain(scene, chain),
           PairBinding(scene, chain[2], chain[1]),
           ScoreStackChain(scene, chain) - (variant - 1) * 10, plan)

TowerItems(s, tier) ==
  LET scene == Suites[s].scene
      towers == { ChooseChains(scene, objects) :
                  objects \in { o \in TowersOf(Suites[s].goal) : Len(o) >= 3 } }
  IN  UNION { { TowerItem(s, tier, chains[v], StackSteps(scene, chains[v]), v) : v \in DOMAIN chains } :
              chains \in towers }

(* _pool_item_from_suite: a suite that cannot be read has no items.        *)
ItemsOf(s, tier) ==
  CASE ~Suites[s].readable -> {}
    [] Suites[s].readable /\ tier >= 4 /\ Suites[s].class = "put_bottles_into_dustbin" ->
         BottleItems(s, tier)
    [] Suites[s].readable /\ tier >= 4 /\ Suites[s].class = "stack_blocks" ->
         PairItems(s, tier) \cup (IF tier >= 5 THEN TowerItems(s, tier) ELSE {})
    [] OTHER -> PickupItems(s, tier)

-----------------------------------------------------------------------------
(* The pool: what is accepted, the best first.                             *)

Classes(tier) ==
  IF tier >= 4 THEN {"put_bottles_into_dustbin", "stack_blocks"} ELSE {"general_pickup"}

Accepted(items) == { i \in items : i.reasons = {} }

DiscoverTaskPool(classes, tier, maxScenes) ==
  LET of(c) == { s \in DOMAIN Suites : Suites[s].class = c }
      scanned == UNION { { s \in of(c) : Cardinality({ r \in of(c) : r < s }) < maxScenes } : c \in classes }
      items == Accepted(UNION { ItemsOf(s, tier) : s \in scanned })
      before(i, j) == \/ i.score > j.score
                      \/ /\ i.score = j.score
                         /\ i.suite < j.suite \/ (i.suite = j.suite /\ Earlier(i.key, j.key))
  IN  InOrder(items, { r \in items \X items : before(r[1], r[2]) })
=============================================================================
