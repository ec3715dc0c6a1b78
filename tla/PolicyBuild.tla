----------------------------- MODULE PolicyBuild ----------------------------
(***************************************************************************)
(* From a demonstration to the report of a frozen policy, over the files   *)
(* the commands share: the extractor writes the graph, run_m1 compiles a   *)
(* cycle of it, freezes what it wrote and binds it, and the seed protocol  *)
(* (seed_harness.py) freezes a policy file and runs its seeds into a       *)
(* directory.  One command runs at a time and may be given up anywhere;    *)
(* whoever works beside it changes the graph or the policy at any moment.  *)
(***************************************************************************)
EXTENDS CodeAgent, FiniteSets

CONSTANTS
  Demonstrations,   \* [bundle, refined, relations]
  HandGraphs,       \* graph files written by hand
  Trusted,          \* _TRUSTED_CONTROLLERS
  CycleActions,     \* _M1_ACTION_SEQUENCE
  Development, HeldOut,  \* the seeds of the two splits
  InitialCount,     \* held-out seeds of a first evaluation
  MaxNodeVisits,    \* PythonNodePolicy.max_node_visits
  RunLengths,       \* bound on where a run may end: after so many nodes
  Dirs,             \* directories a protocol may write into
  Literals,         \* numbers an edit may bring
  SpatialNames,     \* _is_spatial_context
  MaxCommands,      \* bound on commands
  MaxEdits          \* bound on what is changed beside them

ASSUME ProtocolAssumption ==
  /\ IsInjective(Development \o HeldOut)
  /\ Development \in Seq(Range(Development)) /\ HeldOut \in Seq(Range(HeldOut))
  /\ InitialCount \in 1..Len(HeldOut)
  /\ Dirs # {}

(* The cycle run_m1 selects, and a controller for each of its actions; the *)
(* default of max_node_visits, which everybody leaves, is many times 3.    *)
ASSUME ControllersAssumption ==
  /\ CycleActions = <<"pick", "reorient", "align", "insert", "verify">>
  /\ {"trusted.pick", "trusted.reorient", "trusted.align", "trusted.insert", "trusted.verify"} \subseteq Trusted
  /\ MaxNodeVisits \in Nat /\ MaxNodeVisits >= 3 /\ RunLengths \subseteq Nat

(* Segments are numbered, each by itself, and a graph written by hand does *)
(* not take the name of an extracted one.                                  *)
Listed(s) == Len(s) \in Nat /\ DOMAIN s = 1..Len(s)
Numbered(segments) ==
  /\ Listed(segments)
  /\ \A i, j \in DOMAIN segments : segments[i].index = segments[j].index => i = j
ASSUME DemonstrationsAssumption ==
  \A d \in Demonstrations :
    /\ Numbered(d.bundle.segments)
    /\ Listed(d.refined) /\ \A i \in DOMAIN d.refined : Numbered(d.refined[i].segments)
    /\ Listed(d.relations)
    /\ \A g \in HandGraphs : g.id # <<d.bundle.task, 0>>

VARIABLES
  demo,      \* bundle, refined traces and relations
  graph,     \* the graph file
  policy,    \* the compiled policy file
  bound,     \* digest of the graph a policy was last bound to
  command,   \* the command that is running, where it is, and its directory
  artifact,  \* what run_m1 compiled
  frozen,    \* FrozenPolicy.code_digest
  todo,      \* seeds the protocol has yet to run
  result,    \* what the backend returned
  used,      \* the directories that are not empty
  snapshot,  \* their protocol_snapshot.json: the code
  selected,  \* and the seeds
  results, manifests,  \* result.json and run_manifest.json of each seed
  report,    \* funnel_report.json
  left, edits  \* commands and changes that may still come

inHand == <<artifact, frozen, todo, result>>
dirs == <<used, snapshot, selected, results, manifests, report>>
vars == <<demo, graph, policy, bound, command, inHand, dirs, left, edits>>

(* A policy file: the graph it was compiled from, the numbers somebody     *)
(* wrote into it, each with the name it is assigned to.  A text is its own *)
(* digest, and a graph's name is the graph's: no two graphs of a run share *)
(* one.                                                                    *)
Digest(of) == of.id
Compiled(of) == [of |-> Digest(of.graph), literals |-> {}]
NoText == Compiled(NoArtifact)

(* The scan is about numbers of the scene: not zero, not of another kind.  *)
Findings(text) == { literal \in text.literals : literal.value # 0 /\ literal.name \in SpatialNames }

Splits == {"development", "held_out"}
Seeds == Range(Development) \cup Range(HeldOut)
SplitOf(seed) == IF seed \in Range(Development) THEN "development" ELSE "held_out"

NoResult == [there |-> FALSE, ok |-> FALSE, nodes |-> <<>>, graph |-> NoNode, stages |-> {}, first |-> "none"]
NoManifest == [there |-> FALSE, code |-> NoText, graph |-> NoNode]
NoReport == [there |-> FALSE, code |-> NoText, counts |-> [s \in Splits |-> <<>>]]
Idle == [name |-> "none", at |-> "none", dir |-> CHOOSE d \in Dirs : TRUE]

Init ==
  /\ demo \in Demonstrations /\ graph = NoGraph
  /\ policy = NoText /\ bound = NoNode /\ command = Idle
  /\ artifact = NoArtifact /\ frozen = NoText /\ todo = <<>> /\ result = NoResult
  /\ used = {} /\ snapshot = [d \in Dirs |-> NoText] /\ selected = [d \in Dirs |-> {}]
  /\ results = [d \in Dirs |-> [s \in Seeds |-> NoResult]]
  /\ manifests = [d \in Dirs |-> [s \in Seeds |-> NoManifest]]
  /\ report = [d \in Dirs |-> NoReport]
  /\ left = MaxCommands /\ edits = MaxEdits

Give == command = Idle /\ left > 0 /\ left' = left - 1 /\ UNCHANGED <<demo, edits>>
Goes(name, at) == command.name = name /\ command.at = at
Moves(at) == command' = [command EXCEPT !.at = at]
Steps == UNCHANGED <<demo, left, edits>>
Finish == command' = Idle /\ artifact' = NoArtifact /\ frozen' = NoText /\ todo' = <<>> /\ result' = NoResult

-----------------------------------------------------------------------------
(* The extractor's main: nothing is written if it refuses.                 *)
Extract ==
  /\ Give
  /\ graph' = LET extracted == ExtractConstraintGraph(demo)
              IN IF extracted = NoGraph THEN graph ELSE extracted
  /\ UNCHANGED <<policy, bound, command, inHand, dirs>>

(* run_m1 up to the policy file: a graph that does not load, has no such   *)
(* cycle or does not compile leaves everything as it is.                   *)
Loaded == IF GraphIsSound(graph) THEN graph ELSE NoGraph
SelectedCycle(index) ==
  IF Loaded = NoGraph THEN NoGraph ELSE SelectLinearActionCycle(Loaded, CycleActions, index)

CompileCycle(index) ==
  /\ Give
  /\ \E compiled \in {Compile(SelectedCycle(index), Trusted)} :
       IF compiled = NoArtifact THEN UNCHANGED <<policy, command, artifact>>
       ELSE /\ policy' = Compiled(compiled) /\ artifact' = compiled
            /\ command' = [Idle EXCEPT !.name = "m1", !.at = "scan"]
  /\ UNCHANGED <<graph, bound, frozen, todo, result, dirs>>

(* freeze_policy scans the file, and reads it again for its digest.        *)
Scan ==
  /\ command.at = "scan"
  /\ IF Findings(policy) = {} THEN Moves("digest") /\ UNCHANGED inHand ELSE Finish
  /\ UNCHANGED <<graph, policy, bound, dirs>> /\ Steps

(* What was frozen must be what was compiled; it is bound to the graph in  *)
(* hand.                                                                   *)
BindFrozen ==
  /\ Goes("m1", "digest")
  /\ bound' = IF policy = Compiled(artifact) /\ Binds(artifact, artifact.graph, Trusted)
              THEN Digest(artifact.graph) ELSE bound
  /\ Finish
  /\ UNCHANGED <<graph, policy, dirs>> /\ Steps

-----------------------------------------------------------------------------
(* A mutant: what is there is written over.                                *)
UseAny(dir) == TRUE

(* run_seed_protocol: never into a directory that holds anything.          *)
MayUse(dir) == dir \notin used

StartSeeds(dir, count) ==
  /\ Give
  /\ count \in {InitialCount, Len(HeldOut)}
  /\ IF MayUse(dir)
     THEN /\ command' = [name |-> "seeds", at |-> "scan", dir |-> dir]
          /\ todo' = Development \o SubSeq(HeldOut, 1, count)
     ELSE UNCHANGED <<command, todo>>
  /\ UNCHANGED <<graph, policy, bound, artifact, frozen, result, dirs>>

(* The digest, and the snapshot of the protocol.                           *)
Freeze ==
  /\ Goes("seeds", "digest")
  /\ used' = used \cup {command.dir}
  /\ snapshot' = [snapshot EXCEPT ![command.dir] = policy]
  /\ selected' = [selected EXCEPT ![command.dir] = Range(todo)]
  /\ frozen' = policy /\ Moves("before")
  /\ UNCHANGED <<graph, policy, bound, artifact, todo, result, results, manifests, report>> /\ Steps

IsFrozen == policy = frozen

BeforeSeed ==
  /\ Goes("seeds", "before") /\ todo # <<>>
  /\ IF IsFrozen THEN Moves("call") /\ UNCHANGED inHand ELSE Finish
  /\ UNCHANGED <<graph, policy, bound, dirs>> /\ Steps

(* A mutant: one node that passed is enough.                               *)
SomePassed(nodes, action) == \E i \in DOMAIN nodes : nodes[i].action = action /\ nodes[i].passed

(* _node_passed: the graph repeats an action, and every node of it counts. *)
NodePassed(nodes, action) ==
  LET of == { i \in DOMAIN nodes : nodes[i].action = action }
  IN of # {} /\ \A i \in of : nodes[i].passed

Stages == <<"grasp", "lift", "reorient", "align", "insert">>
Funnel(nodes, ok) ==
  LET after(action) == NodePassed(nodes, "pick") /\ NodePassed(nodes, action)
  IN { s \in Range(Stages) : CASE s \in {"grasp", "lift"} -> NodePassed(nodes, "pick")
                               [] s = "insert" -> after("insert") /\ ok
                               [] OTHER -> after(s) }
FirstFailed(stages) ==
  IF Range(Stages) \subseteq stages THEN "none"
  ELSE Stages[CHOOSE i \in DOMAIN Stages : Stages[i] \notin stages /\ \A j \in 1..(i - 1) : Stages[j] \in stages]

(* The backend runs a node policy over the graph file as it then is, and   *)
(* ends after so many nodes: at the end of the chain, at one that fails,   *)
(* or with its visits spent.                                               *)
PolicyResult(chain, passed) ==
  LET reached == IF passed < Len(chain) /\ passed < MaxNodeVisits THEN passed + 1 ELSE passed
      nodes == [i \in 1..reached |-> [action |-> ActionOf(chain[i]), passed |-> i <= passed]]
      ok == passed = Len(chain) /\ passed < MaxNodeVisits
      stages == Funnel(nodes, ok)
  IN [there |-> TRUE, ok |-> ok, nodes |-> nodes, graph |-> Digest(graph), stages |-> stages,
      first |-> FirstFailed(stages)]

CallBackend ==
  /\ Goes("seeds", "call")
  /\ Loaded # NoGraph /\ IsLinear(Loaded)
  /\ \E chain \in {LinearNodes(Loaded)}, passed \in RunLengths :
       /\ passed <= Len(chain) /\ passed <= MaxNodeVisits
       /\ result' = PolicyResult(chain, passed)
  /\ Moves("after")
  /\ UNCHANGED <<graph, policy, bound, artifact, frozen, todo, dirs>> /\ Steps

(* result.json, once the file is still what was frozen; then the manifest. *)
WriteResult ==
  /\ Goes("seeds", "after")
  /\ IF IsFrozen
     THEN /\ results' = [results EXCEPT ![command.dir][Head(todo)] = result]
          /\ Moves("manifest") /\ UNCHANGED inHand
     ELSE Finish /\ UNCHANGED results
  /\ UNCHANGED <<graph, policy, bound, used, snapshot, selected, manifests, report>> /\ Steps

WriteManifest ==
  /\ Goes("seeds", "manifest")
  /\ manifests' = [manifests EXCEPT ![command.dir][Head(todo)] =
                      [there |-> TRUE, code |-> frozen, graph |-> result.graph]]
  /\ todo' = Tail(todo) /\ result' = NoResult /\ Moves("before")
  /\ UNCHANGED <<graph, policy, bound, artifact, frozen, used, snapshot, selected, results, report>> /\ Steps

(* _split_summary: how many of the split's records passed each stage.      *)
SplitSummary(seeds, records, split) ==
  [i \in DOMAIN Stages |->
     Cardinality({ s \in seeds : SplitOf(s) = split /\ Stages[i] \in records[s].stages })]
Summary(dir) == [split \in Splits |-> SplitSummary(selected[dir], results[dir], split)]

WriteReport ==
  /\ Goes("seeds", "before") /\ todo = <<>>
  /\ report' = [report EXCEPT ![command.dir] = [there |-> TRUE, code |-> frozen, counts |-> Summary(command.dir)]]
  /\ Finish
  /\ UNCHANGED <<graph, policy, bound, used, snapshot, selected, results, manifests>> /\ Steps

-----------------------------------------------------------------------------
(* The command is interrupted, or the backend raises.                      *)
GiveUp ==
  /\ command # Idle
  /\ Finish
  /\ UNCHANGED <<graph, policy, bound, dirs>> /\ Steps

Beside == edits > 0 /\ edits' = edits - 1 /\ UNCHANGED <<demo, bound, command, inHand, dirs, left>>

EditPolicy == /\ Beside
              /\ \E literal \in Literals : policy' = [policy EXCEPT !.literals = @ \cup {literal}]
              /\ UNCHANGED graph
EditGraph == Beside /\ graph' \in HandGraphs /\ UNCHANGED policy

Next ==
  \/ Extract
  \/ \E index \in 0..2 : CompileCycle(index)
  \/ Scan \/ BindFrozen
  \/ \E dir \in Dirs, count \in {InitialCount, Len(HeldOut)} : StartSeeds(dir, count)
  \/ Freeze \/ BeforeSeed \/ CallBackend \/ WriteResult \/ WriteManifest \/ WriteReport
  \/ GiveUp \/ EditPolicy \/ EditGraph

Spec == Init /\ [][Next]_vars

-----------------------------------------------------------------------------
(* The stages of the funnel are the actions of a cycle: it is about chains *)
(* that go through the whole of one, and then repeat it.                   *)
Repeats(chain) ==
  /\ Len(chain) \in Nat /\ Len(chain) >= CycleLength
  /\ \A i \in 1..Len(chain) : ActionOf(chain[i]) = CycleActions[((i - 1) % CycleLength) + 1]
ASSUME FunnelAssumption ==
  \A g \in HandGraphs : GraphIsSound(g) /\ IsLinear(g) => Repeats(LinearNodes(g))

-----------------------------------------------------------------------------
(* The extractor writes the graph file.                                    *)
Extracts == graph' # graph /\ graph'.id = <<demo.bundle.task, 0>>
Segments == SegmentsUsed(demo.bundle, demo.refined)
Insertions == { i \in DOMAIN Segments : Inserts(Segments[i]) }
At(node) == CHOOSE i \in DOMAIN Segments : Segments[i].index = node.evidence

(* Every insertion of the demonstration has its node, and is paired with a *)
(* grasp shown after the insertion before it and not after itself; a grasp *)
(* region comes from a relation about that very segment.  An extraction    *)
(* that forgets to drop the pending grasp would grasp a tube in the rack.  *)
Paired(nodes) ==
  LET of(action) == { node \in nodes : ActionOf(node) = action }
  IN /\ { At(node) : node \in of("insert") } = Insertions
     /\ Cardinality(of("insert")) = Cardinality(Insertions)
     /\ \A pick \in of("pick"), insert \in of("insert") :
          pick.id[2] = insert.id[2] =>
            /\ At(pick) <= At(insert)
            /\ \A i \in Insertions : ~(At(pick) <= i /\ i < At(insert))
            /\ pick.region # Unresolved =>
                 \E r \in Range(demo.relations) : r.segment = pick.evidence /\ r.region = pick.region
GraspsArePaired == [][Extracts => Paired(Range(graph'.nodes))]_graph

(* Of a graph the extractor writes, every cycle can be selected, is the    *)
(* cycle of that insertion, compiles and binds: run_m1 has nowhere to go   *)
(* with a graph that any of the four stages refuses.                       *)
CyclesBind(of) ==
  \A n \in 1..Cardinality(Insertions) :
    \E cycle \in {SelectLinearActionCycle(of, CycleActions, n - 1)} :
      /\ [i \in DOMAIN cycle.nodes |-> cycle.nodes[i].id] = [i \in DOMAIN CycleActions |-> <<CycleActions[i], n>>]
      /\ Binds(Compile(cycle, Trusted), cycle, Trusted)
ExtractedCyclesBind == [][Extracts => CyclesBind(graph')]_graph

(* A directory is about one code: every manifest in it names the code of   *)
(* the snapshot, and a report counts exactly the results that lie beside   *)
(* it, one for every seed selected, whatever was interrupted and begun     *)
(* again before.                                                           *)
ManifestsAgree(d) ==
  \A s \in Seeds : manifests[d][s].there => manifests[d][s].code = snapshot[d]
ReportIsWhole(d) ==
  report[d].there => /\ report[d].code = snapshot[d]
                     /\ { s \in Seeds : manifests[d][s].there } = selected[d]
                     /\ report[d].counts = Summary(d)
OneCodePerDirectory == \A d \in Dirs : ManifestsAgree(d) /\ ReportIsWhole(d)

(* The funnel of a seed names the stage of the node that failed, in a      *)
(* graph that repeats its actions as in one that does not, and names none  *)
(* if and only if the policy succeeded; verifying and spending the visits  *)
(* count against the insertion.                                            *)
StageOfFailure(nodes) ==
  IF Last(nodes).passed THEN "insert"
  ELSE CASE Last(nodes).action = "pick" -> "grasp"
         [] Last(nodes).action = "verify" -> "insert"
         [] OTHER -> Last(nodes).action
FunnelBlamesTheFailure ==
  \A d \in Dirs, s \in Seeds :
    LET of == results[d][s]
    IN of.there => of.first = IF of.ok THEN "none" ELSE StageOfFailure(of.nodes)
=============================================================================
