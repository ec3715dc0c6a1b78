--------------------------- MODULE PolicyContract ---------------------------
(***************************************************************************)
(* What PythonNodePolicy.run (method/demo_graph/runner.py) promises the    *)
(* callers that read its PolicyRunResult, whatever happens inside a node:  *)
(* the nodes of the result are a walk of the graph from its entry, only    *)
(* the last of them may have failed, the scene is moved only for a node    *)
(* whose goal does not hold, a node is recorded as done only while its     *)
(* goal holds in the scene, and the policy succeeds only at the walk's end.*)
(***************************************************************************)
EXTENDS Naturals, Sequences

CONSTANTS Nodes,         \* the nodes of the constraint graph
          Entries,       \* where a walk may enter: ConstraintGraph.entry_node
          NextOf,        \* Node.next_node, NoNode where the walk ends
          NoNode,        \* Python's None in next_node
          MaxNodeVisits  \* PythonNodePolicy.max_node_visits

VARIABLES entry,    \* the entry of this run's graph
          world,    \* the nodes whose goals hold in the scene
          walk,     \* one [node, done] per node the policy has finished with
          verdict   \* "running", "succeeded" or "failed"

vars == <<entry, world, walk, verdict>>

(* The node the walk has reached: the entry, or the last one's successor. *)
Due == IF walk = <<>> THEN entry ELSE NextOf[walk[Len(walk)].node]

Record(done) == walk' = Append(walk, [node |-> Due, done |-> done])

Working == verdict = "running" /\ Due # NoNode /\ Len(walk) < MaxNodeVisits

Init ==
  entry \in Entries /\ world \in SUBSET Nodes /\ walk = <<>> /\ verdict = "running"

(* A controller moves the scene, for a node whose goal does not hold. *)
Move == /\ Working
        /\ Due \notin world
        /\ world' \in SUBSET Nodes
        /\ UNCHANGED <<walk, verdict>>

(* The due node is recorded as succeeded or skipped: its goal holds now. *)
Accept == Working /\ Due \in world /\ Record(TRUE) /\ UNCHANGED <<world, verdict>>

(* The due node failed; nothing is run after it. *)
GiveUp == Working /\ Record(FALSE) /\ verdict' = "failed" /\ UNCHANGED world

(* The walk has come to the end of the graph. *)
Complete == /\ verdict = "running"
            /\ Due = NoNode
            /\ verdict' = "succeeded"
            /\ UNCHANGED <<world, walk>>

(* The visit budget is spent. *)
Exhaust == /\ verdict = "running"
           /\ Len(walk) = MaxNodeVisits
           /\ verdict' = "failed"
           /\ UNCHANGED <<world, walk>>

Steps == Move \/ Accept \/ GiveUp \/ Complete \/ Exhaust

Next == Steps /\ UNCHANGED entry

Spec == Init /\ [][Next]_vars
=============================================================================
