----------------------------- MODULE CodeAgent ------------------------------
(***************************************************************************)
(* The restricted code agent (method/demo_graph/code_agent.py): one cycle  *)
(* of a linear graph is selected, compiled into a source that lists its    *)
(* nodes in the order of the chain, and bound to trusted controllers if    *)
(* the graph it is given lists them in the same order.  Equal graphs have  *)
(* equal digests, and a graph stands for its own.                          *)
(***************************************************************************)
EXTENDS ConstraintGraphs

NoArtifact == [graph |-> NoGraph, handlers |-> <<>>, refs |-> {}]
Refs(nodes) == { node.ref : node \in Range(nodes) }

(* One step along the chain; a chain longer than the graph has met a node  *)
(* twice.                                                                  *)
Follow(graph) ==
  LET Further(path) == LET next == NodeOf(graph, Last(path)).next
                       IN IF next = NoNode THEN path ELSE Append(path, next)
      path[n \in 0..Len(graph.nodes)] == IF n = 0 THEN <<graph.entry>> ELSE Further(path[n - 1])
  IN path[Len(graph.nodes)]

IsLinear(graph) == Len(Follow(graph)) <= Len(graph.nodes)
LinearNodes(graph) == LET path == Follow(graph) IN [i \in DOMAIN path |-> NodeOf(graph, path[i])]

-----------------------------------------------------------------------------
(* select_linear_action_cycle: the window of the chain with these actions, *)
(* counted from 0; its last node is made the end.                          *)
Starts(nodes, actions) ==
  LET places == 1..(Len(nodes) - Len(actions) + 1)
  IN Chosen([i \in places |-> i],
            { i \in places : \A j \in DOMAIN actions : ActionOf(nodes[i + j - 1]) = actions[j] })

(* A mutant: the last node still leads out of the window.                  *)
LeaveWindowOpen(nodes) == nodes

CloseWindow(nodes) == [nodes EXCEPT ![Len(nodes)].next = NoNode]

SelectLinearActionCycle(graph, actions, index) ==
  IF ~IsLinear(graph) THEN NoGraph
  ELSE LET nodes == LinearNodes(graph)
           starts == IF Len(actions) <= Len(nodes) THEN Starts(nodes, actions) ELSE <<>>
       IN IF index >= Len(starts) THEN NoGraph
          ELSE LET first == starts[index + 1]
                   window == SubSeq(nodes, first, first + Len(actions) - 1)
                   selected == [id |-> <<graph.id[1], index + 1>>, entry |-> window[1].id,
                                nodes |-> CloseWindow(window)]
               IN IF Len(window) = Len(nodes) /\ Last(window).next = NoNode THEN graph
                  ELSE IF GraphIsSound(selected) THEN selected ELSE NoGraph

-----------------------------------------------------------------------------
Handler(node) ==
  [id |-> node.id, ref |-> node.ref, constraints |-> DOMAIN node.constraints,
   holes |-> node.holes, attempts |-> node.attempts, next |-> node.next]
Handlers(nodes) == [i \in DOMAIN nodes |-> Handler(nodes[i])]

(* Every node is on the chain and asks for a controller the registry has.  *)
Compile(graph, trusted) ==
  IF \/ graph = NoGraph \/ ~IsLinear(graph)
     \/ Len(LinearNodes(graph)) # Len(graph.nodes)
     \/ ~(Refs(LinearNodes(graph)) \subseteq trusted)
  THEN NoArtifact
  ELSE [graph |-> graph, handlers |-> Handlers(LinearNodes(graph)), refs |-> Refs(LinearNodes(graph))]

(* What build_policy of the generated source accepts: the graph it was     *)
(* made of, its nodes listed in the order of the handlers, and a controller*)
(* for each of them.                                                       *)
Binds(artifact, graph, controllers) ==
  /\ artifact # NoArtifact /\ graph = artifact.graph
  /\ Handlers(graph.nodes) = artifact.handlers
  /\ artifact.refs \subseteq controllers
=============================================================================
