-------------------------- MODULE ConstraintGraphs --------------------------
(***************************************************************************)
(* The constraint graph of the method (method/demo_graph/models.py) and    *)
(* its extraction from a demonstration (extractor.py): every inserting     *)
(* segment makes a cycle of five nodes, with the grasp that was pending    *)
(* when it came.  A segment is [index, label, roles], with its roles the   *)
(* tests _is_pick, _is_carry and _is_insert it meets; a relation is        *)
(* [segment, region].  Provenance, descriptions and the search domains of  *)
(* holes are left out.                                                     *)
(***************************************************************************)
EXTENDS Listing, SequencesExt

NoNode == <<"none", 0>>
Unresolved == "unresolved"
NoGraph == [id |-> <<"none", 0>>, entry |-> NoNode, nodes |-> <<>>]

-----------------------------------------------------------------------------
(* A constraint names the holes it is about; this is what each action of a *)
(* cycle may attribute a failure to.                                       *)

PickNode(number, grasp, next, region) ==
  [id |-> <<"pick", number>>, ref |-> "trusted.pick",
   constraints |-> [grasp_region |-> {"grasp_pose"}, grasp_dof_constraint |-> {"grasp_pose", "grasp_dof"}],
   holes |-> <<"grasp_pose", "grasp_dof">>, attempts |-> 2, next |-> next,
   recover |-> <<"pick", number>>, evidence |-> grasp.index, region |-> region]

ReorientNode(number, insert, next) ==
  [id |-> <<"reorient", number>>, ref |-> "trusted.reorient",
   constraints |-> [reorientation |-> {"tube_axis"}, carry_constraint |-> {}],
   holes |-> <<"tube_axis">>, attempts |-> 2, next |-> next,
   recover |-> <<"reorient", number>>, evidence |-> insert.index, region |-> Unresolved]

AlignNode(number, insert, next) ==
  LET both == {"target_region", "insertion_axis"}
  IN [id |-> <<"align", number>>, ref |-> "trusted.align",
      constraints |-> [placement_dof |-> both, target_region_or_axis |-> both, axis_clearance |-> both],
      holes |-> <<"target_region", "insertion_axis">>, attempts |-> 2, next |-> next,
      recover |-> <<"align", number>>, evidence |-> insert.index, region |-> Unresolved]

InsertNode(number, insert, next) ==
  [id |-> <<"insert", number>>, ref |-> "trusted.insert",
   constraints |-> [insert_axis |-> {"insertion_depth"}, insertion_clearance |-> {}],
   holes |-> <<"insertion_depth">>, attempts |-> 2, next |-> next,
   recover |-> <<"align", number>>, evidence |-> insert.index, region |-> Unresolved]

VerifyNode(number, insert, next) ==
  [id |-> <<"verify", number>>, ref |-> "trusted.verify",
   constraints |-> [postcondition |-> {}],
   holes |-> <<>>, attempts |-> 1, next |-> next,
   recover |-> <<"align", number>>, evidence |-> insert.index, region |-> Unresolved]

ActionOf(node) == node.id[1]

(* What Node and ConstraintGraph refuse when they are built.  The recovery *)
(* edges are not among it: nothing looks at where they lead.               *)
NodeIsSound(node) ==
  /\ node.attempts >= 1 /\ DOMAIN node.constraints # {}
  /\ IsInjective(node.holes)
  /\ \A c \in DOMAIN node.constraints : node.constraints[c] \subseteq Range(node.holes)

GraphIsSound(graph) ==
  LET ids == [i \in DOMAIN graph.nodes |-> graph.nodes[i].id]
  IN /\ graph.nodes # <<>> /\ IsInjective(ids)
     /\ graph.entry \in Range(ids)
     /\ \A i \in DOMAIN graph.nodes : /\ NodeIsSound(graph.nodes[i])
                                      /\ graph.nodes[i].next \in Range(ids) \cup {NoNode}

NodeOf(graph, id) == CHOOSE node \in Range(graph.nodes) : node.id = id

-----------------------------------------------------------------------------
Grasps(segment) == segment.roles \cap {"pick", "carry"} # {}
Inserts(segment) == "insert" \in segment.roles

(* A mutant: the grasp stays pending for the next insertion.               *)
GraspStaysPending(state, segment) ==
  LET pending == IF Grasps(segment) THEN <<segment>> ELSE state.pending
      grasp == IF pending = <<>> THEN segment ELSE Head(pending)
      cycles == IF Inserts(segment) THEN Append(state.cycles, [grasp |-> grasp, insert |-> segment])
                                    ELSE state.cycles
  IN [cycles |-> cycles, pending |-> pending]

(* A segment that picks or carries is the pending grasp, whatever was      *)
(* pending before; one that inserts takes it up.                           *)
AfterSegment(state, segment) ==
  LET pending == IF Grasps(segment) THEN <<segment>> ELSE state.pending
      grasp == IF pending = <<>> THEN segment ELSE Head(pending)
  IN IF Inserts(segment)
     THEN [cycles |-> Append(state.cycles, [grasp |-> grasp, insert |-> segment]), pending |-> <<>>]
     ELSE [state EXCEPT !.pending = pending]

OperationCycles(segments) ==
  LET after[n \in 0..Len(segments)] ==
        IF n = 0 THEN [cycles |-> <<>>, pending |-> <<>>] ELSE AfterSegment(after[n - 1], segments[n])
  IN after[Len(segments)].cycles

(* The last relation that names the segment.                               *)
RegionOf(relations, index) ==
  LET about == { r \in DOMAIN relations : relations[r].segment = index }
  IN IF about = {} THEN Unresolved ELSE relations[CHOOSE r \in about : \A q \in about : q <= r].region

CycleNodes(cycles, relations, n) ==
  LET grasp == cycles[n].grasp
      insert == cycles[n].insert
      after == IF n < Len(cycles) THEN <<"pick", n + 1>> ELSE NoNode
  IN << PickNode(n, grasp, <<"reorient", n>>, RegionOf(relations, grasp.index)),
        ReorientNode(n, insert, <<"align", n>>),
        AlignNode(n, insert, <<"insert", n>>),
        InsertNode(n, insert, <<"verify", n>>),
        VerifyNode(n, insert, after) >>

(* The nodes of one cycle after those of the other.                        *)
CycleLength == 5
GraphNodes(cycles, relations) ==
  [m \in 1..(CycleLength * Len(cycles)) |->
     CycleNodes(cycles, relations, ((m - 1) \div CycleLength) + 1)[((m - 1) % CycleLength) + 1]]

(* The refined trace of the same task is what the graph is made of, if it  *)
(* names the same segments as the bundle, or the bundle names none.        *)
Labels(segments) == [i \in DOMAIN segments |-> segments[i].label]
MatchingTrace(bundle, refined) == Chosen(refined, { i \in DOMAIN refined : refined[i].task = bundle.task })
SegmentsUsed(bundle, refined) ==
  LET matching == MatchingTrace(bundle, refined)
  IN IF matching = <<>> THEN bundle.segments ELSE Head(matching).segments

TracesAgree(bundle, refined) ==
  \/ MatchingTrace(bundle, refined) = <<>> \/ bundle.segments = <<>>
  \/ Labels(bundle.segments) = Labels(SegmentsUsed(bundle, refined))

(* load_demo_bundle refuses what only the evaluator may know, and          *)
(* load_refined_traces a directory without traces.                         *)
Loads(demo) == ~demo.bundle.privileged /\ demo.refined # <<>>

ExtractConstraintGraph(demo) ==
  LET cycles == OperationCycles(SegmentsUsed(demo.bundle, demo.refined))
      graph == [id |-> <<demo.bundle.task, 0>>, entry |-> <<"pick", 1>>, nodes |-> GraphNodes(cycles, demo.relations)]
  IN IF Loads(demo) /\ TracesAgree(demo.bundle, demo.refined) /\ cycles # <<>> /\ GraphIsSound(graph)
     THEN graph ELSE NoGraph
=============================================================================
