--------------------------- MODULE MCPolicyBuild ----------------------------
(* Demonstrations of two and three tubes, with a grasp that is left out, a *)
(* tube that is carried after it was picked, and traces that disagree;     *)
(* graphs written by hand, in another order, with a loop, with a           *)
(* controller nobody trusts.                                               *)
EXTENDS PolicyBuild

Segment(index, label, roles) == [index |-> index, label |-> label, roles |-> roles]
Bundle(segments) == [task |-> "tubes", segments |-> segments, privileged |-> FALSE]
Trace(task, segments) == [task |-> task, segments |-> segments]
Demo(bundle, refined, relations) == [bundle |-> bundle, refined |-> refined, relations |-> relations]
Relation(segment, region) == [segment |-> segment, region |-> region]

Two == << Segment(1, "approach", {}), Segment(2, "pick", {"pick"}), Segment(3, "lift", {"carry"}),
          Segment(4, "insert", {"insert"}), Segment(5, "pick", {"pick"}), Segment(6, "insert", {"insert"}) >>
Three == << Segment(1, "pick", {"pick"}), Segment(2, "insert", {"insert"}), Segment(3, "insert", {"insert"}),
            Segment(4, "pick and insert", {"pick", "insert"}) >>
Regions == <<Relation(2, "body"), Relation(5, "neck"), Relation(5, "cap"), Relation(4, "rim")>>

MCDemonstrations ==
  { Demo(Bundle(Two), <<Trace("other", Three), Trace("tubes", Two)>>, Regions),
    Demo(Bundle(<<>>), <<Trace("tubes", Three)>>, Regions),
    Demo(Bundle(Two), <<Trace("tubes", Three)>>, Regions) }

Nodes(next) == LET s == Segment(0, "hand", {})
               IN << PickNode(1, s, <<"reorient", 1>>, Unresolved), ReorientNode(1, s, <<"align", 1>>),
                     AlignNode(1, s, <<"insert", 1>>), InsertNode(1, s, <<"verify", 1>>),
                     VerifyNode(1, s, next) >>
Hand(name, nodes) == [id |-> <<name, 0>>, entry |-> <<"pick", 1>>, nodes |-> nodes]
MCHandGraphs ==
  { NoGraph, Hand("reversed", Reverse(Nodes(NoNode))), Hand("loop", Nodes(<<"pick", 1>>)),
    Hand("untrusted", [Nodes(NoNode) EXCEPT ![1].ref = "trusted.insert_servo"]) }

MCTrusted == {"trusted.pick", "trusted.reorient", "trusted.align", "trusted.insert", "trusted.verify"}
MCCycleActions == <<"pick", "reorient", "align", "insert", "verify">>
MCLiterals == { [name |-> "pose", value |-> 1], [name |-> "pose", value |-> 0] }
MCDevelopment == <<1>>
MCHeldOut == <<2, 3>>
=============================================================================
