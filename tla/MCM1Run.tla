------------------------------ MODULE MCM1Run ------------------------------
(***************************************************************************)
(* M1Run on the five-stage cycle of one tube, two attempts per node as the *)
(* extractor gives them.  Its holes carry the number of the tube, but for  *)
(* the axis, which is named as perception names it.                        *)
(***************************************************************************)
EXTENDS M1Run

MCNodes == {"pick", "reorient", "align", "insert", "verify", "grasp"}
MCActionOf == [n \in MCNodes |-> IF n = "grasp" THEN "pick" ELSE n]
MCNextOf == [n \in MCNodes |->
  CASE n = "pick" -> "reorient" [] n = "reorient" -> "align" [] n = "align" -> "insert"
    [] n = "insert" -> "verify" [] OTHER -> "none"]
MCMaxAttempts == [n \in MCNodes |-> IF n = "verify" THEN 1 ELSE 2]

Constraint(n) == <<"constraint", n>>
Hole(name) == <<"hole", name>>
MCFirstConstraint == [n \in MCNodes |-> Constraint(n)]
MCGraspPose == Hole("grasp_pose")
MCTubeAxis == Hole("tube_axis")
MCHolderPose == Hole("holder_pose")
MCGraspHole == [n \in MCNodes |-> IF MCActionOf[n] = "pick" THEN Hole("grasp_pose_1") ELSE NoId]
MCAttributable == [n \in MCNodes |-> {Constraint(n)} \cup
  CASE MCActionOf[n] = "pick" -> {Hole("grasp_pose_1")}
    [] n = "reorient" -> {MCTubeAxis}
    [] OTHER -> {Hole("holder_pose_1")}]
MCIds == UNION {MCAttributable[n] : n \in MCNodes} \cup {MCGraspPose, MCTubeAxis, MCHolderPose}
=============================================================================
