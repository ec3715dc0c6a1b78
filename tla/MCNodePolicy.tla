---------------------------- MODULE MCNodePolicy ----------------------------
(***************************************************************************)
(* Instances of NodePolicy for TLC.  Node "a" may be retried and has two   *)
(* identifiers to blame; the others are tried once.  A graph entered at    *)
(* "a" is a line of two nodes, one entered at "c" never leaves "c".        *)
(***************************************************************************)
EXTENDS NodePolicy

CONSTANTS align, pose, insert   \* model values

MCNodes == {"a", "b", "c"}
MCEntries == {"a", "c"}
MCNextOf == [n \in MCNodes |-> CASE n = "a" -> "b" [] n = "b" -> "none" [] n = "c" -> "c"]
MCMaxAttempts == [n \in MCNodes |-> IF n = "a" THEN 2 ELSE 1]
MCIds == {align, pose, insert}
MCAttributable == [n \in MCNodes |->
                     IF n = "a" THEN {align, pose} ELSE {insert}]
MCFirstConstraint == [n \in MCNodes |-> IF n = "a" THEN align ELSE insert]
=============================================================================
