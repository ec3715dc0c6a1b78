--------------------------- MODULE MCRoboDojoAuto ---------------------------
(* Two pickups, one of an object the scene gives no position, a bottle     *)
(* task and two towers, one of which stands on a block that is not         *)
(* qualified.                                                              *)
EXTENDS RoboDojoAuto

Asset(category, qualified, counts) ==
  [category |-> category, qualified |-> qualified, collision |-> TRUE, mesh |-> TRUE, counts |-> counts]

PickupScene ==
  [assets |-> [target_prop |-> Asset("can", TRUE, [red |-> 5]),
               other_prop  |-> Asset("can", TRUE, [red |-> 5])],
   imports |-> [target_prop |-> <<60, 0, 80>>, other_prop |-> <<60, 10, 80>>]]

(* The object to be picked up has no place of its own.                     *)
UnplacedScene == [PickupScene EXCEPT !.imports = [other_prop |-> <<60, 10, 80>>]]

BottleScene ==
  [assets |-> [bottle0 |-> Asset("bottle", TRUE, [blue |-> 5, white |-> 3]),
               bottle1 |-> Asset("bottle", FALSE, [pink |-> 5]),
               bin     |-> Asset("dustbin", TRUE, <<>>)],
   imports |-> [bottle0 |-> <<50, -20, 80>>, bottle1 |-> <<50, 20, 80>>, bin |-> <<80, -20, 60>>]]

TowerScene ==
  [assets |-> [block0 |-> Asset("block", TRUE, [red |-> 5]),
               block1 |-> Asset("block", TRUE, [blue |-> 5]),
               block2 |-> Asset("block", TRUE, <<>>)],
   imports |-> [block0 |-> <<55, 0, 80>>, block1 |-> <<55, 14, 80>>, block2 |-> <<70, -20, 80>>]]

(* Nearer to what the scores prefer, on a base that is not qualified.      *)
BadTowerScene == [TowerScene EXCEPT !.assets.block0.qualified = FALSE,
                                    !.imports.block2 = <<55, 28, 80>>]

MCSuites ==
  << [class |-> "general_pickup", readable |-> TRUE, precise |-> FALSE, scene |-> PickupScene,
      goal |-> <<[type |-> "lift", of |-> "target_prop", in |-> ""]>>],
     [class |-> "put_bottles_into_dustbin", readable |-> TRUE, precise |-> FALSE, scene |-> BottleScene,
      goal |-> <<Inside("bottle0", "bin"), Inside("bottle1", "bin")>>],
     [class |-> "stack_blocks", readable |-> TRUE, precise |-> FALSE, scene |-> TowerScene,
      goal |-> <<[type |-> "tower", objects |-> <<"block0", "block1", "block2">>]>>],
     [class |-> "stack_blocks", readable |-> TRUE, precise |-> FALSE, scene |-> BadTowerScene,
      goal |-> <<[type |-> "tower", objects |-> <<"block0", "block1", "block2">>]>>],
     [class |-> "general_pickup", readable |-> TRUE, precise |-> FALSE, scene |-> UnplacedScene,
      goal |-> <<[type |-> "lift", of |-> "target_prop", in |-> ""]>>] >>

MCSkills == {"pick", "place", "pickplace"}
MCNames == <<"bin", "block0", "block1", "block2", "bottle0", "bottle1", "other_prop", "stateful", "target_prop">>
MCWishes == {<<>>, <<2, <<"bottle0", "bin">>>>, <<5, <<"target_prop">>>>}
MCOwnLabels == {NoLabel, Kind("block")}

(* The objects of a scene have changed places.                             *)
MCLeft(s) ==
  CASE s = 1 -> [target_prop |-> <<60, 10, 80>>, other_prop |-> <<60, 40, 80>>]
    [] s = 5 -> [other_prop |-> <<60, 40, 80>>]
    [] s = 2 -> [bottle0 |-> <<50, 20, 80>>, bottle1 |-> <<50, -20, 80>>, bin |-> <<80, -20, 60>>]
    [] OTHER -> [block0 |-> <<55, 14, 80>>, block1 |-> <<55, 0, 80>>, block2 |-> <<70, -20, 80>>]

MCHalfOf(category) == IF category = "dustbin" THEN <<10, 10, 15>> ELSE <<3, 3, 3>>
=============================================================================
