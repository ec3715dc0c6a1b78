------------------------- MODULE MCSegmentationRun --------------------------
(* Two videos of four seconds: of one the model answers anything, of the   *)
(* other well or not at all.                                               *)
EXTENDS SegmentationRun

Seg(from, to, label, role) ==
  [from |-> from, to |-> to, label |-> label, role |-> role, full |-> TRUE, inverted |-> FALSE,
   motion |-> "other", seed |-> label, how |-> "model", sheets |-> "run"]

Pick == {"pick"}
Insert == {"insert"}
PickInsert == {"pick", "insert"}
AlignInsert == {"align", "insert"}

Clean == << Seg(0, 1000, Pick, ""), Seg(1000, 3000, Insert, "core") >>
Compound == << Seg(0, 500, {}, "core"), Seg(1000, 3000, PickInsert, "core"),
               Seg(3000, 3500, {"release"}, "cleanup") >>
TwoCompounds == << Seg(2000, 4000, AlignInsert, "core"), Seg(0, 2000, PickInsert, "core") >>
Nested == << Seg(0, 3000, {}, "core"), Seg(500, 1000, Pick, "core"), Seg(1000, 4200, Insert, "core") >>
Stray == << Seg(-200, 900, Pick, "left-over"), Seg(900, 900, Insert, ""), Seg(950, 1900, Blank, ""),
            Seg(5000, 6000, {}, "core") >>
Tail1 == << Seg(0, 1000, Pick, "core"), Seg(1000, 3000, {"insert", "release"}, "core") >>
LetGo == << Seg(0, 1000, Pick, "core"),
            [Seg(1000, 1500, {"release"}, "assist") EXCEPT !.motion = "release"] >>
Doubtful == << [Seg(1000, 3000, PickInsert, "core") EXCEPT !.inverted = TRUE] >>
Partial == << [Seg(0, 1000, Pick, "core") EXCEPT !.full = FALSE] >>

MCVideos == <<"a", "b">>
MCAnswers(v) ==
  IF v = "a" THEN {Clean, Compound, TwoCompounds, Nested, Stray, Tail1, LetGo, Doubtful, Partial, <<>>, Garbage}
  ELSE {Clean, Garbage}

MCRefinements ==
  { << Seg(0, 1000, Pick, "core"), Seg(1000, 2000, Insert, "core") >>,        \* relative times
    << Seg(1000, 2000, Pick, "core"), Seg(2000, 3000, Insert, "core") >>,     \* absolute times
    << Seg(960, 1900, Pick, "core"), Seg(1900, 3100, Insert, "cleanup") >>,   \* a little outside
    << Seg(900, 1900, Pick, "core"), Seg(1900, 3000, Insert, "core") >>,      \* read as relative
    << Seg(3050, 3120, Insert, "core") >>,                                    \* past the end
    << Seg(1000, 2500, Pick, "core"), Seg(2000, 3000, Insert, "core") >>,     \* overlapping
    << Seg(3600, 3900, Insert, "core") >>,                                    \* outside
    Garbage }
=============================================================================
