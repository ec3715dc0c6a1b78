---------------------- MODULE MCDemonstrationEvidence -----------------------
(* Five frames in which two cups come, cross, hide and come back, and a    *)
(* rack that stands still.                                                 *)
EXTENDS DemonstrationEvidence

Seen(at) == [at |-> at, mask |-> "box"]
Bare(at) == [at |-> at, mask |-> "none"]

Scene(cups, rack) == [f \in 1..5 |-> [p \in {"cup", "rack"} |-> IF p = "cup" THEN cups[f] ELSE rack]]
MCScenes ==
  { Scene(<< <<Seen(0), Seen(5)>>, <<Seen(5), Seen(1)>>, <<Seen(2)>>, <<>>, <<Seen(3), Seen(4)>> >>, <<Bare(9)>>),
    Scene(<< <<Seen(2)>>, <<>>, <<>>, <<Seen(3)>>, <<Seen(3), Bare(2)>> >>, <<Bare(9)>>),
    Scene(<< <<Bare(4), Seen(3)>>, <<Seen(4), Seen(4)>>, <<Seen(9)>>, <<Seen(4)>>, <<Seen(8)>> >>, <<>>),
    Scene(<< <<>>, <<Seen(1), [Seen(3) EXCEPT !.mask = "few"]>>, <<Seen(2), Seen(3)>>, <<Seen(3)>>, <<>> >>, <<>>),
    Scene(<< <<>>, <<[Seen(3) EXCEPT !.mask = "few"]>>, <<>>, <<>>, <<>> >>, <<>>),
    Scene(<< <<Seen(1)>>, <<Seen(1)>>, <<[Seen(1) EXCEPT !.mask = "garbled"]>>, <<>>, <<>> >>, <<Bare(9)>>) }

MCTraces == { << <<0, 2>>, <<2, 5>> >>, << <<1, 1>>, <<3, 4>>, <<6, 7>> >> }

(* CoTracker keeps to the object, moves it, loses it for a while or for    *)
(* good, or the video is cut short.                                        *)
Sample(at, seen) == [at |-> at, seen |-> seen]
Path(kind, at) ==
  CASE kind = "stays"  -> [f \in 1..5 |-> Sample(at, 4)]
    [] kind = "moves"  -> [f \in 1..5 |-> Sample(IF f < 3 THEN at ELSE 3, 2)]
    [] kind = "hides"  -> [f \in 1..5 |-> Sample(at, IF f \in {2, 3} THEN 1 ELSE 4)]
    [] kind = "leaves" -> [f \in 1..5 |-> Sample(at, IF f > 3 THEN 0 ELSE 3)]
    [] kind = "short"  -> [f \in 1..3 |-> Sample(at, 4)]
MCTrackAnswers(objects) ==
  { [o \in objects |-> Path(IF o.prompt = "cup" THEN kind ELSE "stays", o.anchor.at)] :
      kind \in {"stays", "moves", "hides", "leaves"} }
  \cup { [o \in objects |-> Path("short", o.anchor.at)] }

Phase(ref, from, to) == [ref |-> ref, from |-> from, to |-> to]
Instance(id, ref, from, to, phases) == [id |-> id, ref |-> ref, from |-> from, to |-> to, phases |-> phases]
Procedure(id) == [id |-> id]
(* Four ticks to the millisecond; the video ends half way through one.     *)
MCStructures ==
  { [procedures |-> <<Procedure("insert"), Procedure("insert")>>,
     instances |-> << Instance("second", "insert", 12, 24,
                               <<Phase("place", 17, 32), Phase("touch", 16, 18), Phase("grasp", 1, 15)>>),
                      Instance("first", "insert", 0, 8, <<Phase("none", 12, 16)>>) >>,
     sequence |-> <<"first">>],
    [procedures |-> <<Procedure("insert"), Procedure("lift")>>,
     instances |-> << Instance("one", "pour", 0, 8, <<>>), Instance("one", "lift", 12, 13, <<Phase("up", 0, 20)>>),
                      Instance("one", "insert", 12, 16, <<>>), Instance("two", "lift", 9, 9, <<>>) >>,
     sequence |-> <<"two", "one">>],
    [procedures |-> <<Procedure("lift")>>, instances |-> << Instance("one", "lift", 28, 36, <<>>) >>,
     sequence |-> <<"one">>],
    Refused }
MCPrompts == <<"cup", "rack">>
=============================================================================
