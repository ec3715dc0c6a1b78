------------------------- MODULE OperationStructure -------------------------
(***************************************************************************)
(* What refine-operation-structure keeps of an answer: procedures with     *)
(* their phases, the instances of them a demonstration shows, and the      *)
(* order of the instances.  The answer's times are floats; they are cut    *)
(* and compared as they are and written in whole milliseconds.  Here they  *)
(* are counted on a clock with TicksPerMs ticks to the millisecond.        *)
(***************************************************************************)
EXTENDS Listing, FiniteSetsExt

CONSTANT TicksPerMs
ASSUME TicksAssumption == TicksPerMs \in Nat \ {0}

(* What the answer is read as: times anywhere, names of anything.  Of a    *)
(* procedure only its id decides what is kept.                             *)
CanonicalOperationProcedure == [id : STRING]
ObservedOperationPhase == [ref : STRING, from : Int, to : Int]
OperationInstance ==
  [id : STRING, ref : STRING, from : Int, to : Int, phases : Seq(ObservedOperationPhase)]
OperationStructureResponse ==
  [procedures : Seq(CanonicalOperationProcedure), instances : Seq(OperationInstance), sequence : Seq(STRING)]

ClampTime(t, duration) == Min({Max({0, t}), duration})

(* round(t, 3): the nearest millisecond, the even one of two.              *)
Rounded(t) ==
  LET ms == t \div TicksPerMs
      rest == 2 * (t % TicksPerMs)
  IN IF rest > TicksPerMs \/ (rest = TicksPerMs /\ ms % 2 = 1) THEN ms + 1 ELSE ms
Written(timed) == [timed EXCEPT !.from = Rounded(@), !.to = Rounded(@)]

(* The first of each id, in order.                                         *)
Firsts(items, places) == { i \in places : \A j \in places : j < i => items[j].id # items[i].id }
FirstOfEach(items, places) == Chosen(items, Firsts(items, places))

(* What is left of a window in the video, and of a phase in its instance.  *)
WithinVideo(timed, duration) ==
  [timed EXCEPT !.from = ClampTime(@, duration), !.to = ClampTime(@, duration)]
WithinInstance(timed, window) == [timed EXCEPT !.from = Max({window.from, @}), !.to = Min({window.to, @})]
Lasts(timed) == timed.from < timed.to

(* Windows are compared before they are rounded, and sorted after.         *)
NormalizePhases(instance, duration) ==
  LET cut  == [i \in DOMAIN instance.phases |->
                WithinInstance(WithinVideo(instance.phases[i], duration), WithinVideo(instance, duration))]
      kept == Chosen(cut, { i \in DOMAIN cut : Lasts(cut[i]) })
  IN InTime([i \in DOMAIN kept |-> Written(kept[i])])

NormalizeInstance(instance, duration) ==
  [Written(WithinVideo(instance, duration)) EXCEPT !.phases = NormalizePhases(instance, duration)]

(* Only an instance that is kept makes a later one of its id a duplicate.  *)
Normalized(instances, places, duration) ==
  LET first == FirstOfEach(instances, places)
  IN [i \in DOMAIN first |-> NormalizeInstance(first[i], duration)]
Lasting(instances, duration) == { i \in DOMAIN instances : Lasts(WithinVideo(instances[i], duration)) }
(* Mutant: an instance of no known procedure is kept.                      *)
KeepAny(answer, duration) ==
  Normalized(answer.instances, Lasting(answer.instances, duration), duration)
Known(answer) == { answer.procedures[i].id : i \in DOMAIN answer.procedures }
KeepInstances(answer, duration) ==
  Normalized(answer.instances,
             { i \in Lasting(answer.instances, duration) : answer.instances[i].ref \in Known(answer) }, duration)

(* The order that was answered, if it has the right length.                *)
Sequence(answer, instances) ==
  LET ids   == { instances[i].id : i \in DOMAIN instances }
      given == Chosen(answer.sequence, { i \in DOMAIN answer.sequence : answer.sequence[i] \in ids })
      timed == InTime(instances)
  IN IF Len(given) = Cardinality(ids) THEN given ELSE [i \in DOMAIN timed |-> timed[i].id]

(* _normalize_structure; Refused is what it raises.                        *)
Refused == [procedures |-> <<>>, instances |-> <<>>, sequence |-> <<>>]
NormalizeStructure(answer, duration) ==
  LET procedures == FirstOfEach(answer.procedures, DOMAIN answer.procedures)
      instances  == KeepInstances(answer, duration)
  IN IF procedures = <<>> \/ instances = <<>> THEN Refused
     ELSE [procedures |-> procedures, instances |-> instances, sequence |-> Sequence(answer, instances)]
=============================================================================
