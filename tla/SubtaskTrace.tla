---------------------------- MODULE SubtaskTrace ----------------------------
(***************************************************************************)
(* What robot_subtask_seg makes of an answer of the vision model: the      *)
(* normalised segments of a trace, the children a second answer splits a   *)
(* segment into, the audit of a trace and the steps of its action trace.   *)
(* Times are milliseconds, the precision every stage rounds to.  A label   *)
(* is the set of the words the code looks for in it.                       *)
(***************************************************************************)
EXTENDS Listing, FiniteSetsExt, Functions

CONSTANT Duration   \* of a video

ASSUME DurationAssumption == Duration \in Nat \ {0}

(* A segment: its window, label, role, whether every field the audit wants *)
(* is there, whether a static target is named as what is manipulated, the  *)
(* motion; the label it was made from, how, and whose sheets show it.      *)
Roles == {"core", "assist", "cleanup", "uncertain"}
WithRole(roles) ==
  [from : Int, to : Int, label : SUBSET STRING, role : roles, full : BOOLEAN, inverted : BOOLEAN,
   motion : STRING, seed : SUBSET STRING, how : {"model", "kept", "refined"}, sheets : {"run", "refined"}]
Segment == WithRole(Roles)
Blank == {" "}

(* _normalize_role *)
NormalRole(role) ==
  IF role = "" THEN "core" ELSE IF role \in Roles THEN role ELSE "uncertain"

Clamped(t) == Min({Max({0, t}), Duration})

(* normalize_segmentation; Garbage is an answer it raises on.              *)
Garbage == << [label |-> {"no JSON object"}] >>

NormalizeSegmentation(answer) ==
  LET read == [i \in DOMAIN answer |-> [answer[i] EXCEPT !.from = Clamped(@), !.to = Clamped(@),
                                                         !.role = NormalRole(@)]]
  IN InTime(Chosen(read, { i \in DOMAIN read : read[i].from < read[i].to /\ read[i].label # Blank }))

-----------------------------------------------------------------------------
(* Quality.                                                                *)

CompoundReason(label) ==
  IF {"align", "insert"} \subseteq label THEN "align_insert"
  ELSE IF {"align", "pour"} \subseteq label THEN "align_pour"
  ELSE IF "pick" \in label /\ label \cap {"place", "insert", "pour"} # {} THEN "pick_terminal"
  ELSE "none"

(* _segment_time_issues that are errors: only the segment just before is   *)
(* compared with.                                                          *)
TimeErrorsLate(segments, i) ==
  \/ segments[i].to <= segments[i].from
  \/ i > 1 /\ segments[i].from < segments[i - 1].from
TimeErrors(segments, i) ==
  \/ segments[i].to <= segments[i].from
  \/ i > 1 /\ segments[i].from < segments[i - 1].to
  \/ segments[i].to > Duration + 600

FieldErrors(s) == ~s.full
EvidenceErrors(s, sheets) == s.sheets \notin sheets
RolesInverted(s) == s.inverted

(* audit_trace, its errors: sheets are the directories whose sheets exist. *)
(* A role found inverted once is warned of in every copy of the trace.     *)
HasErrors(trace, sheets) ==
  \/ trace.warned
  \/ LET segments == trace.segments
     IN \E i \in DOMAIN segments :
          \/ RolesInverted(segments[i]) \/ FieldErrors(segments[i])
          \/ EvidenceErrors(segments[i], sheets) \/ TimeErrors(segments, i)

(* audit_trace, the categories that call for refinement.                   *)
NeedsRefinement(segments) ==
  \E i \in DOMAIN segments :
    LET s == segments[i]
    IN \/ CompoundReason(s.label) # "none"
       \/ s.role # "cleanup" /\ "release" \in s.label /\ s.motion # "release"

-----------------------------------------------------------------------------
(* Refinement.                                                             *)

RefinementReason(s) ==
  CompoundReason(s.label) # "none" \/ ("release" \in s.label /\ s.role # "cleanup")

(* _coerce_child_times: early times are read as relative to the parent.    *)
CoerceChildTimes(s, parent) ==
  LET length == parent.to - parent.from
      local  == /\ parent.from > 0
                /\ s.from <= length + 200 /\ s.to <= length + 200
                /\ s.from < Max({parent.from - 50, 50})
  IN IF local THEN [s EXCEPT !.from = parent.from + @, !.to = parent.from + @] ELSE s

(* _refined_children: children up to 150 ms outside the window are kept    *)
(* and cut to it.                                                          *)
InWindow(s, parent) == s.from >= parent.from - 150 /\ s.to <= parent.to + 150
CutEnd(s, parent) == [s EXCEPT !.to = Min({parent.to, @})]
Cut(s, parent) == [s EXCEPT !.from = Max({parent.from, @}), !.to = Min({parent.to, @})]

RefinedChildren(answer, parent) ==
  LET read   == NormalizeSegmentation(answer)
      placed == [i \in DOMAIN read |-> CoerceChildTimes(read[i], parent)]
      kept   == Chosen(placed, { i \in DOMAIN placed :
                                   placed[i].from < placed[i].to /\ InWindow(placed[i], parent) })
  IN [i \in DOMAIN kept |-> [Cut(kept[i], parent) EXCEPT !.seed = parent.label, !.how = "refined",
                                                         !.sheets = "refined"]]

(* The body of refine_trace_actions for one segment.                       *)
RefineSegment(s, answer) ==
  IF ~RefinementReason(s) THEN <<s>>
  ELSE LET children == RefinedChildren(answer, s)
       IN IF children = <<>> THEN << [s EXCEPT !.how = "kept"] >> ELSE children

RefineTraceActions(segments, answers) ==
  Joined([i \in DOMAIN segments |-> RefineSegment(segments[i], answers[i])])

-----------------------------------------------------------------------------
(* Action traces.                                                          *)

Step(s, from, to, source) == [from |-> from, to |-> to, label |-> s.label, source |-> source]

(* _split_time *)
SplitTime(s, percent) == s.from + ((s.to - s.from) * percent + 50) \div 100

(* _split_align_terminal, _split_grasp_terminal, _split_compound_segment.  *)
SplitAt(s, at) == << Step(s, s.from, at, "heuristic_split"), Step(s, at, s.to, "heuristic_split") >>
SplitAlign(s) == SplitAt(s, SplitTime(s, 45))
SplitGrasp(s) == SplitAt(s, SplitTime(s, 35))
SplitSegment(s) == IF CompoundReason(s.label) = "pick_terminal" THEN SplitGrasp(s) ELSE SplitAlign(s)

(* materialize_action_trace *)
SplitsReleases(segments, includeCleanup) ==
  Joined([i \in DOMAIN segments |->
    IF segments[i].role = "cleanup" /\ ~includeCleanup THEN <<>>
    ELSE IF RefinementReason(segments[i]) THEN SplitSegment(segments[i])
    ELSE << Step(segments[i], segments[i].from, segments[i].to, "model") >>])
MaterializeSteps(segments, includeCleanup) ==
  Joined([i \in DOMAIN segments |->
    IF segments[i].role = "cleanup" /\ ~includeCleanup THEN <<>>
    ELSE IF CompoundReason(segments[i].label) # "none" THEN SplitSegment(segments[i])
    ELSE << Step(segments[i], segments[i].from, segments[i].to, "model") >>])

ExecutionReady(steps) == \A i \in DOMAIN steps : steps[i].source # "heuristic_split"
=============================================================================
