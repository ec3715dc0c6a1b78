------------------------ MODULE DemonstrationProofs -------------------------
(***************************************************************************)
(* Theorems about SegmentationRun and DemonstrationEvidence, for any       *)
(* manifest, any video and any answers of the models, and any order of     *)
(* commands and interruptions.  They share no state; what both know of     *)
(* lists comes from ListingProofs.                                         *)
(***************************************************************************)
EXTENDS SegmentationRun, DemonstrationEvidence, ListingProofs

-----------------------------------------------------------------------------
(* SegmentationRun: a passing report misses no video, for a video that a   *)
(* segment command is done with has a trace or an error.                   *)

Shape ==
  /\ DOMAIN traces = Dirs /\ \A d \in Dirs : DOMAIN traces[d] = VideoSet
  /\ DOMAIN reports = Dirs
  /\ {"name", "todo"} \subseteq DOMAIN command
  /\ command.name = "segment" => command.todo \in Seq(VideoSet)

(* A video that a segment command is done with has a trace or an error.    *)
Accounted(v) == traces["run"][v].there \/ v \in errors
Covered ==
  command.name = "segment" =>
    \A v \in VideoSet : Accounted(v) \/ \E i \in DOMAIN command.todo : command.todo[i] = v

IInv == Shape /\ Covered /\ PassIsComplete

LEMMA Manifest ==
  Videos \in Seq(VideoSet) /\ \A v \in VideoSet : \E i \in DOMAIN Videos : Videos[i] = v
  BY SegmentationAssumption DEF SegmentationAssumption, VideoSet, Range

LEMMA Initially == Init => IInv
  BY DEF Init, IInv, Shape, Covered, PassIsComplete, Idle, NoReport, Dirs

-----------------------------------------------------------------------------
(* A video stays accounted for while traces and errors only grow.          *)
LEMMA Growing ==
  ASSUME Covered, command'.name = "segment" => command' = command,
         \A v \in VideoSet : Accounted(v) => Accounted(v)'
  PROVE  Covered'
  BY DEF Covered

(* A report of another directory, or of another command, is not the one    *)
(* the property is about.                                                  *)
LEMMA OtherReport ==
  ASSUME PassIsComplete, Shape,
         \/ reports'["run"] = reports["run"]
         \/ reports'["run"].by # "segment"
         \/ reports'["run"] = NoReport
  PROVE  PassIsComplete'
  BY DEF PassIsComplete, NoReport

LEMMA SegmentStarts ==
  ASSUME IInv, NEW keepGoing \in BOOLEAN, StartSegment(keepGoing)
  PROVE  IInv'
<1>1. command' = [name |-> "segment", dir |-> "run", todo |-> Videos, flag |-> keepGoing]
  BY DEF StartSegment, Give
<1>2. Shape' /\ Covered'
  BY <1>1, Manifest DEF IInv, Shape, Covered, StartSegment
<1>3. PassIsComplete'
  BY OtherReport DEF IInv, StartSegment
<1> QED  BY <1>2, <1>3 DEF IInv

(* Where a trace is filed.                                                 *)
LEMMA TraceFiled ==
  ASSUME Shape, NEW dir \in Dirs, NEW v \in VideoSet, NEW t,
         traces' = [traces EXCEPT ![dir][v] = t]
  PROVE  /\ DOMAIN traces' = Dirs /\ \A d \in Dirs : DOMAIN traces'[d] = VideoSet
         /\ traces'[dir][v] = t
  BY DEF Shape

(* The command goes on to the next video.                                  *)
LEMMA ReadingGoesOn ==
  ASSUME Shape
  PROVE  /\ Next1.name = command.name /\ Next1.todo = Tail(command.todo)
         /\ {"name", "todo"} \subseteq DOMAIN Next1
  BY DEF Shape, Next1

(* The video that is done is the first of those to do, and it is left with *)
(* a trace or an error.                                                    *)
LEMMA SegmentGoesOn ==
  ASSUME IInv, SegmentVideo
  PROVE  IInv'
<1>1. command.name = "segment" /\ command.todo \in Seq(VideoSet) /\ command.todo # <<>>
  BY DEF SegmentVideo, Doing, IInv, Shape
<1>2. PICK v \in VideoSet : v = Head(command.todo)
  BY <1>1
<1>3. reports' = reports
  BY DEF SegmentVideo
<1>4. \/ /\ errors' = errors \cup {v} /\ traces' = traces
         /\ command' = Next1 \/ command' = Idle
      \/ /\ errors' = errors /\ command' = Next1
         /\ \E t : traces' = [traces EXCEPT !["run"][v] = t] /\ t.there
  <2>1. PICK answer \in Answers(v) :
          IF answer = Garbage
          THEN /\ errors' = errors \cup {v}
               /\ command' = IF command.flag THEN Next1 ELSE Idle
               /\ UNCHANGED traces
          ELSE /\ LET segments == NormalizeSegmentation(answer)
                  IN traces' = [traces EXCEPT !["run"][v] =
                       [there |-> TRUE, segments |-> segments, of |-> segments,
                        warned |-> \E s \in Range(segments) : RolesInverted(s)]]
               /\ command' = Next1
               /\ UNCHANGED errors
    BY <1>2 DEF SegmentVideo
  <2>2. CASE answer = Garbage
    BY <2>1, <2>2
  <2>3. CASE answer # Garbage
    <3> DEFINE t == [there |-> TRUE, segments |-> NormalizeSegmentation(answer), of |-> NormalizeSegmentation(answer),
                     warned |-> \E s \in Range(NormalizeSegmentation(answer)) : RolesInverted(s)]
    <3>1. traces' = [traces EXCEPT !["run"][v] = t] /\ t.there
      BY <2>1, <2>3
    <3> QED  BY <3>1, <2>1, <2>3
  <2> QED  BY <2>2, <2>3
<1>5. \/ traces' = traces
      \/ \E t : t.there /\ traces' = [traces EXCEPT !["run"][v] = t]
  BY <1>4
<1>6. /\ DOMAIN traces' = Dirs /\ \A d \in Dirs : DOMAIN traces'[d] = VideoSet
      /\ \A w \in VideoSet : traces["run"][w].there => traces'["run"][w].there
  <2>1. CASE traces' = traces
    BY <2>1 DEF IInv, Shape
  <2>2. CASE traces' # traces
    <3>1. PICK t : t.there /\ traces' = [traces EXCEPT !["run"][v] = t]
      BY <1>5, <2>2
    <3>2. "run" \in Dirs
      BY DEF Dirs
    <3>3. /\ DOMAIN traces' = Dirs /\ \A d \in Dirs : DOMAIN traces'[d] = VideoSet
          /\ traces'["run"][v] = t
      BY <1>2, <3>1, <3>2, TraceFiled DEF IInv
    <3>4. \A w \in VideoSet : w # v => traces'["run"][w] = traces["run"][w]
      BY <1>2, <3>1, <3>2 DEF IInv, Shape
    <3> QED  BY <3>1, <3>3, <3>4
  <2> QED  BY <2>1, <2>2
<1>12. errors \subseteq errors' /\ (v \in errors' \/ traces'["run"][v].there)
  <2>1. CASE errors' = errors \cup {v}
    BY <2>1
  <2>2. CASE errors' # errors \cup {v}
    <3>1. PICK t : errors' = errors /\ traces' = [traces EXCEPT !["run"][v] = t] /\ t.there
      BY <1>4, <2>2
    <3>2. traces'["run"][v] = t /\ "run" \in Dirs
      BY <3>1, TraceFiled DEF IInv, Dirs
    <3> QED  BY <3>1, <3>2
  <2> QED  BY <2>1, <2>2
<1>10. \A w \in VideoSet : Accounted(w) => Accounted(w)'
  BY <1>6, <1>12 DEF Accounted
<1>11. Accounted(v)'
  BY <1>6, <1>12 DEF Accounted
<1>7. Shape'
  <2>1. DOMAIN traces' = Dirs /\ \A d \in Dirs : DOMAIN traces'[d] = VideoSet
    BY <1>6
  <2>2. command'.name = "segment" => command'.todo \in Seq(VideoSet)
    BY <1>1, <1>4, ReadingGoesOn DEF Idle, IInv
  <2>3. {"name", "todo"} \subseteq DOMAIN command'
    BY <1>4, ReadingGoesOn DEF Idle, IInv
  <2> QED  BY <1>3, <2>1, <2>2, <2>3 DEF IInv, Shape
<1>8. Covered'
  <2> SUFFICES ASSUME command'.name = "segment", NEW w \in VideoSet, ~Accounted(w)'
               PROVE  \E i \in DOMAIN command'.todo : command'.todo[i] = w
    BY DEF Covered
  <2>5. command' = Next1 \/ command' = Idle
    BY <1>4
  <2>6. command' # Idle
    BY DEF Idle
  <2>7. Next1.todo = Tail(command.todo)
    BY ReadingGoesOn DEF IInv
  <2>1. command'.todo = Tail(command.todo)
    BY <2>5, <2>6, <2>7
  <2>2. PICK i \in DOMAIN command.todo : command.todo[i] = w
    BY <1>1, <1>10 DEF IInv, Covered
  <2>3. i # 1
    BY <1>1, <1>2, <1>11, <2>2
  <2>4. i - 1 \in DOMAIN Tail(command.todo) /\ Tail(command.todo)[i - 1] = w
    BY <1>1, <2>2, <2>3
  <2> QED  BY <2>1, <2>4
<1>9. PassIsComplete'
  BY <1>3, OtherReport DEF IInv
<1> QED  BY <1>7, <1>8, <1>9 DEF IInv

(* Nothing is left to do, so that a report without errors has them all.    *)
LEMMA SegmentEnds ==
  ASSUME IInv, EndSegment
  PROVE  IInv'
<1>1. command.name = "segment" /\ command.todo = <<>>
  BY DEF EndSegment, Done
<1>2. command' = Idle /\ traces' = traces
  BY DEF EndSegment
<1>3. reports' = [reports EXCEPT !["run"] = Report("run", "segment")]
  BY DEF EndSegment
<1>4. \A v \in VideoSet : Accounted(v)
  BY <1>1 DEF IInv, Covered
<1>5. reports'["run"] = Report("run", "segment")
  BY <1>3 DEF IInv, Shape, Dirs
<1>6. Report("run", "segment").status = "pass" => errors = {}
  BY DEF Report, Status, Failed
<1>7. PassIsComplete'
  BY <1>4, <1>5, <1>6 DEF PassIsComplete, Report, Accounted
<1>8. Shape' /\ Covered'
  BY <1>2, <1>3 DEF IInv, Shape, Covered, Idle
<1> QED  BY <1>7, <1>8 DEF IInv

-----------------------------------------------------------------------------
(* The other commands.                                                     *)

LEMMA Refinement ==
  ASSUME IInv, (\E materialize \in BOOLEAN : StartRefine(materialize)) \/ RefineVideo \/ EndRefine
  PROVE  IInv'
<1>1. CASE \E materialize \in BOOLEAN : StartRefine(materialize)
  <2>1. /\ command'.name = "refine" /\ {"name", "todo"} \subseteq DOMAIN command'
        /\ UNCHANGED <<traces, errors, reports>>
    BY <1>1 DEF StartRefine, Give
  <2> QED  BY <2>1, OtherReport DEF IInv, Shape, Covered
<1>2. CASE RefineVideo
  <2>1. command.name = "refine" /\ UNCHANGED <<errors, reports>>
    BY <1>2 DEF RefineVideo, Doing
  <2>2. command' = Idle \/ command' = Next1
    BY <1>2 DEF RefineVideo
  <2>3. command'.name # "segment" /\ {"name", "todo"} \subseteq DOMAIN command'
    BY <2>1, <2>2, ReadingGoesOn DEF Idle, IInv
  <2>4. traces' = traces \/ \E v, t : traces' = [traces EXCEPT !["refined"][v] = t]
    BY <1>2 DEF RefineVideo
  <2>5. DOMAIN traces' = Dirs /\ \A d \in Dirs : DOMAIN traces'[d] = VideoSet
    BY <2>4 DEF IInv, Shape
  <2> QED  BY <2>1, <2>3, <2>5, OtherReport DEF IInv, Shape, Covered
<1>3. CASE EndRefine
  <2>1. /\ command'.name # "segment" /\ {"name", "todo"} \subseteq DOMAIN command'
        /\ traces' = traces
    BY <1>3 DEF EndRefine, Idle
  <2>2. reports' = [reports EXCEPT !["refined"] = Report("refined", "refine")]
    BY <1>3 DEF EndRefine
  <2>3. reports'["run"] = reports["run"] /\ DOMAIN reports' = DOMAIN reports
    BY <2>2 DEF IInv, Shape, Dirs
  <2> QED  BY <2>1, <2>3, OtherReport DEF IInv, Shape, Covered
<1> QED  BY <1>1, <1>2, <1>3

LEMMA Materialization ==
  ASSUME IInv,
         \/ \E dir \in Dirs, includeCleanup \in BOOLEAN : StartMaterialize(dir, includeCleanup)
         \/ MaterializeVideo \/ EndMaterialize
  PROVE  IInv'
<1>1. UNCHANGED <<traces, errors, reports>>
  BY DEF StartMaterialize, MaterializeVideo, EndMaterialize
<1>2. command'.name # "segment" /\ {"name", "todo"} \subseteq DOMAIN command'
  BY ReadingGoesOn DEF IInv, StartMaterialize, MaterializeVideo, EndMaterialize, Give, Doing, Done, Idle
<1> QED  BY <1>1, <1>2, OtherReport DEF IInv, Shape, Covered

LEMMA Audit ==
  ASSUME IInv, NEW dir \in Dirs, NEW archiveFailed \in BOOLEAN, AuditRun(dir, archiveFailed)
  PROVE  IInv'
<1>1. command'.name # "segment" /\ command' = command
  BY DEF AuditRun, Idle
<1>2. CASE archiveFailed /\ Failed(dir)
  <2>1. PICK gone \in SUBSET Dirs :
          /\ traces' = [d \in Dirs |-> IF d \in gone THEN [v \in VideoSet |-> NoTrace] ELSE traces[d]]
          /\ reports' = [d \in Dirs |-> IF d \in gone THEN NoReport ELSE reports[d]]
    <3> DEFINE all == IF dir = "run" /\ inside THEN Dirs ELSE {dir}
    <3>1. /\ all \in SUBSET Dirs
          /\ traces' = [d \in Dirs |-> IF d \in all THEN [v \in VideoSet |-> NoTrace] ELSE traces[d]]
          /\ reports' = [d \in Dirs |-> IF d \in all THEN NoReport ELSE reports[d]]
      BY <1>2 DEF AuditRun
    <3> QED  BY <3>1
  <2>2. Shape' /\ Covered'
    BY <1>1, <2>1 DEF IInv, Shape, Covered
  <2>3. reports'["run"] \in {reports["run"], NoReport}
    BY <2>1 DEF Dirs
  <2> QED  BY <2>2, <2>3, OtherReport DEF IInv
<1>3. CASE ~(archiveFailed /\ Failed(dir))
  <2>1. /\ traces' = traces
        /\ reports' = [reports EXCEPT ![dir] = Report(dir, "audit")]
    BY <1>3 DEF AuditRun
  <2>2. Shape' /\ Covered'
    BY <1>1, <2>1 DEF IInv, Shape, Covered
  <2>3. reports'["run"] = reports["run"] \/ reports'["run"].by = "audit"
    BY <2>1 DEF IInv, Shape, Dirs, Report
  <2> QED  BY <2>2, <2>3, OtherReport DEF IInv
<1> QED  BY <1>2, <1>3

LEMMA Interruption ==
  ASSUME IInv, Interrupt \/ UNCHANGED vars
  PROVE  IInv'
<1>1. UNCHANGED <<traces, errors, reports>> /\ (command' = Idle \/ command' = command)
  BY DEF Interrupt, vars
<1> QED  BY <1>1, OtherReport DEF IInv, Shape, Covered, Accounted, Idle

LEMMA Stepping == IInv /\ [Next]_vars => IInv'
  BY SegmentStarts, SegmentGoesOn, SegmentEnds, Refinement, Materialization, Audit, Interruption DEF Next

(* For every manifest, whatever the model answers and however often a      *)
(* command is given up and run again over what is left: the report of a    *)
(* segment command passes only with a trace of every video.                *)
THEOREM PassingIsComplete == Spec => []PassIsComplete
<1>1. Init => IInv  BY Initially
<1>2. IInv /\ [Next]_vars => IInv'  BY Stepping
<1>3. IInv => PassIsComplete  BY DEF IInv
<1> QED  BY <1>1, <1>2, <1>3, PTL DEF Spec

-----------------------------------------------------------------------------
(* SegmentationRun: what normalisation, refinement and the audit make of a *)
(* list of segments.                                                       *)

(* Segments that lie in the video, in a list.                              *)
InVideo(s) == s \in Segment /\ 0 <= s.from /\ s.to <= Duration
Timeline(segments) ==
  /\ \E n \in Nat : DOMAIN segments = 1..n
  /\ \A i \in DOMAIN segments : InVideo(segments[i])

(* Every time is brought into the video.                                   *)
LEMMA TimeInVideo ==
  ASSUME NEW t \in Int
  PROVE  Clamped(t) \in 0..Duration
<1>0. Duration \in Int /\ Duration >= 0
  BY DurationAssumption DEF DurationAssumption
<1>1. Max({0, t}) = IF 0 >= t THEN 0 ELSE t
  BY MaxOfTwo
<1>2. Min({Max({0, t}), Duration}) = IF Max({0, t}) <= Duration THEN Max({0, t}) ELSE Duration
  BY <1>0, <1>1, MinOfTwo
<1> QED
  BY <1>0, <1>1, <1>2 DEF Clamped

(* The windows of normalised segments, and what they keep of the answer.   *)
From(s, answer) == \E j \in DOMAIN answer : s.label = answer[j].label /\ s.seed = answer[j].seed

(* Normalised segments lie in the video, end after they start and keep the *)
(* names of the answer.                                                    *)
LEMMA NormalizedAre ==
  ASSUME NEW answer \in Seq(WithRole(STRING))
  PROVE  LET segments == NormalizeSegmentation(answer) IN
         /\ Timeline(segments)
         /\ \A i \in DOMAIN segments : segments[i].from < segments[i].to /\ From(segments[i], answer)
<1> DEFINE read == [i \in DOMAIN answer |-> [answer[i] EXCEPT !.from = Clamped(@), !.to = Clamped(@),
                                                         !.role = NormalRole(@)]]
           kept == { i \in DOMAIN read : read[i].from < read[i].to /\ read[i].label # Blank }
           list == Chosen(read, kept)
           segments == NormalizeSegmentation(answer)
           Fine(s) == InVideo(s) /\ s.from < s.to /\ From(s, answer)
<1>1. /\ DOMAIN answer \in SUBSET Nat /\ IsFiniteSet(DOMAIN answer)
      /\ \A i \in DOMAIN answer : answer[i] \in WithRole(STRING)
  BY ListPlaces
<1>2. segments = InTime(list)
  BY DEF NormalizeSegmentation
<1>3. ASSUME NEW i \in DOMAIN answer
      PROVE  InVideo(read[i]) /\ From(read[i], answer)
  <2>1. answer[i].from \in Int /\ answer[i].to \in Int
    BY <1>1 DEF WithRole
  <2>2. Clamped(answer[i].from) \in 0..Duration
    BY <2>1, TimeInVideo, Zenon
  <2>3. Clamped(answer[i].to) \in 0..Duration
    BY <2>1, TimeInVideo, Zenon
  <2>4. NormalRole(answer[i].role) \in Roles
    BY DEF NormalRole, Roles
  <2>5. Duration \in Int
    BY DurationAssumption DEF DurationAssumption
  <2>6. PICK s \in WithRole(STRING) : s = answer[i]
    BY <1>1
  <2>7. read[i] = [s EXCEPT !.from = Clamped(s.from), !.to = Clamped(s.to), !.role = NormalRole(s.role)]
    BY <2>6
  <2>8. /\ read[i] \in Segment /\ read[i].from = Clamped(s.from) /\ read[i].to = Clamped(s.to)
        /\ read[i].label = s.label /\ read[i].seed = s.seed
    <3> DEFINE a == Clamped(s.from)
               b == Clamped(s.to)
               role == NormalRole(s.role)
    <3>1. a \in Int /\ b \in Int /\ role \in Roles
      BY <2>2, <2>3, <2>4, <2>5, <2>6
    <3>2. read[i] = [s EXCEPT !.from = a, !.to = b, !.role = role]
      BY <2>7
    <3> HIDE DEF a, b, role, read
    <3>3. [s EXCEPT !.from = a, !.to = b, !.role = role] \in Segment
      BY <3>1 DEF Segment, WithRole
    <3>4. /\ read[i].from = a /\ read[i].to = b
          /\ read[i].label = s.label /\ read[i].seed = s.seed
      BY <3>2 DEF WithRole
    <3> QED
      BY <3>2, <3>3, <3>4 DEF a, b
  <2> HIDE DEF read
  <2> QED
    BY <2>2, <2>3, <2>5, <2>6, <2>8 DEF InVideo, From
<1>4. DOMAIN read = DOMAIN answer
  OBVIOUS
<1> HIDE DEF read, segments
<1>5. kept \in SUBSET Nat /\ IsFiniteSet(kept)
  BY <1>1, <1>4, SomePlaces
<1>6. \A i \in kept : Fine(read[i])
  BY <1>3, <1>4
<1> HIDE DEF kept, Fine, list
<1>7. Picked(list, read, kept)
  BY <1>5, ChosenPicks DEF list
<1>8. DOMAIN list = 1..Cardinality(kept) /\ Cardinality(kept) \in Nat
  BY <1>5, <1>7, PickedLength
<1>9. \A n \in DOMAIN list : Fine(list[n])
  BY <1>6, <1>7, <1>8 DEF Picked
<1>10. DOMAIN list \in SUBSET Nat /\ IsFiniteSet(DOMAIN list)
  BY <1>8, FS_Interval
<1>11. \A n \in DOMAIN list : list[n].from \in Int /\ list[n].to \in Int
  BY <1>9 DEF Fine, InVideo, Segment, WithRole
<1>12. Picked(segments, list, DOMAIN list)
  BY <1>2, <1>10, <1>11, InTimePicks
<1>13. DOMAIN segments = 1..Cardinality(DOMAIN list) /\ Cardinality(DOMAIN list) \in Nat
  BY <1>10, <1>12, PickedLength
<1>14. \A n \in DOMAIN segments : Fine(segments[n])
  BY <1>9, <1>12, <1>13 DEF Picked
<1> QED
  BY <1>13, <1>14 DEF Timeline, Fine, segments

-----------------------------------------------------------------------------
(* What refinement makes of a segment lies inside it and names it.         *)
WithinParent(segments, parent) ==
  /\ Timeline(segments)
  /\ \A i \in DOMAIN segments : /\ segments[i].seed = parent.label
                                /\ parent.from <= segments[i].from /\ segments[i].to <= parent.to

(* A child is cut to its parent and named after it.                        *)
LEMMA CutInside ==
  ASSUME NEW parent, InVideo(parent), NEW s \in Segment
  PROVE  LET child == [Cut(CoerceChildTimes(s, parent), parent) EXCEPT !.seed = parent.label, !.how = "refined",
                                                                       !.sheets = "refined"] IN
         /\ InVideo(child) /\ child.seed = parent.label
         /\ parent.from <= child.from /\ child.to <= parent.to
<1> DEFINE placed == CoerceChildTimes(s, parent)
           child == [Cut(placed, parent) EXCEPT !.seed = parent.label, !.how = "refined", !.sheets = "refined"]
<1>1. parent \in Segment /\ parent.from \in Int /\ parent.to \in Int /\ parent.label \in SUBSET STRING
  BY DEF InVideo, Segment, WithRole
<1>2. s.from \in Int /\ s.to \in Int
  BY DEF Segment, WithRole
<1>3. placed = s \/ placed = [s EXCEPT !.from = parent.from + s.from, !.to = parent.from + s.to]
  BY DEF CoerceChildTimes
<1>4. placed \in Segment
  <2>1. parent.from + s.from \in Int /\ parent.from + s.to \in Int
    BY <1>1, <1>2
  <2>2. \A a, b \in Int : [s EXCEPT !.from = a, !.to = b] \in Segment
    BY DEF Segment, WithRole
  <2> QED
    BY <1>3, <2>1, <2>2
<1> HIDE DEF placed
<1>5. placed.from \in Int /\ placed.to \in Int
  BY <1>4 DEF Segment, WithRole
<1>6. Max({parent.from, placed.from}) = IF parent.from >= placed.from THEN parent.from ELSE placed.from
  BY <1>1, <1>5, MaxOfTwo
<1>7. Min({parent.to, placed.to}) = IF parent.to <= placed.to THEN parent.to ELSE placed.to
  BY <1>1, <1>5, MinOfTwo
<1>8. child = [placed EXCEPT !.from = Max({parent.from, placed.from}), !.to = Min({parent.to, placed.to}),
                             !.seed = parent.label, !.how = "refined", !.sheets = "refined"]
  BY <1>4 DEF Cut, Segment, WithRole
<1>9. /\ child.from = Max({parent.from, placed.from}) /\ child.to = Min({parent.to, placed.to})
      /\ child.seed = parent.label
  BY <1>4, <1>8 DEF Segment, WithRole
<1>10. Max({parent.from, placed.from}) \in Int /\ Min({parent.to, placed.to}) \in Int
  BY <1>1, <1>5, <1>6, <1>7
<1>11. child \in Segment
  <2>1. \A a, b \in Int, seed \in SUBSET STRING :
          [placed EXCEPT !.from = a, !.to = b, !.seed = seed, !.how = "refined", !.sheets = "refined"] \in Segment
    BY <1>4 DEF Segment, WithRole
  <2> QED
    BY <1>1, <1>8, <1>10, <2>1
<1> HIDE DEF child
<1>12. parent.from <= child.from /\ child.to <= parent.to /\ child.from \in Int /\ child.to \in Int
  BY <1>1, <1>5, <1>6, <1>7, <1>9
<1>13. Duration \in Int /\ 0 <= parent.from /\ parent.to <= Duration
  BY DurationAssumption DEF DurationAssumption, InVideo
<1>14. InVideo(child)
  BY <1>1, <1>11, <1>12, <1>13 DEF InVideo
<1> QED
  BY <1>9, <1>12, <1>14 DEF child, placed

(* So is every child of a refinement.                                      *)
LEMMA ChildrenInside ==
  ASSUME NEW parent, InVideo(parent), NEW answer \in Seq(WithRole(STRING))
  PROVE  WithinParent(RefinedChildren(answer, parent), parent)
<1> DEFINE read == NormalizeSegmentation(answer)
           placed == [i \in DOMAIN read |-> CoerceChildTimes(read[i], parent)]
           places == { i \in DOMAIN placed : placed[i].from < placed[i].to /\ InWindow(placed[i], parent) }
           kept == Chosen(placed, places)
           Child(s) == [Cut(s, parent) EXCEPT !.seed = parent.label, !.how = "refined", !.sheets = "refined"]
           Fine(child) == /\ InVideo(child) /\ child.seed = parent.label
                          /\ parent.from <= child.from /\ child.to <= parent.to
<1>1. PICK n \in Nat : DOMAIN read = 1..n
  BY NormalizedAre DEF Timeline
<1>2. \A i \in DOMAIN read : read[i] \in Segment
  BY NormalizedAre DEF Timeline, InVideo
<1> HIDE DEF read
<1>3. ASSUME NEW i \in DOMAIN read
      PROVE  Fine(Child(placed[i]))
  <2>1. placed[i] = CoerceChildTimes(read[i], parent)
    OBVIOUS
  <2>2. Fine(Child(CoerceChildTimes(read[i], parent)))
    BY <1>2, CutInside
  <2> QED
    BY <2>1, <2>2
<1>4. DOMAIN placed = 1..n
  BY <1>1
<1>5. places \in SUBSET Nat /\ IsFiniteSet(places)
  <2>1. IsFiniteSet(1..n) /\ 1..n \in SUBSET Nat
    BY FS_Interval
  <2>2. places \in SUBSET (1..n)
    BY <1>4
  <2> HIDE DEF places
  <2>3. IsFiniteSet(places)
    BY <2>1, <2>2, FS_Subset, Zenon
  <2> QED
    BY <2>2, <2>3
<1>6. RefinedChildren(answer, parent) = [i \in DOMAIN kept |-> Child(kept[i])]
  BY DEF RefinedChildren, read
<1>7. places \subseteq DOMAIN read
  BY <1>1, <1>4
<1> HIDE DEF Fine, Child, placed, places
<1>8. Picked(kept, placed, places)
  BY <1>5, ChosenPicks
<1> HIDE DEF kept
<1>9. DOMAIN kept = 1..Cardinality(places) /\ Cardinality(places) \in Nat
  BY <1>5, <1>8, PickedLength
<1>10. \A i \in DOMAIN kept : Fine(Child(kept[i]))
  BY <1>3, <1>7, <1>8, <1>9 DEF Picked
<1>11. \A i \in DOMAIN kept : RefinedChildren(answer, parent)[i] = Child(kept[i])
  BY <1>6
<1>12. DOMAIN RefinedChildren(answer, parent) = DOMAIN kept
  BY <1>6
<1> QED
  BY <1>9, <1>10, <1>11, <1>12 DEF WithinParent, Timeline, Fine

(* Every segment lies inside one it was made from.                         *)
OwnSeeds(segments) == \A i \in DOMAIN segments : segments[i].seed = segments[i].label
Family(segments, parents) ==
  \A i \in DOMAIN segments : \E p \in Range(parents) :
    p.label = segments[i].seed /\ p.from <= segments[i].from /\ segments[i].to <= p.to

(* Fresh segments are their own parents.                                   *)
LEMMA OwnFamily ==
  ASSUME NEW segments, Timeline(segments), OwnSeeds(segments)
  PROVE  Family(segments, segments)
<1> SUFFICES ASSUME NEW i \in DOMAIN segments
             PROVE  \E p \in Range(segments) :
                      p.label = segments[i].seed /\ p.from <= segments[i].from /\ segments[i].to <= p.to
  BY DEF Family
<1>1. segments[i] \in Range(segments)
  BY DEF Range
<1>2. segments[i].from \in Int /\ segments[i].to \in Int
  BY DEF Timeline, InVideo, Segment, WithRole
<1>3. segments[i].label = segments[i].seed
  BY DEF OwnSeeds
<1> QED
  BY <1>1, <1>2, <1>3

(* Whatever the answer, a segment becomes segments inside it: itself or    *)
(* its children.                                                           *)
LEMMA SegmentRefined ==
  ASSUME NEW s, InVideo(s), s.seed = s.label, NEW answer \in Seq(WithRole(STRING))
  PROVE  WithinParent(RefineSegment(s, answer), s)
<1>1. s \in Segment /\ s.from \in Int /\ s.to \in Int
  BY DEF InVideo, Segment, WithRole
<1>2. WithinParent(<<s>>, s)
  BY <1>1 DEF WithinParent, Timeline
<1>3. WithinParent(<< [s EXCEPT !.how = "kept"] >>, s)
  <2> DEFINE kept == [s EXCEPT !.how = "kept"]
  <2>1. kept \in Segment /\ kept.from = s.from /\ kept.to = s.to /\ kept.seed = s.seed
    BY <1>1 DEF Segment, WithRole
  <2> HIDE DEF kept
  <2>2. WithinParent(<<kept>>, s)
    BY <1>1, <2>1 DEF WithinParent, Timeline, InVideo
  <2> QED
    BY <2>2 DEF kept
<1>4. WithinParent(RefinedChildren(answer, s), s)
  BY ChildrenInside
<1> QED
  BY <1>2, <1>3, <1>4 DEF RefineSegment

(* A refined trace is again a timeline, of descendants of the one before.  *)
LEMMA TraceRefined ==
  ASSUME NEW segments, Timeline(segments), OwnSeeds(segments), NEW answers,
         \A i \in DOMAIN segments : answers[i] \in Seq(WithRole(STRING))
  PROVE  /\ Timeline(RefineTraceActions(segments, answers))
         /\ Family(RefineTraceActions(segments, answers), segments)
<1> DEFINE lists == [i \in DOMAIN segments |-> RefineSegment(segments[i], answers[i])]
           after == RefineTraceActions(segments, answers)
<1>1. PICK n \in Nat : DOMAIN segments = 1..n
  BY DEF Timeline
<1>2. \A i \in DOMAIN lists : WithinParent(lists[i], segments[i])
  BY SegmentRefined DEF Timeline, OwnSeeds
<1>3. after = Joined(lists) /\ DOMAIN lists = 1..n
  BY <1>1 DEF RefineTraceActions
<1> HIDE DEF lists, after
<1>4. \A i \in DOMAIN lists : IsFiniteSet(DOMAIN lists[i]) /\ DOMAIN lists[i] \in SUBSET Nat
  <2> SUFFICES ASSUME NEW i \in DOMAIN lists
               PROVE  IsFiniteSet(DOMAIN lists[i]) /\ DOMAIN lists[i] \in SUBSET Nat
    OBVIOUS
  <2>1. PICK k \in Nat : DOMAIN lists[i] = 1..k
    BY <1>2 DEF WithinParent, Timeline
  <2> QED
    BY <2>1, FS_Interval
<1>5. IsFiniteSet(DOMAIN lists) /\ DOMAIN lists \in SUBSET Nat
  BY <1>3, FS_Interval
<1>6. Strung(after, lists)
  BY <1>3, <1>4, <1>5, JoinedStrings
<1>7. ASSUME NEW m \in DOMAIN after
      PROVE  /\ InVideo(after[m])
             /\ \E p \in Range(segments) :
                  p.label = after[m].seed /\ p.from <= after[m].from /\ after[m].to <= p.to
  <2>1. PICK p \in Spots(lists) : after[m] = lists[p[1]][p[2]]
    BY <1>6 DEF Strung
  <2>2. p[1] \in DOMAIN lists /\ p[2] \in DOMAIN lists[p[1]]
    BY SpotIs
  <2>3. segments[p[1]] \in Range(segments)
    BY <1>1, <1>3, <2>2 DEF Range
  <2> QED
    BY <1>2, <2>1, <2>2, <2>3 DEF WithinParent, Timeline
<1>8. \E k \in Nat : DOMAIN after = 1..k
  BY <1>6 DEF Strung
<1>9. Timeline(after)
  BY <1>7, <1>8 DEF Timeline
<1>10. Family(after, segments)
  BY <1>7 DEF Family
<1> QED
  BY <1>9, <1>10 DEF after

-----------------------------------------------------------------------------
(* What passes the audit is in order: each segment starts where those      *)
(* before it have ended.                                                   *)
Clear(segments) ==
  \A i \in DOMAIN segments : ~TimeErrors(segments, i) /\ CompoundReason(segments[i].label) = "none"

(* Without an error in time and without a compound label: a timeline in    *)
(* order, of single actions.                                               *)
LEMMA ClearIsSound ==
  ASSUME NEW segments, Timeline(segments), Clear(segments)
  PROVE  Sound(segments)
<1>1. PICK n \in Nat : DOMAIN segments = 1..n
  BY DEF Timeline
<1>2. \A i \in 1..n : /\ segments[i].from \in Int /\ segments[i].to \in Int
                      /\ 0 <= segments[i].from /\ segments[i].to <= Duration
  BY <1>1 DEF Timeline, InVideo, Segment, WithRole
<1>3. \A i \in 1..n : /\ segments[i].from < segments[i].to
                      /\ i > 1 => segments[i - 1].to <= segments[i].from
  <2> SUFFICES ASSUME NEW i \in 1..n
               PROVE  /\ segments[i].from < segments[i].to
                      /\ i > 1 => segments[i - 1].to <= segments[i].from
    OBVIOUS
  <2>1. ~TimeErrors(segments, i)
    BY <1>1 DEF Clear
  <2>2. /\ ~(segments[i].to <= segments[i].from)
        /\ ~(i > 1 /\ segments[i].from < segments[i - 1].to)
    BY <2>1 DEF TimeErrors
  <2>3. i > 1 => i - 1 \in 1..n
    BY <1>1
  <2> QED
    BY <1>2, <2>2, <2>3
<1>4. ASSUME NEW i \in 1..n, NEW j \in 1..n, i < j
      PROVE  segments[i].to <= segments[j].from
  <2> DEFINE Bad == { k \in (i + 1)..n : ~(segments[i].to <= segments[k].from) }
  <2> SUFFICES ASSUME Bad # {} PROVE FALSE
    BY <1>4
  <2>1. Bad \in SUBSET Nat
    BY <1>1
  <2>2. PICK k \in Bad : \A b \in Bad : k <= b
    BY <2>1, Least, Zenon
  <2>3. k \in (i + 1)..n /\ ~(segments[i].to <= segments[k].from)
    OBVIOUS
  <2>4. segments[k - 1].to <= segments[k].from /\ k - 1 \in i..n /\ k \in 1..n
    BY <1>3, <2>3
  <2>5. k - 1 # i
    BY <2>3, <2>4
  <2>6. k - 1 \in (i + 1)..n
    BY <2>4, <2>5
  <2>7. k - 1 \notin Bad
    BY <2>2, <2>3
  <2>8. segments[i].to <= segments[k - 1].from
    BY <2>6, <2>7
  <2>9. segments[k - 1].from < segments[k - 1].to
    BY <1>3, <2>4, <2>6
  <2>10. segments[i].to \in Int /\ segments[k - 1].from \in Int /\ segments[k - 1].to \in Int /\ segments[k].from \in Int
    <3>1. i \in 1..n /\ k \in 1..n /\ k - 1 \in 1..n
      BY <2>4, <2>6
    <3> QED
      BY <1>2, <3>1
  <2> QED
    BY <2>3, <2>4, <2>8, <2>9, <2>10
<1> QED
  BY <1>1, <1>2, <1>3, <1>4 DEF Sound

(* The steps made of it are its segments, or those of them that are no     *)
(* cleanup.                                                                *)
StepsReady(steps) ==
  /\ ExecutionReady(steps)
  /\ \A i, j \in DOMAIN steps : i < j => steps[i].to <= steps[j].from

(* Steps made of it are ready, with or without the cleanup.                *)
LEMMA StepsFollow ==
  ASSUME NEW segments, Timeline(segments), Clear(segments), NEW includeCleanup
  PROVE  StepsReady(MaterializeSteps(segments, includeCleanup))
<1> DEFINE lists == [i \in DOMAIN segments |->
             IF segments[i].role = "cleanup" /\ ~includeCleanup THEN <<>>
             ELSE IF CompoundReason(segments[i].label) # "none" THEN SplitSegment(segments[i])
             ELSE << Step(segments[i], segments[i].from, segments[i].to, "model") >>]
           steps == MaterializeSteps(segments, includeCleanup)
<1>1. PICK n \in Nat : DOMAIN segments = 1..n
  BY DEF Timeline
<1>2. steps = Joined(lists) /\ DOMAIN lists = 1..n
  BY <1>1 DEF MaterializeSteps
<1>3. \A i \in 1..n : \/ lists[i] = <<>>
                      \/ lists[i] = << Step(segments[i], segments[i].from, segments[i].to, "model") >>
  BY <1>1 DEF Clear
<1> HIDE DEF lists, steps
<1>4. \A i \in 1..n : /\ DOMAIN lists[i] \subseteq {1}
                      /\ 1 \in DOMAIN lists[i] => /\ lists[i][1].from = segments[i].from
                                                  /\ lists[i][1].to = segments[i].to
                                                  /\ lists[i][1].source = "model"
  <2> SUFFICES ASSUME NEW i \in 1..n
               PROVE  /\ DOMAIN lists[i] \subseteq {1}
                      /\ 1 \in DOMAIN lists[i] => /\ lists[i][1].from = segments[i].from
                                                  /\ lists[i][1].to = segments[i].to
                                                  /\ lists[i][1].source = "model"
    OBVIOUS
  <2>1. CASE lists[i] = <<>>
    BY <2>1
  <2>2. CASE lists[i] = << Step(segments[i], segments[i].from, segments[i].to, "model") >>
    BY <2>2 DEF Step
  <2> QED
    BY <1>3, <2>1, <2>2
<1>5. \A i \in DOMAIN lists : IsFiniteSet(DOMAIN lists[i]) /\ DOMAIN lists[i] \in SUBSET Nat
  <2> SUFFICES ASSUME NEW i \in 1..n
               PROVE  IsFiniteSet(DOMAIN lists[i]) /\ DOMAIN lists[i] \in SUBSET Nat
    BY <1>2
  <2>1. DOMAIN lists[i] \in SUBSET {1}
    BY <1>4
  <2>2. IsFiniteSet({1})
    BY FS_Singleton
  <2> QED
    BY <2>1, <2>2, FS_Subset
<1>6. IsFiniteSet(DOMAIN lists) /\ DOMAIN lists \in SUBSET Nat
  BY <1>2, FS_Interval
<1>7. Strung(steps, lists)
  BY <1>2, <1>5, <1>6, JoinedStrings
<1>8. \A p \in Spots(lists) : /\ p[1] \in 1..n /\ p[2] = 1
                              /\ lists[p[1]][p[2]].from = segments[p[1]].from
                              /\ lists[p[1]][p[2]].to = segments[p[1]].to
                              /\ lists[p[1]][p[2]].source = "model"
  <2> SUFFICES ASSUME NEW p \in Spots(lists)
               PROVE  /\ p[1] \in 1..n /\ p[2] = 1
                      /\ lists[p[1]][p[2]].from = segments[p[1]].from
                      /\ lists[p[1]][p[2]].to = segments[p[1]].to
                      /\ lists[p[1]][p[2]].source = "model"
    OBVIOUS
  <2>1. p[1] \in DOMAIN lists /\ p[2] \in DOMAIN lists[p[1]]
    BY SpotIs
  <2>2. p[1] \in 1..n
    BY <1>2, <2>1
  <2>3. p[2] = 1
    BY <1>4, <2>1, <2>2
  <2> QED
    BY <1>4, <2>1, <2>2, <2>3
<1>9. ExecutionReady(steps)
  BY <1>7, <1>8 DEF ExecutionReady, Strung
<1>10. ASSUME NEW i \in DOMAIN steps, NEW j \in DOMAIN steps, i < j
       PROVE  steps[i].to <= steps[j].from
  <2>1. PICK p \in Spots(lists) : \E q \in Spots(lists) :
          EarlierSpot(p, q) /\ steps[i] = lists[p[1]][p[2]] /\ steps[j] = lists[q[1]][q[2]]
    BY <1>7, <1>10 DEF Strung
  <2>2. PICK q \in Spots(lists) :
          EarlierSpot(p, q) /\ steps[i] = lists[p[1]][p[2]] /\ steps[j] = lists[q[1]][q[2]]
    BY <2>1
  <2>3. /\ p[1] \in 1..n /\ q[1] \in 1..n /\ p[2] = 1 /\ q[2] = 1
        /\ steps[i].to = segments[p[1]].to /\ steps[j].from = segments[q[1]].from
    BY <1>8, <2>2
  <2>4. p[1] < q[1]
    BY <2>2, <2>3 DEF EarlierSpot
  <2>5. segments[p[1]].to <= segments[q[1]].from
    BY <1>1, <2>3, <2>4, ClearIsSound DEF Sound
  <2> QED
    BY <2>3, <2>5
<1> QED
  BY <1>9, <1>10 DEF StepsReady, steps

-----------------------------------------------------------------------------
(* SegmentationRun: what the files hold whenever commands follow each      *)
(* other, and what passes.                                                 *)

TraceKept(t) ==
  Timeline(t.segments) /\ Family(t.segments, t.of) /\ (~t.there => t.segments = <<>>)
Audited(report) ==
  /\ \A v \in VideoSet : TraceKept(report.traces[v])
  /\ report.status = "pass" =>
       \A v \in VideoSet : report.traces[v].there => Clear(report.traces[v].segments)
Made(a) == a.there => \E flag : a.steps = MaterializeSteps(a.of, flag)

Filed ==
  /\ DOMAIN traces = Dirs /\ \A d \in Dirs : DOMAIN traces[d] = VideoSet
  /\ \A d \in Dirs, v \in VideoSet : TraceKept(traces[d][v])
  /\ \A v \in VideoSet : OwnSeeds(traces["run"][v].segments)
Reported == DOMAIN reports = Dirs /\ \A d \in Dirs : Audited(reports[d])
Stepped ==
  /\ DOMAIN actions = Dirs /\ \A d \in Dirs : DOMAIN actions[d] = VideoSet
  /\ \A d \in Dirs, v \in VideoSet : Made(actions[d][v])
Commanded ==
  /\ DOMAIN command = {"name", "dir", "todo", "flag"}
  /\ command.dir \in Dirs /\ command.todo \in Seq(VideoSet)

RunInv == Filed /\ Reported /\ Stepped /\ Commanded

(* A video without a trace, a directory without a report.                  *)
LEMMA NothingKept == TraceKept(NoTrace) /\ OwnSeeds(NoTrace.segments) /\ ~NoTrace.there
<1>1. Timeline(<<>>)
  <2>1. DOMAIN << >> = 1..0
    OBVIOUS
  <2> QED
    BY <2>1 DEF Timeline
<1>2. Family(<<>>, <<>>) /\ OwnSeeds(<<>>)
  BY DEF Family, OwnSeeds
<1> QED
  BY <1>1, <1>2 DEF TraceKept, NoTrace

LEMMA NothingReported == Audited(NoReport)
  BY NothingKept DEF Audited, NoReport

(* A command that ends, and one that goes on to its next video.            *)
LEMMA IdleCommanded ==
  ASSUME command' = Idle
  PROVE  Commanded'
<1>1. Idle.todo \in Seq(VideoSet)
  <2> DEFINE videos == VideoSet
  <2> HIDE DEF videos
  <2>1. <<>> \in Seq(videos)
    OBVIOUS
  <2> QED
    BY <2>1 DEF videos, Idle
<1> QED
  BY <1>1 DEF Commanded, Idle, Dirs

LEMMA NextCommanded ==
  ASSUME Commanded, command.todo # <<>>, command' = Next1
  PROVE  Commanded'
<1>1. Tail(command.todo) \in Seq(VideoSet)
  BY DEF Commanded
<1> QED
  BY <1>1 DEF Commanded, Next1

LEMMA RunInit ==
  ASSUME Init
  PROVE  RunInv
<1>1. Filed /\ Reported /\ Stepped
  BY NothingKept, NothingReported DEF Init, Filed, Reported, Stepped, Made, NoActions, Dirs
<1>2. Idle.todo \in Seq(VideoSet)
  <2> DEFINE videos == VideoSet
  <2> HIDE DEF videos
  <2>1. <<>> \in Seq(videos)
    OBVIOUS
  <2> QED
    BY <2>1 DEF videos, Idle
<1>3. Commanded
  BY <1>2 DEF Init, Commanded, Idle, Dirs
<1> QED
  BY <1>1, <1>3 DEF RunInv

(* The videos listed in a directory are those that have a trace there.     *)
LEMMA ListedAre ==
  ASSUME NEW dir \in Dirs
  PROVE  /\ Listed(dir) \in Seq(VideoSet)
         /\ \A v \in VideoSet : traces[dir][v].there => v \in Range(Listed(dir))
<1> DEFINE places == { i \in DOMAIN Videos : traces[dir][Videos[i]].there }
           list == Listed(dir)
<1>1. Videos \in Seq(VideoSet) /\ \A v \in VideoSet : \E i \in DOMAIN Videos : Videos[i] = v
  BY Manifest
<1>2. DOMAIN Videos \in SUBSET Nat /\ IsFiniteSet(DOMAIN Videos) /\ \A i \in DOMAIN Videos : Videos[i] \in VideoSet
  BY <1>1, ListPlaces
<1>3. places \in SUBSET Nat /\ IsFiniteSet(places)
  BY <1>2, SomePlaces
<1>4. list = Chosen(Videos, places)
  BY DEF Listed
<1>5. \A v \in VideoSet : traces[dir][v].there => \E i \in places : Videos[i] = v
  BY <1>1
<1>6. \A i \in places : Videos[i] \in VideoSet
  BY <1>2
<1> HIDE DEF places, list
<1>7. Picked(list, Videos, places)
  BY <1>3, <1>4, ChosenPicks
<1>8. DOMAIN list = 1..Cardinality(places) /\ Cardinality(places) \in Nat
  BY <1>3, <1>7, PickedLength
<1>9. \A n \in DOMAIN list : list[n] \in VideoSet
  BY <1>6, <1>7, <1>8 DEF Picked
<1>10. list \in Seq(VideoSet)
  <2> DEFINE N == Cardinality(places)
             videos == VideoSet
  <2>1. list = [n \in 1..N |-> list[n]] /\ N \in Nat /\ \A n \in 1..N : list[n] \in videos
    BY <1>7, <1>8, <1>9 DEF Picked
  <2> HIDE DEF N, videos
  <2>2. list \in [1..N -> videos]
    BY <2>1
  <2>3. list \in Seq(videos)
    BY <2>1, <2>2
  <2> QED
    BY <2>3 DEF videos
<1>11. ASSUME NEW v \in VideoSet, traces[dir][v].there
       PROVE  v \in Range(list)
  <2>1. PICK i \in places : Videos[i] = v
    BY <1>5, <1>11
  <2>2. PICK n \in DOMAIN list : list[n] = Videos[i]
    BY <1>7, <1>8 DEF Picked
  <2> QED
    BY <2>1, <2>2 DEF Range
<1> QED
  BY <1>10, <1>11 DEF list

(* A report is about the traces it was made from.                          *)
LEMMA ReportAudited ==
  ASSUME Filed, NEW dir \in Dirs, NEW by
  PROVE  Audited(Report(dir, by))
<1> DEFINE report == Report(dir, by)
<1>1. report.traces = traces[dir] /\ report.status = Status(dir)
  BY DEF Report
<1>2. \A v \in VideoSet : TraceKept(report.traces[v])
  BY <1>1 DEF Filed
<1>3. ASSUME report.status = "pass", NEW v \in VideoSet, report.traces[v].there
      PROVE  Clear(report.traces[v].segments)
  <2>1. v \in Range(Listed(dir))
    BY <1>1, <1>3, ListedAre
  <2>2. ~Failed(dir) /\ ~(\E w \in Range(Listed(dir)) : NeedsRefinement(traces[dir][w].segments))
    BY <1>1, <1>3 DEF Status
  <2>3. ~HasErrors(traces[dir][v], Present(v)) /\ ~NeedsRefinement(traces[dir][v].segments)
    BY <2>1, <2>2 DEF Failed, FailedTraces
  <2> QED
    BY <1>1, <2>3 DEF HasErrors, NeedsRefinement, Clear
<1> QED
  BY <1>2, <1>3 DEF Audited

LEMMA ReportFiled ==
  ASSUME Filed, Reported, NEW dir \in Dirs, NEW by, reports' = [reports EXCEPT ![dir] = Report(dir, by)]
  PROVE  Reported'
<1>1. DOMAIN reports' = Dirs /\ \A d \in Dirs : Audited(reports'[d])
  BY ReportAudited DEF Reported
<1>2. \A d \in Dirs : Audited(reports'[d]) <=> Audited(reports[d])'
  BY DEF Audited, TraceKept
<1> QED
  BY <1>1, <1>2 DEF Reported

(* A trace that is written in its place leaves the files in order.         *)
LEMMA TraceSaved ==
  ASSUME Filed, NEW dir \in Dirs, NEW v \in VideoSet, NEW t,
         traces' = [traces EXCEPT ![dir][v] = t], TraceKept(t), dir = "run" => OwnSeeds(t.segments)
  PROVE  Filed'
<1>1. DOMAIN traces' = Dirs /\ \A d \in Dirs : DOMAIN traces'[d] = VideoSet
  BY DEF Filed
<1>2. \A d \in Dirs, w \in VideoSet : traces'[d][w] = IF d = dir /\ w = v THEN t ELSE traces[d][w]
  BY DEF Filed
<1>3. "run" \in Dirs
  BY DEF Dirs
<1>4. \A d \in Dirs, w \in VideoSet : TraceKept(traces'[d][w])
  BY <1>2 DEF Filed
<1>5. \A w \in VideoSet : OwnSeeds(traces'["run"][w].segments)
  BY <1>2, <1>3 DEF Filed
<1> QED
  BY <1>1, <1>4, <1>5 DEF Filed, TraceKept

(* What is not written stays in order.                                     *)
LEMMA SameFiles ==
  ASSUME RunInv
  PROVE  /\ UNCHANGED traces => Filed'
         /\ UNCHANGED reports => Reported'
         /\ UNCHANGED actions => Stepped'
  BY DEF RunInv, Filed, Reported, Stepped, Made, TraceKept, Audited

(* The first answer about a video, normalised.                             *)
LEMMA FreshKept ==
  ASSUME NEW answer \in Fresh
  PROVE  LET segments == NormalizeSegmentation(answer) IN
         Timeline(segments) /\ Family(segments, segments) /\ OwnSeeds(segments)
<1> DEFINE segments == NormalizeSegmentation(answer)
<1>1. answer \in Seq(WithRole(STRING)) /\ \A s \in Range(answer) : s.seed = s.label
  BY DEF Fresh
<1>2. Timeline(segments) /\ \A i \in DOMAIN segments : From(segments[i], answer)
  BY <1>1, NormalizedAre
<1> HIDE DEF segments
<1>3. OwnSeeds(segments)
  <2> SUFFICES ASSUME NEW i \in DOMAIN segments PROVE segments[i].seed = segments[i].label
    BY DEF OwnSeeds
  <2>1. PICK j \in DOMAIN answer : segments[i].label = answer[j].label /\ segments[i].seed = answer[j].seed
    BY <1>2 DEF From
  <2>2. answer[j] \in Range(answer)
    BY DEF Range
  <2> QED
    BY <1>1, <2>1, <2>2
<1>4. Family(segments, segments)
  BY <1>2, <1>3, OwnFamily
<1> QED
  BY <1>2, <1>3, <1>4 DEF segments

(* The commands, one step each.                                            *)
LEMMA SegmentKeeps ==
  ASSUME RunInv, SegmentVideo
  PROVE  RunInv'
<1>1. command.todo # <<>> /\ UNCHANGED <<reports, actions>>
  BY DEF SegmentVideo, Doing
<1>2. PICK v \in VideoSet : v = Head(command.todo)
  BY <1>1 DEF RunInv, Commanded
<1>3. PICK answer \in Answers(v) :
          IF answer = Garbage
          THEN /\ errors' = errors \cup {v}
               /\ command' = IF command.flag THEN Next1 ELSE Idle
               /\ UNCHANGED traces
          ELSE /\ LET segments == NormalizeSegmentation(answer)
                  IN traces' = [traces EXCEPT !["run"][v] =
                       [there |-> TRUE, segments |-> segments, of |-> segments,
                        warned |-> \E s \in Range(segments) : RolesInverted(s)]]
               /\ command' = Next1
               /\ UNCHANGED errors
  BY <1>2 DEF SegmentVideo
<1>4. command' = Idle \/ command' = Next1
  BY <1>3
<1>5. Commanded'
  BY <1>1, <1>4, IdleCommanded, NextCommanded DEF RunInv
<1>6. Filed'
  <2>1. CASE answer = Garbage
    BY <1>3, <2>1, SameFiles
  <2>2. CASE answer # Garbage
    <3> DEFINE segments == NormalizeSegmentation(answer)
               t == [there |-> TRUE, segments |-> segments, of |-> segments,
                     warned |-> \E s \in Range(segments) : RolesInverted(s)]
    <3>1. answer \in Fresh
      BY <2>2, AnswersAssumption DEF AnswersAssumption, VideoSet
    <3>2. Timeline(segments) /\ Family(segments, segments) /\ OwnSeeds(segments)
      BY <3>1, FreshKept
    <3>3. traces' = [traces EXCEPT !["run"][v] = t]
      BY <1>3, <2>2
    <3>4. t.segments = segments /\ t.of = segments /\ t.there
      OBVIOUS
    <3> HIDE DEF t, segments
    <3>5. TraceKept(t) /\ OwnSeeds(t.segments)
      BY <3>2, <3>4 DEF TraceKept
    <3>6. "run" \in Dirs
      BY DEF Dirs
    <3> QED
      BY <3>3, <3>5, <3>6, TraceSaved DEF RunInv
  <2> QED
    BY <2>1, <2>2
<1> QED
  BY <1>1, <1>5, <1>6, SameFiles DEF RunInv

LEMMA RefineKeeps ==
  ASSUME RunInv, RefineVideo
  PROVE  RunInv'
<1> DEFINE segments == traces["run"][Head(command.todo)].segments
           asked == { i \in DOMAIN segments : RefinementReason(segments[i]) }
<1>1. command.todo # <<>> /\ UNCHANGED <<reports, actions>>
  BY DEF RefineVideo, Doing
<1>2. PICK v \in VideoSet : v = Head(command.todo)
  BY <1>1 DEF RunInv, Commanded
<1>3. PICK given \in [asked -> Refinements] :
       IF \E i \in asked : given[i] = Garbage
       THEN command' = Idle /\ UNCHANGED traces
       ELSE /\ LET answers == [i \in DOMAIN segments |-> IF i \in asked THEN given[i] ELSE <<>>]
               IN traces' = [traces EXCEPT !["refined"][v] =
                    [there |-> TRUE, segments |-> RefineTraceActions(segments, answers), of |-> segments,
                     warned |-> traces["run"][v].warned]]
            /\ command' = Next1
  BY <1>2 DEF RefineVideo
<1>4. Commanded'
  BY <1>1, <1>3, IdleCommanded, NextCommanded DEF RunInv
<1>5. Timeline(segments) /\ OwnSeeds(segments)
  BY <1>2 DEF RunInv, Filed, TraceKept, Dirs
<1>6. Filed'
  <2>1. CASE \E i \in asked : given[i] = Garbage
    BY <1>3, <2>1, SameFiles
  <2>2. CASE ~\E i \in asked : given[i] = Garbage
    <3> DEFINE answers == [i \in DOMAIN segments |-> IF i \in asked THEN given[i] ELSE <<>>]
               after == RefineTraceActions(segments, answers)
               t == [there |-> TRUE, segments |-> after, of |-> segments, warned |-> traces["run"][v].warned]
    <3>1. traces' = [traces EXCEPT !["refined"][v] = t]
      BY <1>3, <2>2
    <3>2. \A i \in DOMAIN segments : answers[i] \in Seq(WithRole(STRING))
      <4> SUFFICES ASSUME NEW i \in DOMAIN segments PROVE answers[i] \in Seq(WithRole(STRING))
        OBVIOUS
      <4>1. CASE i \in asked
        <5>1. answers[i] = given[i] /\ given[i] \in Refinements /\ given[i] # Garbage
          BY <2>2, <4>1
        <5>2. given[i] \in Fresh
          BY <5>1, AnswersAssumption DEF AnswersAssumption
        <5> QED
          BY <5>1, <5>2 DEF Fresh
      <4>2. CASE i \notin asked
        <5> DEFINE Read == WithRole(STRING)
        <5>1. answers[i] = <<>>
          BY <4>2
        <5> HIDE DEF Read, answers
        <5>2. answers[i] \in Seq(Read)
          BY <5>1
        <5> QED
          BY <5>2 DEF Read
      <4> QED
        BY <4>1, <4>2
    <3> HIDE DEF answers
    <3>3. Timeline(after) /\ Family(after, segments)
      BY <1>5, <3>2, TraceRefined
    <3>4. t.segments = after /\ t.of = segments /\ t.there
      OBVIOUS
    <3> HIDE DEF t, after, segments, asked
    <3>5. TraceKept(t)
      BY <3>3, <3>4 DEF TraceKept
    <3>6. "refined" \in Dirs /\ "refined" # "run"
      BY DEF Dirs
    <3> QED
      BY <3>1, <3>5, <3>6, TraceSaved DEF RunInv
  <2> QED
    BY <2>1, <2>2
<1> QED
  BY <1>1, <1>4, <1>6, SameFiles DEF RunInv

LEMMA EndsKeep ==
  ASSUME RunInv, EndSegment \/ EndRefine
  PROVE  RunInv'
<1>1. CASE EndSegment
  <2>1. command' = Idle /\ UNCHANGED <<traces, actions>> /\ reports' = [reports EXCEPT !["run"] = Report("run", "segment")]
    BY <1>1 DEF EndSegment
  <2>2. "run" \in Dirs
    BY DEF Dirs
  <2>3. Reported'
    BY <2>1, <2>2, ReportFiled DEF RunInv
  <2> QED
    BY <2>1, <2>3, IdleCommanded, SameFiles DEF RunInv
<1>2. CASE EndRefine
  <2>1. /\ UNCHANGED <<traces, actions>> /\ reports' = [reports EXCEPT !["refined"] = Report("refined", "refine")]
        /\ \/ command' = [name |-> "materialize", dir |-> "refined", todo |-> Listed("refined"), flag |-> TRUE]
           \/ command' = Idle
    BY <1>2 DEF EndRefine
  <2>2. "refined" \in Dirs
    BY DEF Dirs
  <2>3. Reported'
    BY <2>1, <2>2, ReportFiled DEF RunInv
  <2>4. Commanded'
    BY <2>1, <2>2, ListedAre, IdleCommanded DEF Commanded
  <2> QED
    BY <2>1, <2>3, <2>4, SameFiles DEF RunInv
<1> QED
  BY <1>1, <1>2

LEMMA StartsKeep ==
  ASSUME RunInv, NEW flag, NEW dir \in Dirs,
         StartSegment(flag) \/ StartRefine(flag) \/ StartMaterialize(dir, flag)
  PROVE  RunInv'
<1>1. UNCHANGED <<traces, reports, actions>>
  BY DEF StartSegment, StartRefine, StartMaterialize
<1>2. PICK name, in, todo : /\ in \in Dirs /\ todo \in Seq(VideoSet)
                            /\ command' = [name |-> name, dir |-> in, todo |-> todo, flag |-> flag]
  <2>1. {"run", "refined"} \subseteq Dirs
    BY DEF Dirs
  <2>2. \A d \in Dirs : Listed(d) \in Seq(VideoSet)
    BY ListedAre
  <2>3. Videos \in Seq(VideoSet)
    BY Manifest
  <2> HIDE DEF VideoSet
  <2>4. CASE StartSegment(flag)
    BY <2>1, <2>3, <2>4 DEF StartSegment, Give
  <2>5. CASE StartRefine(flag)
    BY <2>1, <2>2, <2>5 DEF StartRefine, Give
  <2>6. CASE StartMaterialize(dir, flag)
    BY <2>2, <2>6 DEF StartMaterialize, Give
  <2> QED
    BY <2>4, <2>5, <2>6
<1>3. Commanded'
  BY <1>2 DEF Commanded
<1> QED
  BY <1>1, <1>3, SameFiles DEF RunInv

LEMMA MaterializeKeeps ==
  ASSUME RunInv, MaterializeVideo
  PROVE  RunInv'
<1>1. command.todo # <<>> /\ UNCHANGED <<traces, reports>> /\ command' = Next1
  BY DEF MaterializeVideo, Doing
<1>2. PICK v \in VideoSet : v = Head(command.todo)
  BY <1>1 DEF RunInv, Commanded
<1>3. PICK d \in Dirs : d = command.dir
  BY DEF RunInv, Commanded
<1> DEFINE segments == traces[d][v].segments
           a == [there |-> TRUE, steps |-> MaterializeSteps(segments, command.flag), of |-> segments]
<1>4. actions' = [actions EXCEPT ![d][v] = a]
  BY <1>2, <1>3 DEF MaterializeVideo
<1>5. Made(a)
  BY DEF Made
<1> HIDE DEF a
<1>6. DOMAIN actions' = Dirs /\ \A e \in Dirs : DOMAIN actions'[e] = VideoSet
  BY <1>4 DEF RunInv, Stepped
<1>7. \A e \in Dirs, w \in VideoSet : actions'[e][w] = IF e = d /\ w = v THEN a ELSE actions[e][w]
  BY <1>4 DEF RunInv, Stepped
<1>8. Stepped'
  BY <1>5, <1>6, <1>7 DEF RunInv, Stepped, Made
<1> QED
  BY <1>1, <1>8, SameFiles, NextCommanded DEF RunInv

LEMMA AuditKeeps ==
  ASSUME RunInv, NEW dir \in Dirs, NEW archiveFailed, AuditRun(dir, archiveFailed)
  PROVE  RunInv'
<1>1. command' = command
  BY DEF AuditRun
<1>2. CASE archiveFailed /\ Failed(dir)
  <2> DEFINE all == IF dir = "run" /\ inside THEN Dirs ELSE {dir}
  <2>1. /\ traces' = [d \in Dirs |-> IF d \in all THEN [v \in VideoSet |-> NoTrace] ELSE traces[d]]
        /\ reports' = [d \in Dirs |-> IF d \in all THEN NoReport ELSE reports[d]]
        /\ actions' = [d \in Dirs |-> IF d \in all THEN [v \in VideoSet |-> NoActions] ELSE actions[d]]
    BY <1>2 DEF AuditRun
  <2> HIDE DEF all
  <2>2. DOMAIN traces' = Dirs /\ \A d \in Dirs : DOMAIN traces'[d] = VideoSet
    BY <2>1 DEF RunInv, Filed
  <2>3. \A d \in Dirs, v \in VideoSet : traces'[d][v] \in {NoTrace, traces[d][v]}
    BY <2>1
  <2>4. \A d \in Dirs, v \in VideoSet : TraceKept(traces'[d][v])
    BY <2>3, NothingKept DEF RunInv, Filed
  <2>5. \A v \in VideoSet : OwnSeeds(traces'["run"][v].segments)
    BY <2>3, NothingKept DEF RunInv, Filed, Dirs
  <2>6. Filed'
    BY <2>2, <2>4, <2>5 DEF Filed, TraceKept
  <2>7. DOMAIN reports' = Dirs /\ \A d \in Dirs : Audited(reports'[d])
    BY <2>1, NothingReported DEF RunInv, Reported
  <2>8. Reported'
    BY <2>7 DEF Reported, Audited, TraceKept
  <2>9. DOMAIN actions' = Dirs /\ \A d \in Dirs : DOMAIN actions'[d] = VideoSet
    BY <2>1 DEF RunInv, Stepped
  <2>10. \A d \in Dirs, v \in VideoSet : actions'[d][v] \in {NoActions, actions[d][v]}
    BY <2>1
  <2>11. ~NoActions.there
    BY DEF NoActions
  <2>12. Stepped'
    BY <2>9, <2>10, <2>11 DEF RunInv, Stepped, Made
  <2> QED
    BY <1>1, <2>6, <2>8, <2>12 DEF RunInv, Commanded
<1>3. CASE ~(archiveFailed /\ Failed(dir))
  <2>1. /\ UNCHANGED <<traces, actions>>
        /\ reports' = [reports EXCEPT ![dir] = Report(dir, "audit")]
    BY <1>3 DEF AuditRun
  <2>2. Reported'
    BY <2>1, ReportFiled DEF RunInv
  <2> QED
    BY <1>1, <2>1, <2>2, SameFiles DEF RunInv, Commanded
<1> QED
  BY <1>2, <1>3

(* No step of any command, and no interruption, disturbs the files.        *)
LEMMA RunStep == RunInv /\ [Next]_vars => RunInv'
<1> SUFFICES ASSUME RunInv, [Next]_vars PROVE RunInv'
  OBVIOUS
<1>1. CASE EndMaterialize \/ Interrupt
  <2>1. UNCHANGED <<traces, reports, actions>> /\ command' = Idle
    BY <1>1 DEF EndMaterialize, Interrupt
  <2> QED
    BY <2>1, SameFiles, IdleCommanded DEF RunInv
<1>2. CASE UNCHANGED vars
  <2>1. UNCHANGED <<traces, reports, actions, command>>
    BY <1>2 DEF vars
  <2> QED
    BY <2>1, SameFiles DEF RunInv, Commanded
<1>3. "run" \in Dirs
  BY DEF Dirs
<1> QED
  BY <1>1, <1>2, <1>3, StartsKeep, SegmentKeeps, RefineKeeps, MaterializeKeeps, EndsKeep, AuditKeeps DEF Next

LEMMA RunAlways == Spec => []RunInv
  BY RunInit, RunStep, PTL DEF Spec

(* Whatever the model answers: a trace that passes the audit can be read   *)
(* as a timeline.                                                          *)
THEOREM ReadyIsSound == Spec => []ReadyTracesAreSound
<1>1. RunInv => ReadyTracesAreSound
  BY ClearIsSound DEF RunInv, Reported, Audited, TraceKept, ReadyTracesAreSound
<1> QED
  BY <1>1, RunAlways, PTL

(* Every segment of a refined trace that passes lies in one it was split   *)
(* from.                                                                   *)
THEOREM SplitsStayInside == Spec => []SplitsInsideTheParent
<1>1. RunInv => SplitsInsideTheParent
  <2> SUFFICES ASSUME RunInv, reports["refined"].status = "pass", NEW v \in VideoSet,
                      NEW i \in DOMAIN reports["refined"].traces[v].segments
               PROVE  LET t == reports["refined"].traces[v] IN
                      \E p \in Range(t.of) :
                        /\ p.label = t.segments[i].seed
                        /\ p.from <= t.segments[i].from /\ t.segments[i].from < t.segments[i].to
                        /\ t.segments[i].to <= p.to
    BY DEF SplitsInsideTheParent
  <2> DEFINE t == reports["refined"].traces[v]
  <2>1. TraceKept(t) /\ (t.there => Clear(t.segments))
    BY DEF RunInv, Reported, Audited, Dirs
  <2>2. i \in DOMAIN t.segments
    OBVIOUS
  <2> HIDE DEF t
  <2>3. t.there
    BY <2>1, <2>2 DEF TraceKept
  <2>4. Sound(t.segments)
    BY <2>1, <2>3, ClearIsSound DEF TraceKept
  <2>5. t.segments[i].from < t.segments[i].to
    BY <2>2, <2>4 DEF Sound
  <2>6. \E p \in Range(t.of) :
          p.label = t.segments[i].seed /\ p.from <= t.segments[i].from /\ t.segments[i].to <= p.to
    BY <2>1, <2>2 DEF TraceKept, Family
  <2> QED
    BY <2>5, <2>6 DEF t
<1> QED
  BY <1>1, RunAlways, PTL

(* The materialiser finds nothing left to split in what the audit passed.  *)
THEOREM VerdictsAreOne == Spec => []VerdictsAgree
<1>1. RunInv => VerdictsAgree
  <2> SUFFICES ASSUME RunInv, NEW d \in Dirs, NEW v \in VideoSet,
                      actions[d][v].there, reports[d].status = "pass",
                      actions[d][v].of = reports[d].traces[v].segments, reports[d].traces[v].there
               PROVE  StepsReady(actions[d][v].steps)
    BY DEF VerdictsAgree, StepsReady
  <2>1. PICK flag : actions[d][v].steps = MaterializeSteps(actions[d][v].of, flag)
    BY DEF RunInv, Stepped, Made
  <2>2. Timeline(actions[d][v].of) /\ Clear(actions[d][v].of)
    BY DEF RunInv, Reported, Audited, TraceKept
  <2> QED
    BY <2>1, <2>2, StepsFollow
<1> QED
  BY <1>1, RunAlways, PTL

-----------------------------------------------------------------------------
(* DemonstrationEvidence: the summaries of an export quote the tracks they *)
(* were made from.                                                         *)

(* A frame without a centre lies in an interval of occlusion.              *)
LEMMA Occluded ==
  ASSUME NEW centres \in Seq(Int), NEW f \in DOMAIN centres, centres[f] = Hidden
  PROVE  \E interval \in OcclusionIntervals(centres) : f \in interval[1]..interval[2]
<1> DEFINE Before == { k \in 1..f : \A g \in k..f : centres[g] = Hidden }
           After  == { k \in f..Len(centres) : \A g \in f..k : centres[g] = Hidden }
<1>0. f \in 1..Len(centres) /\ DOMAIN centres = 1..Len(centres) /\ Len(centres) \in Nat
  OBVIOUS
<1>1. f \in Before /\ f \in After
  BY <1>0
<1>9. Before \in SUBSET Nat /\ After \in SUBSET (0..Len(centres)) /\ Before # {} /\ After # {}
  <2>1. Before \subseteq 1..f /\ After \subseteq f..Len(centres)
    OBVIOUS
  <2> HIDE DEF Before, After
  <2> QED
    BY <2>1, <1>0, <1>1
<1>2. PICK from \in Before : \A k \in Before : from <= k
  <2> HIDE DEF Before
  <2> QED
    BY <1>9, Least, Zenon
<1>3. PICK to \in After : \A k \in After : k <= to
  <2> HIDE DEF After
  <2> QED
    BY <1>9, <1>0, Greatest, Zenon
<1>4. from \in 1..f /\ to \in f..Len(centres)
  OBVIOUS
<1>5. \A g \in from..to : centres[g] = Hidden
  BY <1>0, <1>4
<1>6. ASSUME from - 1 \in DOMAIN centres
      PROVE  centres[from - 1] # Hidden
  <2> SUFFICES ASSUME centres[from - 1] = Hidden PROVE FALSE
    OBVIOUS
  <2>1. \A g \in (from - 1)..f : g = from - 1 \/ g \in from..f
    BY <1>0, <1>4
  <2>2. from - 1 \in Before
    BY <1>0, <1>4, <1>5, <1>6, <2>1
  <2> QED
    BY <2>2, <1>2, <1>4, <1>0
<1>7. ASSUME to + 1 \in DOMAIN centres
      PROVE  centres[to + 1] # Hidden
  <2> SUFFICES ASSUME centres[to + 1] = Hidden PROVE FALSE
    OBVIOUS
  <2>1. \A g \in f..(to + 1) : g = to + 1 \/ g \in f..to
    BY <1>0, <1>4
  <2>2. to + 1 \in After
    BY <1>0, <1>4, <1>5, <1>7, <2>1
  <2> QED
    BY <2>2, <1>3, <1>4, <1>0
<1>8. <<from, to>> \in OcclusionIntervals(centres)
  <2>1. from \in DOMAIN centres /\ to \in DOMAIN centres /\ from <= to
    BY <1>0, <1>4
  <2> HIDE DEF Before, After
  <2> QED
    BY <2>1, <1>5, <1>6, <1>7 DEF OcclusionIntervals
<1> QED
  BY <1>8, <1>4, <1>0

(* In sight is what lies in none.                                          *)
LEMMA InSight ==
  ASSUME NEW centres \in Seq(Int), NEW f \in DOMAIN centres
  PROVE  centres[f] # Hidden <=> \A interval \in OcclusionIntervals(centres) : f \notin interval[1]..interval[2]
<1>1. ASSUME centres[f] # Hidden, NEW interval \in OcclusionIntervals(centres)
      PROVE  f \notin interval[1]..interval[2]
  BY <1>1 DEF OcclusionIntervals
<1>2. CASE centres[f] = Hidden
  BY <1>2, Occluded, Zenon
<1> QED
  BY <1>1, <1>2

-----------------------------------------------------------------------------
Shaped(tracks) == \A object \in DOMAIN tracks : tracks[object] \in Seq(Int)
Summaries(tracks) == { Summary(object, tracks[object]) : object \in DOMAIN tracks }

(* What a command has in hand keeps its fields.                            *)
Handed == job = [name |-> job.name, keepGoing |-> job.keepGoing, todo |-> job.todo, tries |-> job.tries,
                 observations |-> job.observations, errors |-> job.errors, tracks |-> job.tracks]

(* Between its files an enrichment has in hand what it has written; and    *)
(* where none was given up there, the summaries are those of the archive.  *)
Settled ==
  /\ Handed
  /\ job.name = "enriching" => torn /\ artifact.objects = job.tracks /\ Shaped(job.tracks)
  /\ dense.there /\ ~torn => dense.objects = Summaries(artifact.objects) /\ Shaped(artifact.objects)

(* The tracks that can be read back are sequences of centres.              *)
LEMMA ReadableShape ==
  ASSUME NEW tracks, NEW objects, Readable(tracks, objects)
  PROVE  Shaped(DenseFrames(tracks))
<1> SUFFICES ASSUME NEW object \in DOMAIN tracks
             PROVE  DenseFrames(tracks)[object] \in Seq(Int)
  BY DEF Shaped, DenseFrames
<1> DEFINE S == [at : Nat, seen : 0..Points]
           t == tracks[object]
<1>1. t \in Seq(S)
  BY DEF Readable
<1>2. DenseFrames(tracks)[object] = [f \in DOMAIN t |-> IF Reliable(t[f]) THEN t[f].at ELSE Hidden]
  BY DEF DenseFrames
<1>3. \A f \in DOMAIN t : t[f] \in S
  <2> HIDE DEF S, t
  <2> QED
    BY <1>1
<1>4. \A f \in DOMAIN t : (IF Reliable(t[f]) THEN t[f].at ELSE Hidden) \in Int
  <2> TAKE f \in DOMAIN t
  <2>1. t[f].at \in Int
    BY <1>3
  <2>2. Hidden \in Int
    BY DEF Hidden
  <2> QED
    BY <2>1, <2>2
<1>5. DOMAIN t = 1..Len(t) /\ Len(t) \in Nat
  BY <1>1
<1> QED
  BY <1>2, <1>4, <1>5

LEMMA SettledInit ==
  ASSUME EvidenceInit
  PROVE  Settled
BY DEF EvidenceInit, Settled, Handed, NoJob, NoDense

(* No step, and no interruption, separates the two files but for the one   *)
(* that tears them.                                                        *)
LEMMA SettledStep ==
  ASSUME Settled, [EvidenceNext]_evidenceVars
  PROVE  Settled'
<1> USE DEF Settled
<1>1. ASSUME NEW keepGoing \in BOOLEAN, StartExtract(keepGoing)
      PROVE  Settled'
  BY <1>1 DEF StartExtract, files, Handed, NoJob
<1>2. CASE GroundFrame
  BY <1>2 DEF GroundFrame, files, Handed, NoJob, Working
<1>3. CASE GroundingFails
  BY <1>3 DEF GroundingFails, files, Handed, NoJob, Working
<1>4. CASE WriteEvidence
  BY <1>4 DEF WriteEvidence, files, Handed, NoJob
<1>5. CASE StartEnrich
  BY <1>5 DEF StartEnrich, files, Handed, NoJob
<1>6. ASSUME NEW transient \in BOOLEAN, TrackingFails(transient)
      PROVE  Settled'
  BY <1>6 DEF TrackingFails, files, Handed, NoJob, Working
<1>7. CASE WriteArtifacts
  <2>1. PICK tracks : /\ Readable(tracks, Queried(evidence.observations))
                      /\ artifact' = WrittenArtifact(DenseFrames(tracks))
                      /\ job' = [NoJob EXCEPT !.name = "enriching", !.tracks = DenseFrames(tracks)]
    BY <1>7 DEF WriteArtifacts
  <2>2. Shaped(DenseFrames(tracks))
    BY <2>1, ReadableShape, Zenon
  <2> QED
    BY <1>7, <2>1, <2>2 DEF WriteArtifacts, WrittenArtifact, Handed, NoJob
<1>8. CASE WriteDense
  BY <1>8 DEF WriteDense, Handed, NoJob, Working, Summaries
<1>9. CASE ExportBundle
  BY <1>9 DEF ExportBundle, Handed
<1>10. ASSUME NEW guided \in BOOLEAN, StartStructure(guided)
       PROVE  Settled'
  BY <1>10 DEF StartStructure, files, Handed, NoJob
<1>11. CASE WriteStructure
  BY <1>11 DEF WriteStructure, Handed, NoJob
<1>12. CASE Resegment
  BY <1>12 DEF Resegment, files, Handed
<1>13. CASE GiveUpJob
  BY <1>13 DEF GiveUpJob, files, Handed, NoJob
<1>14. CASE UNCHANGED evidenceVars
  BY <1>14 DEF evidenceVars, files, Handed
<1> QED
  BY <1>1, <1>2, <1>3, <1>4, <1>5, <1>6, <1>7, <1>8, <1>9, <1>10, <1>11, <1>12, <1>13, <1>14
  DEF EvidenceNext

(* From files that are joined a bundle is exported whose quotes agree.     *)
LEMMA ExportAgrees ==
  ASSUME Settled, ExportBundle, ~torn
  PROVE  QuotesAgree'
<1> DEFINE centres == artifact.objects
           objects == { summary.object : summary \in dense.objects }
<1>1. /\ bundle'.objects = dense.objects
      /\ bundle'.quotes = [i \in DOMAIN trace |-> SegmentEvidence(trace[i], objects, centres)]
      /\ dense.there
  BY DEF ExportBundle
<1>2. dense.objects = Summaries(centres) /\ Shaped(centres)
  BY <1>1 DEF Settled
<1> SUFFICES ASSUME NEW i \in DOMAIN trace, NEW quote \in SegmentEvidence(trace[i], objects, centres),
                    NEW summary \in Summaries(centres), quote.object = summary.object
             PROVE  quote.visible = { f \in quote.samples :
                      \A interval \in summary.occlusions : f \notin interval[1]..interval[2] }
  BY <1>1, <1>2 DEF QuotesAgree
<1>3. PICK o \in DOMAIN centres : summary = Summary(o, centres[o])
  BY DEF Summaries
<1>4. summary.object = o /\ summary.occlusions = OcclusionIntervals(centres[o])
  BY <1>3 DEF Summary
<1> DEFINE window == trace[i]
           Samples(p) == DOMAIN centres[p] \cap (window[1]..window[2])
<1>5. PICK p \in objects \cap DOMAIN centres :
        quote = [object |-> p, samples |-> Samples(p), visible |-> { f \in Samples(p) : centres[p][f] # Hidden }]
  BY DEF SegmentEvidence
<1>6. p = o
  BY <1>4, <1>5
<1>7. quote.samples = Samples(o) /\ quote.visible = { f \in Samples(o) : centres[o][f] # Hidden }
  BY <1>5, <1>6
<1>8. centres[o] \in Seq(Int)
  BY <1>2 DEF Shaped
<1>9. \A f \in Samples(o) : centres[o][f] # Hidden <=>
        \A interval \in OcclusionIntervals(centres[o]) : f \notin interval[1]..interval[2]
  BY <1>8, InSight
<1> QED
  BY <1>4, <1>7, <1>9

(* An export from files no enrichment was given up between says of each    *)
(* object, frame by frame, what its occlusion intervals say.               *)
THEOREM QuotesHold == EvidenceSpec => QuotesAgreeUnlessTorn
<1>1. EvidenceSpec => []Settled
  BY SettledInit, SettledStep, PTL DEF EvidenceSpec
<1>2. Settled => [ExportBundle /\ ~torn => QuotesAgree']_evidenceVars
  BY ExportAgrees
<1> QED
  BY <1>1, <1>2, PTL DEF QuotesAgreeUnlessTorn

-----------------------------------------------------------------------------
(* DemonstrationEvidence: a greedy matching takes each side once, and only *)
(* what is near; the links of a dense track are made by it.                *)

(* Pairs are told apart by their ends, and measured.                       *)
Weighed(pairs) ==
  /\ \A p \in pairs : p.a \in Int /\ p.b \in Int /\ p.cover \in Int /\ p.distance \in Int
  /\ \A p, q \in pairs : p.a = q.a /\ p.b = q.b => p = q

(* The pairs of a matching are totally ordered: one is best.               *)
LEMMA OneIsBest ==
  ASSUME NEW pairs, IsFiniteSet(pairs), pairs # {}, Weighed(pairs)
  PROVE  \E p \in pairs : \A q \in pairs : q # p => Better(p, q)
<1> DEFINE before == { r \in pairs \X pairs : Better(r[1], r[2]) }
           N == Cardinality(pairs)
<1>1. \A p, q \in pairs : <<p, q>> \in before <=> Better(p, q)
  OBVIOUS
<1>2. Puts(pairs, before)
  <2>1. \A p \in pairs : ~Better(p, p)
    BY DEF Weighed, Better, Closer
  <2>2. \A p, q \in pairs : p # q => Better(p, q) \/ Better(q, p)
    BY DEF Weighed, Better, Closer
  <2>3. \A p, q, r \in pairs : Better(p, q) /\ Better(q, r) => Better(p, r)
    BY DEF Weighed, Better, Closer
  <2> HIDE DEF before
  <2> QED
    BY <1>1, <2>1, <2>2, <2>3 DEF Puts
<1> HIDE DEF before
<1>3. PICK order : Enumerates(order, pairs, before)
  BY <1>2, InOrderEnumerates, Zenon
<1>4. N \in Nat /\ N # 0
  BY FS_CardinalityType, FS_EmptySet
<1>5. order[1] \in pairs
  BY <1>3, <1>4 DEF Enumerates
<1>6. ASSUME NEW q \in pairs, q # order[1]
      PROVE  Better(order[1], q)
  <2>1. PICK n \in 1..N : order[n] = q
    BY <1>3 DEF Enumerates
  <2>2. 1 \in 1..N /\ 1 < n
    BY <1>4, <1>6, <2>1
  <2>3. <<order[1], order[n]>> \in before
    BY <1>3, <2>2 DEF Enumerates
  <2> QED
    BY <2>1, <2>3, <1>1, <1>5
<1> QED
  BY <1>5, <1>6

(* What the loops over the sorted pairs choose can be chosen: the best     *)
(* pair, and what is chosen so of those that share no end with it.         *)
LEMMA GreedyIsGreedy ==
  ASSUME NEW pairs, IsFiniteSet(pairs), Weighed(pairs)
  PROVE  Greedy(pairs) \in SUBSET pairs /\ Greedily(Greedy(pairs), pairs)
<1> DEFINE Can(P) == \E chosen \in SUBSET P : Greedily(chosen, P)
           Bad == { n \in Nat : \E P \in SUBSET pairs : Cardinality(P) = n /\ ~Can(P) }
<1>1. Bad = {}
  <2> SUFFICES ASSUME Bad # {} PROVE FALSE
    OBVIOUS
  <2>1. Bad \in SUBSET Nat
    OBVIOUS
  <2>2. PICK n \in Bad : \A k \in Bad : n <= k
    <3> HIDE DEF Bad
    <3> QED
      BY <2>1, Least, Zenon
  <2>3. PICK P \in SUBSET pairs : Cardinality(P) = n /\ ~Can(P)
    OBVIOUS
  <2>4. IsFiniteSet(P) /\ Weighed(P)
    <3>1. IsFiniteSet(P)
      BY FS_Subset, Zenon
    <3> QED
      BY <3>1 DEF Weighed
  <2>5. P # {}
    <3> SUFFICES ASSUME P = {} PROVE Can(P)
      BY <2>3
    <3>1. {} \in SUBSET P /\ Greedily({}, P)
      BY DEF Greedily, OneToOne
    <3> QED
      BY <3>1
  <2>6. PICK best \in P : \A q \in P : q # best => Better(best, q)
    BY <2>4, <2>5, OneIsBest, Zenon
  <2> DEFINE Rest == { q \in P : q.a # best.a /\ q.b # best.b }
  <2>7. Rest \in SUBSET P /\ Rest # P /\ Rest \in SUBSET pairs
    OBVIOUS
  <2>8. Cardinality(Rest) \in Nat /\ Cardinality(Rest) < n
    <3>1. /\ IsFiniteSet(Rest) /\ Cardinality(Rest) <= Cardinality(P)
          /\ (Cardinality(P) = Cardinality(Rest) => P = Rest)
      <4> HIDE DEF Rest
      <4> QED
        BY <2>4, <2>7, FS_Subset, Zenon
    <3> HIDE DEF Rest
    <3> QED
      BY <3>1, <2>3, <2>4, <2>7, FS_CardinalityType
  <2>9. Can(Rest)
    <3> SUFFICES ASSUME ~Can(Rest) PROVE FALSE
      OBVIOUS
    <3>1. Cardinality(Rest) \in Bad
      <4> HIDE DEF Rest, Can
      <4> QED
        BY <2>7, <2>8
    <3>2. n <= Cardinality(Rest)
      <4> HIDE DEF Rest, Can, Bad
      <4> QED
        BY <3>1, <2>2
    <3>3. n \in Nat
      BY <2>1
    <3> HIDE DEF Rest, Can, Bad
    <3> QED
      BY <3>2, <3>3, <2>8
  <2>10. PICK chosen \in SUBSET Rest : Greedily(chosen, Rest)
    BY <2>9
  <2> DEFINE all == {best} \cup chosen
  <2>11. all \in SUBSET P
    OBVIOUS
  <2>12. OneToOne(all)
    BY <2>10 DEF Greedily, OneToOne
  <2>13. ASSUME NEW p \in P \ all
         PROVE  \E q \in all : (q.a = p.a \/ q.b = p.b) /\ Better(q, p)
    <3>1. CASE p \in Rest
      BY <3>1, <2>10 DEF Greedily
    <3>2. CASE p \notin Rest
      <4>1. (best.a = p.a \/ best.b = p.b) /\ Better(best, p)
        BY <3>2, <2>6
      <4> QED
        BY <4>1
    <3> QED
      BY <3>1, <3>2
  <2>14. Greedily(all, P)
    <3> HIDE DEF all
    <3> QED
      BY <2>12, <2>13 DEF Greedily
  <2> HIDE DEF all
  <2> QED
    BY <2>3, <2>11, <2>14
<1>2. Can(pairs)
  <2> SUFFICES ASSUME ~Can(pairs) PROVE FALSE
    OBVIOUS
  <2>1. Cardinality(pairs) \in Nat
    BY FS_CardinalityType
  <2>2. Cardinality(pairs) \in Bad
    <3> HIDE DEF Can
    <3> QED
      BY <2>1
  <2> HIDE DEF Bad
  <2> QED
    BY <2>2, <1>1
<1> QED
  BY <1>2 DEF Greedy

(* What SAM3 can have seen in this video.                                  *)
Sightings == UNION { Detected(frame, prompt) : frame \in 1..Frames, prompt \in Range(Prompts) }

(* A sighting is one detection of the scene, named by frame, prompt and    *)
(* place.                                                                  *)
LEMMA SightingIs ==
  ASSUME scene \in Scenes, NEW o \in Sightings
  PROVE  /\ o.frame \in 1..Frames /\ o.prompt \in Range(Prompts)
         /\ o.index \in DOMAIN scene[o.frame][o.prompt]
         /\ o = [frame |-> o.frame, prompt |-> o.prompt, index |-> o.index,
                 at |-> scene[o.frame][o.prompt][o.index].at, mask |-> scene[o.frame][o.prompt][o.index].mask]
<1>1. PICK frame \in 1..Frames, prompt \in Range(Prompts) : o \in Detected(frame, prompt)
  BY DEF Sightings
<1> DEFINE found == scene[frame][prompt]
<1>2. PICK i \in DOMAIN found :
        o = [frame |-> frame, prompt |-> prompt, index |-> i, at |-> found[i].at, mask |-> found[i].mask]
  BY <1>1 DEF Detected
<1> QED
  BY <1>1, <1>2

LEMMA SightingTypes ==
  ASSUME scene \in Scenes, NEW o \in Sightings
  PROVE  o.frame \in Nat /\ o.index \in Nat /\ o.at \in Nat
<1>1. scene[o.frame][o.prompt] \in Seq(Detection)
  BY SightingIs, ScenesAssumption DEF ScenesAssumption
<1>2. o.frame \in Nat /\ o.index \in DOMAIN scene[o.frame][o.prompt]
  BY SightingIs, FilesAssumption DEF FilesAssumption
<1>3. o.index \in Nat
  BY <1>1, <1>2
<1>4. scene[o.frame][o.prompt][o.index] \in Detection
  BY <1>1, <1>2
<1>5. o.at = scene[o.frame][o.prompt][o.index].at
  BY SightingIs
<1> QED
  BY <1>2, <1>3, <1>4, <1>5 DEF Detection

(* Two detections of a frame and prompt differ in their place.             *)
LEMMA SightingsApart ==
  ASSUME scene \in Scenes, NEW o \in Sightings, NEW q \in Sightings,
         o.frame = q.frame, o.prompt = q.prompt, o.index = q.index
  PROVE  o = q
BY SightingIs

-----------------------------------------------------------------------------
(* The objects of a prompt are numbered from left to right.                *)
LEMMA NumbersApart ==
  ASSUME scene \in Scenes, NEW first \in SUBSET Sightings, IsFiniteSet(first),
         NEW o \in first, NEW q \in first, o # q,
         \A p, r \in first : p.frame = r.frame /\ p.prompt = r.prompt
  PROVE  Cardinality(LeftOf(o, first)) # Cardinality(LeftOf(q, first))
<1>1. \A p \in first : p.at \in Nat /\ p.index \in Nat
  BY SightingTypes
<1>2. o.index # q.index
  BY SightingsApart
<1> DEFINE Left(p, r) == p.at < r.at \/ (p.at = r.at /\ p.index < r.index)
<1>3. ASSUME NEW p \in first, NEW r \in first, Left(p, r)
      PROVE  Cardinality(LeftOf(p, first)) < Cardinality(LeftOf(r, first))
  <2>1. LeftOf(p, first) \in SUBSET LeftOf(r, first)
    BY <1>1, <1>3 DEF LeftOf
  <2>2. r \in LeftOf(r, first) /\ r \notin LeftOf(p, first)
    BY <1>1, <1>3 DEF LeftOf
  <2>3. LeftOf(r, first) \in SUBSET first
    BY DEF LeftOf
  <2>4. IsFiniteSet(LeftOf(r, first))
    BY <2>3, FS_Subset, Zenon
  <2>5. LeftOf(p, first) # LeftOf(r, first)
    BY <2>2
  <2>6. /\ IsFiniteSet(LeftOf(p, first)) /\ Cardinality(LeftOf(p, first)) <= Cardinality(LeftOf(r, first))
        /\ Cardinality(LeftOf(r, first)) # Cardinality(LeftOf(p, first))
    BY <2>1, <2>4, <2>5, FS_Subset, Zenon
  <2> QED
    BY <2>4, <2>6, FS_CardinalityType
<1>4. Left(o, q) \/ Left(q, o)
  BY <1>1, <1>2
<1>5. Cardinality(LeftOf(o, first)) < Cardinality(LeftOf(q, first))
      \/ Cardinality(LeftOf(q, first)) < Cardinality(LeftOf(o, first))
  BY <1>3, <1>4
<1>6. \A p \in first : Cardinality(LeftOf(p, first)) \in Nat
  <2> TAKE p \in first
  <2>1. LeftOf(p, first) \in SUBSET first
    BY DEF LeftOf
  <2>2. IsFiniteSet(LeftOf(p, first))
    BY <2>1, FS_Subset, Zenon
  <2> QED
    BY <2>2, FS_CardinalityType
<1> QED
  BY <1>5, <1>6

(* Two objects of a prompt have two numbers.                               *)
LEMMA ObjectsApart ==
  ASSUME scene \in Scenes, NEW observations \in SUBSET Sightings, IsFiniteSet(observations),
         NEW g \in SelectAnchorObjects(observations), NEW h \in SelectAnchorObjects(observations),
         g.prompt = h.prompt, g.number = h.number
  PROVE  g = h
<1> DEFINE First(prompt) == FirstFound(Of(observations, prompt))
<1>1. \A each \in SelectAnchorObjects(observations) : \E prompt \in Range(Prompts) : \E o \in First(prompt) :
        each = [prompt |-> o.prompt, number |-> Cardinality(LeftOf(o, First(prompt))), anchor |-> o]
  BY DEF SelectAnchorObjects, AnchorsOf
<1>2. \A prompt : \A o \in First(prompt) : o.prompt = prompt
  BY DEF FirstFound, Of
<1> HIDE DEF First
<1>3. PICK prompt \in Range(Prompts) : \E o \in First(prompt) :
        g = [prompt |-> o.prompt, number |-> Cardinality(LeftOf(o, First(prompt))), anchor |-> o]
  BY <1>1
<1>4. PICK prompt2 \in Range(Prompts) : \E q \in First(prompt2) :
        h = [prompt |-> q.prompt, number |-> Cardinality(LeftOf(q, First(prompt2))), anchor |-> q]
  BY <1>1
<1>10. PICK o \in First(prompt) :
        g = [prompt |-> o.prompt, number |-> Cardinality(LeftOf(o, First(prompt))), anchor |-> o]
  BY <1>3
<1>11. PICK q \in First(prompt2) :
        h = [prompt |-> q.prompt, number |-> Cardinality(LeftOf(q, First(prompt2))), anchor |-> q]
  BY <1>4
<1>5. prompt2 = prompt
  BY <1>2, <1>10, <1>11
<1>6. First(prompt) \in SUBSET Sightings /\ First(prompt) \in SUBSET observations
  BY DEF FirstFound, Of, First
<1>7. IsFiniteSet(First(prompt))
  BY <1>6, FS_Subset, Zenon
<1>8. \A p, r \in First(prompt) : p.frame = r.frame /\ p.prompt = r.prompt
  <2> TAKE p, r \in First(prompt)
  <2>1. p.frame <= r.frame /\ r.frame <= p.frame
    BY DEF First, FirstFound
  <2>2. p.frame \in Nat /\ r.frame \in Nat
    BY <1>6, SightingTypes
  <2> QED
    BY <1>2, <2>1, <2>2
<1>9. o = q
  <2> SUFFICES ASSUME o # q PROVE FALSE
    OBVIOUS
  <2>1. Cardinality(LeftOf(o, First(prompt))) # Cardinality(LeftOf(q, First(prompt)))
    BY <1>5, <1>6, <1>7, <1>8, NumbersApart
  <2> QED
    BY <2>1, <1>10, <1>11, <1>5
<1> QED
  BY <1>10, <1>11, <1>5, <1>9

(* There are finitely many objects to track.                               *)
LEMMA ObjectsFinite ==
  ASSUME NEW observations, IsFiniteSet(observations)
  PROVE  IsFiniteSet(Queried(observations))
<1> DEFINE Part(prompt) == AnchorsOf(FirstFound(Of(observations, prompt)))
           f == [prompt \in Range(Prompts) |-> Part(prompt)]
           Parts == { f[prompt] : prompt \in Range(Prompts) }
<1>1. \A prompt : IsFiniteSet(Part(prompt))
  <2> TAKE prompt
  <2> DEFINE first == FirstFound(Of(observations, prompt))
             Object(o) == [prompt |-> o.prompt, number |-> Cardinality(LeftOf(o, first)), anchor |-> o]
             g == [o \in first |-> Object(o)]
  <2>1. first \in SUBSET observations
    BY DEF FirstFound, Of
  <2>2. IsFiniteSet(first)
    <3> HIDE DEF first
    <3> QED
      BY <2>1, FS_Subset, Zenon
  <2>3. IsFiniteSet({ g[o] : o \in first })
    <3>1. DOMAIN g = first
      OBVIOUS
    <3> HIDE DEF g, first
    <3> QED
      BY <2>2, <3>1, ImageFinite, Zenon
  <2>4. Part(prompt) = { g[o] : o \in first }
    BY DEF AnchorsOf
  <2> QED
    BY <2>3, <2>4
<1>2. IsFiniteSet(Range(Prompts))
  <2>1. Prompts \in Seq(STRING)
    BY EvidenceAssumption DEF EvidenceAssumption
  <2>2. DOMAIN Prompts = 1..Len(Prompts) /\ Len(Prompts) \in Nat
    BY <2>1
  <2>3. IsFiniteSet(DOMAIN Prompts)
    BY <2>2, FS_Interval
  <2>4. Range(Prompts) = { Prompts[i] : i \in DOMAIN Prompts }
    BY DEF Range
  <2> QED
    BY <2>3, <2>4, ImageFinite
<1>3. IsFiniteSet(Parts)
  <2>1. DOMAIN f = Range(Prompts)
    OBVIOUS
  <2> HIDE DEF f
  <2> QED
    BY <1>2, <2>1, ImageFinite, Zenon
<1>4. \A T \in Parts : IsFiniteSet(T)
  <2> HIDE DEF Part
  <2> QED
    BY <1>1
<1>5. IsFiniteSet(UNION Parts)
  <2> HIDE DEF Parts
  <2> QED
    BY <1>3, <1>4, FS_UNION
<1>6. SelectAnchorObjects(observations) = UNION Parts
  BY DEF SelectAnchorObjects
<1>7. Queried(observations) \in SUBSET UNION Parts
  BY <1>6 DEF Queried
<1> HIDE DEF Parts
<1> QED
  BY <1>5, <1>7, FS_Subset, Zenon

(* Distances and centres are numbers.                                      *)
LEMMA Measured ==
  ASSUME NEW a \in Int, NEW b \in Int
  PROVE  Distance(a, b) \in Int
BY DEF Distance

(* Tracks that can be matched: of objects that were asked for, each with a *)
(* centre, or none, in every frame.                                        *)
Matchable(tracks, observations) ==
  /\ DOMAIN tracks \subseteq Queried(observations)
  /\ \A object \in DOMAIN tracks : tracks[object] \in Seq(Int) /\ tracks[object] # <<>>

LEMMA CentreIs ==
  ASSUME NEW centres \in Seq(Int), centres # <<>>, NEW frame \in Nat \ {0}
  PROVE  CentreAt(centres, frame) \in Int
<1>1. Len(centres) \in Nat \ {0}
  OBVIOUS
<1>2. NearestIndex(centres, frame) = IF frame <= Len(centres) THEN frame ELSE Len(centres)
  BY <1>1, MinOfTwo DEF NearestIndex
<1>3. NearestIndex(centres, frame) \in 1..Len(centres)
  BY <1>1, <1>2
<1> QED
  BY <1>3 DEF CentreAt

(* The pairs of a frame and prompt can be compared.                        *)
LEMMA PairsWeighed ==
  ASSUME scene \in Scenes, NEW observations \in SUBSET Sightings, IsFiniteSet(observations),
         NEW tracks, Matchable(tracks, observations), NEW frame \in 1..Frames, NEW prompt
  PROVE  LET found == At(Of(observations, prompt), frame)
         IN IsFiniteSet(MatchPairs(found, tracks)) /\ Weighed(MatchPairs(found, tracks))
<1> DEFINE found == At(Of(observations, prompt), frame)
           Pair(o, object) == MatchPair(o, object, CentreAt(tracks[object], o.frame))
           Fitting(o) == { each \in DOMAIN tracks : Matching(o, each, CentreAt(tracks[each], o.frame)) }
           Group(o) == { Pair(o, object) : object \in Fitting(o) }
<1>1. MatchPairs(found, tracks) = UNION { Group(o) : o \in found }
  BY DEF MatchPairs
<1>2. found \in SUBSET observations /\ \A o \in found : o.frame = frame /\ o.prompt = prompt
  BY DEF At, Of
<1>3. IsFiniteSet(found)
  <2> HIDE DEF found
  <2> QED
    BY <1>2, FS_Subset, Zenon
<1>4. IsFiniteSet(DOMAIN tracks)
  BY ObjectsFinite, FS_Subset DEF Matchable
<1>5. ASSUME NEW o
      PROVE  IsFiniteSet(Group(o))
  <2> DEFINE g == [object \in Fitting(o) |-> Pair(o, object)]
  <2>1. Fitting(o) \in SUBSET DOMAIN tracks
    OBVIOUS
  <2>2. IsFiniteSet(Fitting(o))
    <3> HIDE DEF Fitting
    <3> QED
      BY <2>1, <1>4, FS_Subset, Zenon
  <2>3. DOMAIN g = Fitting(o)
    OBVIOUS
  <2>4. Group(o) = { g[object] : object \in Fitting(o) }
    <3> HIDE DEF Fitting, Pair
    <3> QED
      OBVIOUS
  <2> HIDE DEF g, Fitting, Group
  <2> QED
    BY <2>2, <2>3, <2>4, ImageFinite
<1>6. IsFiniteSet(MatchPairs(found, tracks))
  <2> DEFINE g == [o \in found |-> Group(o)]
             groups == { g[o] : o \in found }
  <2>1. DOMAIN g = found
    OBVIOUS
  <2>2. IsFiniteSet(groups)
    <3> HIDE DEF g, found
    <3> QED
      BY <1>3, <2>1, ImageFinite, Zenon
  <2>3. \A part \in groups : IsFiniteSet(part)
    <3> HIDE DEF Group, found
    <3> QED
      BY <1>5
  <2>4. MatchPairs(found, tracks) = UNION groups
    <3> HIDE DEF Group, found
    <3> QED
      BY <1>1
  <2> HIDE DEF groups
  <2> QED
    BY <2>2, <2>3, <2>4, FS_UNION
<1>7. \A p \in MatchPairs(found, tracks) : \E o \in found, object \in DOMAIN tracks :
        p = Pair(o, object) /\ object.prompt = o.prompt
  <2> HIDE DEF Pair
  <2> QED
    BY <1>1 DEF Matching
<1>8. ASSUME NEW p \in MatchPairs(found, tracks)
      PROVE  p.a \in Int /\ p.b \in Int /\ p.cover \in Int /\ p.distance \in Int
  <2>1. PICK o \in found, object \in DOMAIN tracks : p = Pair(o, object)
    BY <1>7
  <2> DEFINE centre == CentreAt(tracks[object], o.frame)
  <2>2. o \in Sightings /\ o.frame = frame
    BY <1>2
  <2>3. centre \in Int
    <3>1. frame \in Nat \ {0}
      BY FilesAssumption DEF FilesAssumption
    <3> QED
      BY <2>2, <3>1, CentreIs DEF Matchable
  <2>4. o.index \in Int /\ o.at \in Int
    BY <2>2, SightingTypes
  <2>5. object \in SelectAnchorObjects(observations)
    BY DEF Matchable, Queried
  <2>6. object.number \in Int
    <3>1. PICK prompt2 \in Range(Prompts) : object \in AnchorsOf(FirstFound(Of(observations, prompt2)))
      BY <2>5 DEF SelectAnchorObjects
    <3> DEFINE first == FirstFound(Of(observations, prompt2))
    <3>2. PICK q \in first : object.number = Cardinality(LeftOf(q, first))
      BY <3>1 DEF AnchorsOf
    <3>3. LeftOf(q, first) \in SUBSET observations
      BY DEF LeftOf, FirstFound, Of
    <3>4. IsFiniteSet(LeftOf(q, first))
      BY <3>3, FS_Subset, Zenon
    <3> QED
      BY <3>2, <3>4, FS_CardinalityType
  <2>7. Cover(centre, o) \in Int
    BY DEF Cover
  <2>8. Distance(centre, o.at) \in Int
    BY <2>3, <2>4, Measured, Zenon
  <2>9. p.a = o.index /\ p.b = object.number /\ p.cover = Cover(centre, o) /\ p.distance = Distance(centre, o.at)
    BY <2>1 DEF MatchPair
  <2> QED
    BY <2>4, <2>6, <2>7, <2>8, <2>9
<1>9. ASSUME NEW p \in MatchPairs(found, tracks), NEW q \in MatchPairs(found, tracks), p.a = q.a, p.b = q.b
      PROVE  p = q
  <2>1. PICK o \in found, object \in DOMAIN tracks : p = Pair(o, object) /\ object.prompt = o.prompt
    BY <1>7
  <2>2. PICK o2 \in found, object2 \in DOMAIN tracks : q = Pair(o2, object2) /\ object2.prompt = o2.prompt
    BY <1>7
  <2>3. o.index = o2.index /\ object.number = object2.number
    BY <1>9, <2>1, <2>2 DEF MatchPair
  <2>4. o = o2
    <3>1. o \in Sightings /\ o2 \in Sightings /\ o.frame = o2.frame /\ o.prompt = o2.prompt
      BY <1>2
    <3> QED
      BY <2>3, <3>1, SightingsApart
  <2>5. object = object2
    <3>1. object \in SelectAnchorObjects(observations) /\ object2 \in SelectAnchorObjects(observations)
      BY DEF Matchable, Queried
    <3>2. object.prompt = object2.prompt
      BY <2>1, <2>2, <2>4
    <3> QED
      BY <2>3, <3>1, <3>2, ObjectsApart
  <2> QED
    BY <2>1, <2>2, <2>4, <2>5
<1> HIDE DEF found
<1>10. Weighed(MatchPairs(found, tracks))
  BY <1>8, <1>9 DEF Weighed
<1> QED
  BY <1>6, <1>10 DEF found

(* The links of one frame and prompt, and those of all.                    *)
LEMMA GroupLinks ==
  ASSUME scene \in Scenes, NEW observations \in SUBSET Sightings, IsFiniteSet(observations),
         NEW tracks, Matchable(tracks, observations), NEW frame \in 1..Frames, NEW prompt
  PROVE  LET matched == Matched(At(Of(observations, prompt), frame), tracks)
         IN /\ \A p \in matched : /\ p.observation.frame = frame /\ p.observation.prompt = prompt
                                  /\ p.object.prompt = prompt
            /\ \A p, q \in matched : p # q => p.observation # q.observation /\ p.object # q.object
<1> DEFINE found == At(Of(observations, prompt), frame)
           pairs == MatchPairs(found, tracks)
           matched == Greedy(pairs)
<1>1. IsFiniteSet(pairs) /\ Weighed(pairs)
  BY PairsWeighed
<1>2. matched \in SUBSET pairs /\ OneToOne(matched)
  <2> HIDE DEF pairs
  <2> QED
    BY <1>1, GreedyIsGreedy DEF Greedily
<1>3. \A o \in found : o.frame = frame /\ o.prompt = prompt
  BY DEF At, Of
<1>4. \A p \in pairs : /\ p.observation.frame = frame /\ p.observation.prompt = prompt
                       /\ p.object.prompt = prompt /\ p.a = p.observation.index /\ p.b = p.object.number
  <2> TAKE p \in pairs
  <2>1. PICK o \in found : p \in { MatchPair(o, object, CentreAt(tracks[object], o.frame)) :
              object \in { each \in DOMAIN tracks : Matching(o, each, CentreAt(tracks[each], o.frame)) } }
    BY DEF MatchPairs
  <2>2. PICK object \in DOMAIN tracks : /\ p = MatchPair(o, object, CentreAt(tracks[object], o.frame))
                                        /\ Matching(o, object, CentreAt(tracks[object], o.frame))
    BY <2>1
  <2>3. p.observation = o /\ p.object = object /\ p.a = o.index /\ p.b = object.number
    BY <2>2 DEF MatchPair
  <2>4. object.prompt = o.prompt
    BY <2>2 DEF Matching
  <2> QED
    BY <1>3, <2>3, <2>4
<1>5. matched = Matched(found, tracks)
  BY DEF Matched
<1> HIDE DEF pairs, matched, found
<1>6. \A p, q \in matched : p # q => p.observation # q.observation /\ p.object # q.object
  BY <1>2, <1>4 DEF OneToOne
<1> QED
  BY <1>2, <1>4, <1>5, <1>6 DEF found

Linked(links) ==
  /\ \A link \in links : link.object.prompt = link.observation.prompt
  /\ \A p, q \in links : p # q =>
       /\ p.observation # q.observation
       /\ p.object = q.object => p.observation.frame # q.observation.frame

(* The links of all frames and prompts together.                           *)
LEMMA AllLinks ==
  ASSUME scene \in Scenes, NEW observations \in SUBSET Sightings, IsFiniteSet(observations),
         NEW tracks, Matchable(tracks, observations)
  PROVE  Linked(AssociateSparseObservations(observations, Frames, tracks))
<1> DEFINE Group(f, prompt) == Matched(At(Of(observations, prompt), f), tracks)
           links == AssociateSparseObservations(observations, Frames, tracks)
           Link(p) == [observation |-> p.observation, object |-> p.object]
<1>1. \A f \in 1..Frames : \A prompt :
        /\ \A p \in Group(f, prompt) : /\ p.observation.frame = f /\ p.observation.prompt = prompt
                                       /\ p.object.prompt = prompt
        /\ \A p, q \in Group(f, prompt) : p # q => p.observation # q.observation /\ p.object # q.object
  BY GroupLinks
<1>2. links = UNION { { Link(p) : p \in Group(f, prompt) } : f \in 1..Frames, prompt \in Range(Prompts) }
  BY DEF AssociateSparseObservations
<1> HIDE DEF Group, links
<1>3. \A link \in links : \E f \in 1..Frames, prompt \in Range(Prompts) :
        \E p \in Group(f, prompt) : link = Link(p)
  BY <1>2
<1>4. ASSUME NEW link \in links
      PROVE  link.object.prompt = link.observation.prompt
  BY <1>1, <1>3
<1>5. ASSUME NEW k \in links, NEW m \in links, k # m
      PROVE  /\ k.observation # m.observation
             /\ k.object = m.object => k.observation.frame # m.observation.frame
  <2>1. PICK f \in 1..Frames, prompt \in Range(Prompts) : \E p \in Group(f, prompt) : k = Link(p)
    BY <1>3
  <2>2. PICK p \in Group(f, prompt) : k = Link(p)
    BY <2>1
  <2>3. PICK f2 \in 1..Frames, prompt2 \in Range(Prompts) : \E q \in Group(f2, prompt2) : m = Link(q)
    BY <1>3
  <2>4. PICK q \in Group(f2, prompt2) : m = Link(q)
    BY <2>3
  <2>5. /\ k.observation = p.observation /\ k.object = p.object
        /\ m.observation = q.observation /\ m.object = q.object /\ p # q
    BY <1>5, <2>2, <2>4
  <2>6. CASE f = f2 /\ prompt = prompt2
    BY <1>1, <2>2, <2>4, <2>5, <2>6
  <2>7. CASE f # f2 \/ prompt # prompt2
    BY <1>1, <2>2, <2>4, <2>5, <2>7
  <2> QED
    BY <2>6, <2>7
<1>6. Linked(links)
  BY <1>4, <1>5 DEF Linked
<1> QED
  BY <1>6 DEF links

-----------------------------------------------------------------------------
(* DemonstrationEvidence: the tracklets of one prompt, frame by frame.     *)

(* The tracklets of one prompt after the frames up to one.                 *)
Seen(own, frame) == { o \in own : o.frame <= frame }
Follows(a, b) == a.frame < b.frame /\ b.frame - a.frame <= MaxGap /\ Associable(Distance(a.at, b.at))
Tracked(track, seen) ==
  /\ track = [prompt |-> track.prompt, number |-> track.number, observations |-> track.observations]
  /\ track.number \in Nat
  /\ track.observations \in Seq(seen) /\ track.observations # <<>>
  /\ \A n \in 1..(Len(track.observations) - 1) : Follows(track.observations[n], track.observations[n + 1])
Holds(track, o) == \E n \in DOMAIN track.observations : track.observations[n] = o
SharedOut(tracks, seen) ==
  /\ \A o \in seen : \E track \in tracks : Holds(track, o)
  /\ \A t, u \in tracks : \A o \in seen : Holds(t, o) /\ Holds(u, o) => t = u
Numbered(tracks, next) ==
  /\ \A track \in tracks : track.number \in 1..next
  /\ \A t, u \in tracks : t.number = u.number => t = u

(* What the loop over the pairs of a frame decides: which track takes      *)
(* which detection.                                                        *)
Takes(chosen, track, o) == \E p \in chosen : p.a = track.number /\ p.b = o.index
Decided(chosen, active, found, frame) ==
  /\ \A t \in active, o \in found : Takes(chosen, t, o) =>
       Alive(t, frame) /\ Associable(Distance(LastSeen(t).at, o.at))
  /\ \A t \in active, o, q \in found : Takes(chosen, t, o) /\ Takes(chosen, t, q) => o = q
  /\ \A t, u \in active, o \in found : Takes(chosen, t, o) /\ Takes(chosen, u, o) => t = u
  /\ \A t \in active : (\E p \in chosen : p.a = t.number) => \E o \in found : Takes(chosen, t, o)
  /\ \A o \in found : (\E p \in chosen : p.b = o.index) => \E t \in active : Takes(chosen, t, o)

(* The greedy matching decides a frame: who goes on with which detection.  *)
LEMMA FrameDecided ==
  ASSUME scene \in Scenes, NEW own \in SUBSET Sightings, IsFiniteSet(own), \A o, q \in own : o.prompt = q.prompt,
         NEW frame \in Nat, NEW active, IsFiniteSet(active), NEW next \in Nat, Numbered(active, next),
         \A track \in active : Tracked(track, own)
  PROVE  Decided(Greedy(Pairs(active, At(own, frame), frame)), active, At(own, frame), frame)
<1> DEFINE found == At(own, frame)
           pairs == Pairs(active, found, frame)
           alive == { track \in active : Alive(track, frame) }
           Pair(track, o) == [a |-> track.number, b |-> o.index, cover |-> 0,
                              distance |-> Distance(LastSeen(track).at, o.at)]
           every == { Pair(track, o) : track \in alive, o \in found }
           chosen == Greedy(pairs)
<1>1. \A o, q \in found : o.index = q.index => o = q
  <2> TAKE o, q \in found
  <2>1. o \in Sightings /\ q \in Sightings /\ o.frame = q.frame /\ o.prompt = q.prompt
    BY DEF At
  <2> QED
    BY <2>1, SightingsApart
<1>2. pairs = { p \in every : Associable(p.distance) }
  BY DEF Pairs, AnyPair
<1>3. \A p \in pairs : \E t \in active, o \in found :
        p = Pair(t, o) /\ Alive(t, frame) /\ Associable(p.distance)
  <2> HIDE DEF Pair, pairs, found
  <2> QED
    BY <1>2
<1>4. \A t \in active : LastSeen(t) \in own
  <2> TAKE t \in active
  <2>1. t.observations \in Seq(own) /\ t.observations # <<>>
    BY DEF Tracked
  <2>2. Len(t.observations) \in 1..Len(t.observations)
    BY <2>1
  <2>3. t.observations[Len(t.observations)] \in own
    BY <2>1, <2>2
  <2> QED
    BY <2>3 DEF LastSeen, Last
<1>5. Weighed(pairs)
  <2>1. ASSUME NEW p \in pairs
        PROVE  p.a \in Int /\ p.b \in Int /\ p.cover \in Int /\ p.distance \in Int
    <3>1. PICK t \in active, o \in found : p = Pair(t, o)
      BY <1>3
    <3>2. LastSeen(t).at \in Nat /\ o.at \in Nat /\ o.index \in Nat
      BY <1>4, SightingTypes DEF At
    <3>3. t.number \in Int
      BY DEF Tracked
    <3>4. Distance(LastSeen(t).at, o.at) \in Int
      <4>1. LastSeen(t).at \in Int /\ o.at \in Int
        BY <3>2
      <4> QED
        BY <4>1, Measured, Zenon
    <3> QED
      BY <3>1, <3>2, <3>3, <3>4
  <2>2. ASSUME NEW p \in pairs, NEW q \in pairs, p.a = q.a, p.b = q.b
        PROVE  p = q
    <3>1. PICK t \in active, o \in found : p = Pair(t, o)
      BY <1>3
    <3>2. PICK t2 \in active, o2 \in found : q = Pair(t2, o2)
      BY <1>3
    <3>3. t = t2 /\ o = o2
      BY <1>1, <2>2, <3>1, <3>2 DEF Numbered
    <3> QED
      BY <3>1, <3>2, <3>3
  <2> HIDE DEF pairs
  <2> QED
    BY <2>1, <2>2 DEF Weighed
<1>6. IsFiniteSet(pairs)
  <2>1. IsFiniteSet(alive) /\ IsFiniteSet(found)
    <3>1. alive \in SUBSET active /\ found \in SUBSET own
      BY DEF At
    <3> HIDE DEF alive, found
    <3> QED
      BY <3>1, FS_Subset, Zenon
  <2> DEFINE S == alive \X found
             g == [r \in S |-> Pair(r[1], r[2])]
  <2>2. IsFiniteSet(S)
    <3> HIDE DEF alive, found
    <3> QED
      BY <2>1, FS_Product
  <2>3. DOMAIN g = S
    OBVIOUS
  <2>4. IsFiniteSet({ g[r] : r \in S })
    <3> HIDE DEF g, S
    <3> QED
      BY <2>2, <2>3, ImageFinite, Zenon
  <2>5. \A p \in every : p \in { g[r] : r \in S }
    <3> TAKE p \in every
    <3>1. PICK t \in alive, o \in found : p = Pair(t, o)
      OBVIOUS
    <3> HIDE DEF Pair
    <3>2. <<t, o>> \in S /\ g[<<t, o>>] = Pair(t, o)
      OBVIOUS
    <3> QED
      BY <3>1, <3>2
  <2>6. pairs \in SUBSET { g[r] : r \in S }
    <3> HIDE DEF g, S, every, pairs
    <3> QED
      BY <1>2, <2>5
  <2> HIDE DEF g, S, pairs
  <2> QED
    BY <2>4, <2>6, FS_Subset, Zenon
<1>7. chosen \in SUBSET pairs /\ OneToOne(chosen)
  <2> HIDE DEF pairs
  <2> QED
    BY <1>5, <1>6, GreedyIsGreedy DEF Greedily
<1>8. \A p \in chosen : \E t \in active, o \in found :
        /\ p.a = t.number /\ p.b = o.index
        /\ Alive(t, frame) /\ Associable(Distance(LastSeen(t).at, o.at))
  <2> TAKE p \in chosen
  <2>1. PICK t \in active, o \in found : p = Pair(t, o) /\ Alive(t, frame) /\ Associable(p.distance)
    <3> HIDE DEF chosen, pairs
    <3> QED
      BY <1>3, <1>7
  <2>2. p.a = t.number /\ p.b = o.index /\ p.distance = Distance(LastSeen(t).at, o.at)
    BY <2>1
  <2> QED
    BY <2>1, <2>2
<1> HIDE DEF chosen, pairs, found, alive, every, Pair
<1>9. \A t, u \in active : t.number = u.number => t = u
  BY DEF Numbered
<1>10. \A t \in active, o \in found : Takes(chosen, t, o) =>
         Alive(t, frame) /\ Associable(Distance(LastSeen(t).at, o.at))
  BY <1>1, <1>8, <1>9 DEF Takes
<1>11. \A t \in active, o, q \in found : Takes(chosen, t, o) /\ Takes(chosen, t, q) => o = q
  BY <1>1, <1>7 DEF Takes, OneToOne
<1>12. \A t, u \in active, o \in found : Takes(chosen, t, o) /\ Takes(chosen, u, o) => t = u
  BY <1>7, <1>9 DEF Takes, OneToOne
<1>13. \A t \in active : (\E p \in chosen : p.a = t.number) => \E o \in found : Takes(chosen, t, o)
  BY <1>8 DEF Takes
<1>14. \A o \in found : (\E p \in chosen : p.b = o.index) => \E t \in active : Takes(chosen, t, o)
  BY <1>8 DEF Takes
<1>15. Decided(chosen, active, found, frame)
  BY <1>10, <1>11, <1>12, <1>13, <1>14 DEF Decided
<1> QED
  BY <1>15 DEF chosen, pairs, found

(* A track that takes a detection has one observation more.                *)
Longer(after, track, o) ==
  /\ after.number = track.number
  /\ \A q : Holds(after, q) <=> Holds(track, q) \/ q = o

(* A record that is written out, with one more observation.                *)
LEMMA AppendTo ==
  ASSUME NEW p, NEW n, NEW s, NEW o
  PROVE  [[prompt |-> p, number |-> n, observations |-> s] EXCEPT !.observations = Append(@, o)]
         = [prompt |-> p, number |-> n, observations |-> Append(s, o)]
OBVIOUS

(* A track that takes what is near and in time stays a track.              *)
LEMMA OneLonger ==
  ASSUME scene \in Scenes, NEW own \in SUBSET Sightings, NEW frame \in Nat \ {0},
         NEW track, Tracked(track, Seen(own, frame - 1)), NEW o \in At(own, frame),
         Alive(track, frame), Associable(Distance(LastSeen(track).at, o.at))
  PROVE  LET after == [track EXCEPT !.observations = Append(@, o)]
         IN Tracked(after, Seen(own, frame)) /\ Longer(after, track, o)
<1> DEFINE s == track.observations
           t == Append(s, o)
           after == [track EXCEPT !.observations = Append(@, o)]
           seen == Seen(own, frame)
<1>1. s \in Seq(Seen(own, frame - 1)) /\ s # <<>>
  BY DEF Tracked
<1>2. Seen(own, frame - 1) \subseteq seen
  <2> SUFFICES ASSUME NEW q \in own, q.frame <= frame - 1 PROVE q.frame <= frame
    BY DEF Seen
  <2>1. q.frame \in Nat
    BY SightingTypes
  <2> QED
    BY <2>1
<1>3. o \in seen /\ o.frame = frame
  BY DEF Seen, At
<1>4. /\ Len(s) \in Nat \ {0} /\ DOMAIN s = 1..Len(s)
      /\ t \in Seq(seen) /\ Len(t) = Len(s) + 1 /\ DOMAIN t = 1..(Len(s) + 1)
      /\ t[Len(s) + 1] = o
  <2>1. s \in Seq(seen)
    BY <1>1, <1>2
  <2> HIDE DEF s, seen
  <2> QED
    BY <1>1, <1>3, <2>1
<1>5. \A n \in 1..Len(s) : t[n] = s[n]
  <2> HIDE DEF s
  <2> QED
    BY <1>1
<1>6. after = [prompt |-> track.prompt, number |-> track.number, observations |-> t]
  <2>1. track = [prompt |-> track.prompt, number |-> track.number, observations |-> track.observations]
    BY DEF Tracked
  <2>2. PICK p, n, q : track = [prompt |-> p, number |-> n, observations |-> q]
    BY <2>1
  <2>3. track.prompt = p /\ track.number = n /\ track.observations = q
    BY <2>2
  <2> QED
    BY <2>2, <2>3, AppendTo
<1>7. LastSeen(track) = s[Len(s)]
  BY DEF LastSeen, Last
<1>8. s[Len(s)].frame <= frame - 1 /\ s[Len(s)].frame \in Nat
  <2>1. s[Len(s)] \in Seen(own, frame - 1)
    <3> HIDE DEF s
    <3> QED
      BY <1>1, <1>4
  <2> QED
    BY <2>1, SightingTypes DEF Seen
<1>9. Follows(s[Len(s)], o)
  BY <1>3, <1>7, <1>8 DEF Follows, Alive
<1>10. \A n \in 1..(Len(s) - 1) : Follows(s[n], s[n + 1])
  BY DEF Tracked
<1>11. \A n \in 1..(Len(t) - 1) : Follows(t[n], t[n + 1])
  <2>0. 1..(Len(t) - 1) = 1..Len(s)
    <3> HIDE DEF t
    <3> QED
      BY <1>4
  <2> SUFFICES ASSUME NEW n \in 1..Len(s) PROVE Follows(t[n], t[n + 1])
    BY <2>0
  <2>1. CASE n = Len(s)
    <3> HIDE DEF s, t
    <3> QED
      BY <2>1, <1>4, <1>5, <1>9
  <2>2. CASE n # Len(s)
    <3>1. n \in 1..(Len(s) - 1) /\ n + 1 \in 1..Len(s) /\ n \in 1..Len(s)
      <4> DEFINE N == Len(s)
      <4>1. N \in Nat \ {0} /\ n \in 1..N /\ n # N
        BY <2>2, <1>4
      <4> HIDE DEF N
      <4>2. n \in 1..(N - 1) /\ n + 1 \in 1..N
        BY <4>1
      <4> QED
        BY <4>1, <4>2 DEF N
    <3> HIDE DEF s, t
    <3> QED
      BY <3>1, <1>5, <1>10
  <2> QED
    BY <2>1, <2>2
<1>12. track.number \in Nat
  BY DEF Tracked
<1>13. after.observations = t /\ after.number = track.number /\ after.prompt = track.prompt
  <2> HIDE DEF t
  <2> QED
    BY <1>6
<1>14. t # <<>>
  <2> HIDE DEF t, s
  <2> QED
    BY <1>4
<1>15. Tracked(after, seen)
  <2> HIDE DEF t, s, after, seen
  <2> QED
    BY <1>4, <1>6, <1>11, <1>12, <1>13, <1>14 DEF Tracked
<1>16. Longer(after, track, o)
  <2>1. \A q : Holds(after, q) <=> \E n \in DOMAIN t : t[n] = q
    <3> HIDE DEF t, after
    <3> QED
      BY <1>13 DEF Holds
  <2>2. \A q : Holds(track, q) <=> \E n \in DOMAIN s : s[n] = q
    BY DEF Holds
  <2>3. \A q : (\E n \in DOMAIN t : t[n] = q) <=> (\E n \in DOMAIN s : s[n] = q) \/ q = o
    <3> HIDE DEF t, s
    <3> TAKE q
    <3>1. (\E n \in DOMAIN t : t[n] = q) => (\E n \in DOMAIN s : s[n] = q) \/ q = o
      <4> SUFFICES ASSUME NEW n \in DOMAIN t, t[n] = q, q # o PROVE \E m \in DOMAIN s : s[m] = q
        OBVIOUS
      <4>1. n \in 1..Len(s)
        BY <1>4
      <4> QED
        BY <4>1, <1>4, <1>5
    <3>2. (\E n \in DOMAIN s : s[n] = q) => \E n \in DOMAIN t : t[n] = q
      <4> SUFFICES ASSUME NEW n \in DOMAIN s, s[n] = q PROVE \E m \in DOMAIN t : t[m] = q
        OBVIOUS
      <4>1. n \in DOMAIN t /\ t[n] = q
        BY <1>4, <1>5
      <4> QED
        BY <4>1
    <3>3. q = o => \E n \in DOMAIN t : t[n] = q
      BY <1>4
    <3> QED
      BY <3>1, <3>2, <3>3
  <2> HIDE DEF t, s, after
  <2> QED
    BY <1>13, <2>1, <2>2, <2>3 DEF Longer
<1> HIDE DEF after, seen
<1> QED
  BY <1>15, <1>16 DEF after, seen

(* A track either takes a detection of the frame or stays.                 *)
LEMMA GoingOn ==
  ASSUME scene \in Scenes, NEW own \in SUBSET Sightings, \A o, q \in own : o.prompt = q.prompt,
         NEW frame \in Nat \ {0}, NEW active, NEW chosen, Decided(chosen, active, At(own, frame), frame),
         NEW track \in active, Tracked(track, Seen(own, frame - 1))
  PROVE  LET found == At(own, frame)
             after == GoesOn(track, chosen, found)
         IN /\ Tracked(after, Seen(own, frame)) /\ after.number = track.number
            /\ \A q : Holds(after, q) <=> Holds(track, q) \/ (q \in found /\ Takes(chosen, track, q))
<1> DEFINE found == At(own, frame)
           after == GoesOn(track, chosen, found)
<1>1. CASE \E p \in chosen : p.a = track.number
  <2> DEFINE o == CHOOSE q \in found : \E p \in chosen : p.a = track.number /\ p.b = q.index
  <2>1. \E q \in found : \E p \in chosen : p.a = track.number /\ p.b = q.index
    BY <1>1 DEF Decided, Takes
  <2>2. o \in found /\ Takes(chosen, track, o)
    <3>1. o \in found /\ \E p \in chosen : p.a = track.number /\ p.b = o.index
      BY <2>1, Zenon
    <3> HIDE DEF o
    <3> QED
      BY <3>1 DEF Takes
  <2>3. after = [track EXCEPT !.observations = Append(@, o)]
    BY <1>1 DEF GoesOn
  <2>4. Alive(track, frame) /\ Associable(Distance(LastSeen(track).at, o.at))
    <3> HIDE DEF o, found
    <3> QED
      BY <2>2 DEF Decided, found
  <2>5. Tracked(after, Seen(own, frame)) /\ Longer(after, track, o)
    <3> HIDE DEF o
    <3> QED
      BY <2>2, <2>3, <2>4, OneLonger
  <2>6. \A q : (q \in found /\ Takes(chosen, track, q)) <=> q = o
    <3> HIDE DEF o, found
    <3> QED
      BY <2>2 DEF Decided, found
  <2> HIDE DEF o, found, after
  <2> QED
    BY <2>5, <2>6 DEF Longer, found, after
<1>2. CASE ~ \E p \in chosen : p.a = track.number
  <2>1. after = track
    BY <1>2 DEF GoesOn
  <2>2. \A q : ~Takes(chosen, track, q)
    BY <1>2 DEF Takes
  <2>3. Seen(own, frame - 1) \subseteq Seen(own, frame)
    <3> SUFFICES ASSUME NEW q \in own, q.frame <= frame - 1 PROVE q.frame <= frame
      BY DEF Seen
    <3>1. q.frame \in Nat
      BY SightingTypes
    <3> QED
      BY <3>1
  <2>4. track.observations \in Seq(Seen(own, frame))
    BY <2>3 DEF Tracked
  <2>5. Tracked(track, Seen(own, frame))
    BY <2>4 DEF Tracked
  <2> QED
    BY <2>1, <2>2, <2>5
<1> QED
  BY <1>1, <1>2

(* The state of the loop after a frame: finitely many tracks, told apart   *)
(* by their numbers, that share out what was seen so far.                  *)
Good(state, own, frame) ==
  /\ IsFiniteSet(state.active) /\ state.next \in Nat /\ state.active \cap state.completed = {}
  /\ \A track \in state.active \cup state.completed : Tracked(track, Seen(own, frame))
  /\ Numbered(state.active \cup state.completed, state.next)
  /\ SharedOut(state.active \cup state.completed, Seen(own, frame))

(* Before the first frame nothing is tracked.                              *)
LEMMA GoodAtFirst ==
  ASSUME scene \in Scenes, NEW own \in SUBSET Sightings
  PROVE  Good(NoTracks, own, 0)
<1>1. \A o \in own : o.frame \in 1..Frames
  BY SightingIs
<1>2. Seen(own, 0) = {}
  BY <1>1, FilesAssumption DEF Seen, FilesAssumption
<1> QED
  BY <1>2, FS_EmptySet DEF Good, NoTracks, Numbered, SharedOut

(* A frame adds its own detections to what was seen.                       *)
LEMMA SeenGrows ==
  ASSUME scene \in Scenes, NEW own \in SUBSET Sightings, NEW frame \in Nat \ {0}
  PROVE  /\ Seen(own, frame) = Seen(own, frame - 1) \cup At(own, frame)
         /\ Seen(own, frame - 1) \cap At(own, frame) = {}
<1>1. \A o \in own : o.frame \in Nat
  BY SightingTypes
<1> QED
  BY <1>1 DEF Seen, At

(* A frame in which nothing was detected changes nothing.                  *)
LEMMA GoodWithoutFrame ==
  ASSUME scene \in Scenes, NEW own \in SUBSET Sightings, NEW frame \in Nat \ {0}, At(own, frame) = {},
         NEW state, Good(state, own, frame - 1)
  PROVE  Good(state, own, frame)
BY SeenGrows DEF Good

(* What one frame makes of the tracks.                                     *)
LEMMA FrameLinked ==
  ASSUME scene \in Scenes, NEW own \in SUBSET Sightings, IsFiniteSet(own), \A o, q \in own : o.prompt = q.prompt,
         NEW frame \in Nat \ {0}, NEW state, Good(state, own, frame - 1)
  PROVE  Good(LinkFrame(state, At(own, frame), frame), own, frame)
<1> DEFINE found == At(own, frame)
           seen == Seen(own, frame)
           active == state.active
           next == state.next
           chosen == Greedy(Pairs(active, found, frame))
           Now(track) == GoesOn(track, chosen, found)
           taken == { Now(track) : track \in active }
           fresh == { o \in found : ~\E p \in chosen : p.b = o.index }
           Rank(o) == Cardinality({ q \in fresh : q.index <= o.index })
           begun == { Begun(o, fresh, next) : o \in fresh }
           after == LinkFrame(state, found, frame)
           all == after.active \cup after.completed
<1>1. /\ after.active = { track \in taken : Alive(track, frame) } \cup begun
      /\ after.completed = state.completed \cup { track \in taken : ~Alive(track, frame) }
      /\ after.next = next + Cardinality(fresh)
  BY DEF LinkFrame
<1>2. all = state.completed \cup taken \cup begun
  <2> HIDE DEF after, taken, begun
  <2> QED
    BY <1>1
<1>3. /\ IsFiniteSet(active) /\ next \in Nat /\ active \cap state.completed = {}
      /\ \A track \in active \cup state.completed : Tracked(track, Seen(own, frame - 1))
      /\ Numbered(active \cup state.completed, next)
      /\ SharedOut(active \cup state.completed, Seen(own, frame - 1))
  BY DEF Good
<1>4. Decided(chosen, active, found, frame)
  <2>1. Numbered(active, next)
    BY <1>3 DEF Numbered
  <2>2. \A track \in active : Tracked(track, own)
    <3> TAKE track \in active
    <3>1. Tracked(track, Seen(own, frame - 1))
      BY <1>3
    <3>2. track.observations \in Seq(own)
      <4>1. Seen(own, frame - 1) \subseteq own
        BY DEF Seen
      <4>2. track.observations \in Seq(Seen(own, frame - 1))
        BY <3>1 DEF Tracked
      <4> QED
        BY <4>1, <4>2
    <3> QED
      BY <3>1, <3>2 DEF Tracked
  <2>3. frame \in Nat
    OBVIOUS
  <2> HIDE DEF active, next
  <2> QED
    BY <1>3, <2>1, <2>2, <2>3, FrameDecided
<1>5. found \in SUBSET own /\ IsFiniteSet(found) /\ fresh \in SUBSET found /\ IsFiniteSet(fresh)
  <2>1. found \in SUBSET own
    BY DEF At
  <2>2. IsFiniteSet(found)
    <3> HIDE DEF found
    <3> QED
      BY <2>1, FS_Subset, Zenon
  <2>3. fresh \in SUBSET found
    OBVIOUS
  <2> HIDE DEF found, fresh
  <2> QED
    BY <2>1, <2>2, <2>3, FS_Subset
<1>12. Cardinality(fresh) \in Nat
  <2> HIDE DEF fresh
  <2> QED
    BY <1>5, FS_CardinalityType
<1>6. \A track \in active :
        /\ Tracked(Now(track), seen) /\ Now(track).number = track.number
        /\ \A q : Holds(Now(track), q) <=> Holds(track, q) \/ (q \in found /\ Takes(chosen, track, q))
  <2> TAKE track \in active
  <2>1. Tracked(track, Seen(own, frame - 1))
    BY <1>3
  <2> HIDE DEF active, chosen
  <2> QED
    BY <1>4, <2>1, GoingOn
<1>7. \A track \in state.completed : Tracked(track, seen)
  <2> TAKE track \in state.completed
  <2>1. Tracked(track, Seen(own, frame - 1))
    BY <1>3
  <2>2. Seen(own, frame - 1) \subseteq seen
    BY SeenGrows
  <2>3. track.observations \in Seq(seen)
    <3>1. track.observations \in Seq(Seen(own, frame - 1))
      BY <2>1 DEF Tracked
    <3> HIDE DEF seen
    <3> QED
      BY <2>2, <3>1
  <2> QED
    BY <2>1, <2>3 DEF Tracked
<1>8. ASSUME NEW o \in fresh
      PROVE  /\ Tracked(Begun(o, fresh, next), seen)
             /\ Begun(o, fresh, next).number = next + Rank(o)
             /\ Rank(o) \in 1..Cardinality(fresh)
             /\ \A q : Holds(Begun(o, fresh, next), q) <=> q = o
  <2> DEFINE before == { q \in fresh : q.index <= o.index }
  <2>1. before \in SUBSET fresh /\ o \in before
    <3>1. o.index \in Nat
      BY <1>5, SightingTypes
    <3> QED
      BY <3>1
  <2>2. Rank(o) \in 1..Cardinality(fresh)
    <3>1. IsFiniteSet(before) /\ Cardinality(before) <= Cardinality(fresh)
      <4> HIDE DEF before, fresh
      <4> QED
        BY <1>5, <2>1, FS_Subset, Zenon
    <3>2. before # {}
      BY <2>1
    <3>3. Cardinality(before) \in Nat /\ Cardinality(before) # 0 /\ Cardinality(fresh) \in Nat
      <4> HIDE DEF before, fresh
      <4> QED
        BY <1>5, <3>1, <3>2, FS_CardinalityType, FS_EmptySet
    <3>4. Rank(o) = Cardinality(before)
      OBVIOUS
    <3> HIDE DEF before, fresh, Rank
    <3> QED
      BY <3>1, <3>3, <3>4
  <2>3. /\ Begun(o, fresh, next).number = next + Rank(o) /\ Begun(o, fresh, next).observations = <<o>>
        /\ Begun(o, fresh, next) = [prompt |-> o.prompt, number |-> next + Rank(o), observations |-> <<o>>]
    BY DEF Begun
  <2>4. o \in seen
    BY <1>5, SeenGrows
  <2>5. next + Rank(o) \in Nat
    <3>1. Cardinality(fresh) \in Nat
      <4> HIDE DEF fresh
      <4> QED
        BY <1>5, FS_CardinalityType
    <3> HIDE DEF next, fresh, Rank
    <3> QED
      BY <1>3, <2>2, <3>1
  <2> HIDE DEF Rank, before, fresh, next, seen
  <2>6. <<o>> \in Seq(seen) /\ <<o>> # <<>> /\ 1..(Len(<<o>>) - 1) = {}
    BY <2>4
  <2>7. Tracked(Begun(o, fresh, next), seen)
    BY <2>3, <2>5, <2>6 DEF Tracked
  <2>8. \A q : Holds(Begun(o, fresh, next), q) <=> q = o
    BY <2>3 DEF Holds
  <2> QED
    BY <2>2, <2>3, <2>7, <2>8
<1>9. \A o, q \in found : o.index = q.index => o = q
  <2> TAKE o, q \in found
  <2>1. o \in Sightings /\ q \in Sightings /\ o.frame = q.frame /\ o.prompt = q.prompt
    BY DEF At
  <2> QED
    BY <2>1, SightingsApart
<1>10. \A o, q \in fresh : Rank(o) = Rank(q) => o = q
  <2>1. ASSUME NEW o \in fresh, NEW q \in fresh, o.index < q.index
        PROVE  Rank(o) < Rank(q)
    <3> DEFINE A == { r \in fresh : r.index <= o.index }
               B == { r \in fresh : r.index <= q.index }
    <3>0. \A r \in fresh : r.index \in Nat
      BY <1>5, SightingTypes
    <3>1. A \in SUBSET B /\ q \in B /\ q \notin A /\ B \in SUBSET fresh
      BY <2>1, <3>0
    <3>2. IsFiniteSet(B)
      <4> HIDE DEF A, B, fresh
      <4> QED
        BY <1>5, <3>1, FS_Subset, Zenon
    <3>3. IsFiniteSet(A) /\ Cardinality(A) <= Cardinality(B) /\ (Cardinality(B) = Cardinality(A) => B = A)
      <4> HIDE DEF A, B, fresh
      <4> QED
        BY <3>1, <3>2, FS_Subset, Zenon
    <3>4. Cardinality(A) < Cardinality(B)
      <4> HIDE DEF A, B, fresh
      <4> QED
        BY <3>1, <3>2, <3>3, FS_CardinalityType
    <3> QED
      BY <3>4
  <2> TAKE o, q \in fresh
  <2>2. o.index \in Nat /\ q.index \in Nat
    BY <1>5, SightingTypes
  <2>3. Rank(o) \in Int /\ Rank(q) \in Int
    <3> HIDE DEF Rank, fresh
    <3> QED
      BY <1>8, <1>12
  <2> HIDE DEF Rank, fresh
  <2>4. o.index < q.index => Rank(o) < Rank(q)
    BY <2>1
  <2>5. q.index < o.index => Rank(q) < Rank(o)
    BY <2>1
  <2>6. o.index = q.index => o = q
    BY <1>5, <1>9
  <2> QED
    BY <2>2, <2>3, <2>4, <2>5, <2>6
<1> HIDE DEF Rank
<1>11. Numbered(all, after.next)
  <2>1. \A track \in all :
          \/ \E t \in active \cup state.completed : track.number = t.number /\ (track = t \/ (t \in active /\ track = Now(t)))
          \/ \E o \in fresh : track = Begun(o, fresh, next)
    <3> HIDE DEF Now, all, fresh
    <3> QED
      BY <1>2, <1>6
  <2>2. Cardinality(fresh) \in Nat
    <3> HIDE DEF fresh
    <3> QED
      BY <1>5, FS_CardinalityType
  <2>3. \A t \in active \cup state.completed : t.number \in 1..next
    BY <1>3 DEF Numbered
  <2>4. \A o \in fresh : Begun(o, fresh, next).number \in (next + 1)..(next + Cardinality(fresh))
    <3> TAKE o \in fresh
    <3> HIDE DEF fresh, next
    <3> QED
      BY <1>3, <1>8, <2>2
  <2>5. \A track \in all : track.number \in 1..after.next
    <3> HIDE DEF all, after, fresh, next, active, Now
    <3> QED
      BY <1>1, <1>3, <2>1, <2>2, <2>3, <2>4
  <2>6. \A o, q \in fresh : Begun(o, fresh, next).number = Begun(q, fresh, next).number => o = q
    <3> TAKE o, q \in fresh
    <3>1. Rank(o) \in Int /\ Rank(q) \in Int /\ next \in Int
      <4> HIDE DEF fresh, next
      <4> QED
        BY <1>3, <1>8, <1>12
    <3> HIDE DEF fresh, next
    <3> QED
      BY <1>8, <1>10, <3>1
  <2>7. \A t, u \in active : Now(t).number = Now(u).number => t = u
    <3> HIDE DEF Now
    <3> QED
      BY <1>6, <1>3 DEF Numbered
  <2>8. ASSUME NEW v \in all, NEW w \in all, v.number = w.number
        PROVE  v = w
    <3>1. CASE \E o \in fresh : v = Begun(o, fresh, next)
      <4>1. PICK o \in fresh : v = Begun(o, fresh, next)
        BY <3>1
      <4>2. \E q \in fresh : w = Begun(q, fresh, next)
        <5> HIDE DEF fresh, next, all, Now, active
        <5> QED
          BY <1>3, <2>1, <2>2, <2>3, <2>4, <2>8, <4>1
      <4> HIDE DEF fresh
      <4> QED
        BY <2>6, <2>8, <4>1, <4>2
    <3>2. CASE \E o \in fresh : w = Begun(o, fresh, next)
      <4>1. PICK o \in fresh : w = Begun(o, fresh, next)
        BY <3>2
      <4>2. \E q \in fresh : v = Begun(q, fresh, next)
        <5> HIDE DEF fresh, next, all, Now, active
        <5> QED
          BY <1>3, <2>1, <2>2, <2>3, <2>4, <2>8, <4>1
      <4> HIDE DEF fresh
      <4> QED
        BY <2>6, <2>8, <4>1, <4>2
    <3>3. CASE (\E t \in active : v = Now(t)) /\ \E t \in active : w = Now(t)
      <4>1. PICK t \in active : v = Now(t)
        BY <3>3
      <4>2. PICK u \in active : w = Now(u)
        BY <3>3
      <4> HIDE DEF Now
      <4> QED
        BY <2>7, <2>8, <4>1, <4>2
    <3>4. CASE v \in state.completed /\ w \in state.completed
      BY <1>3, <2>8, <3>4 DEF Numbered
    <3>5. ASSUME NEW c \in state.completed, NEW t \in active
          PROVE  c.number # Now(t).number
      <4>1. t.number # c.number
        BY <1>3 DEF Numbered
      <4> HIDE DEF Now
      <4> QED
        BY <1>6, <4>1
    <3>6. v \in state.completed \/ (\E t \in active : v = Now(t)) \/ \E o \in fresh : v = Begun(o, fresh, next)
      <4> HIDE DEF Now, all, fresh, next
      <4> QED
        BY <1>2
    <3>7. w \in state.completed \/ (\E t \in active : w = Now(t)) \/ \E o \in fresh : w = Begun(o, fresh, next)
      <4> HIDE DEF Now, all, fresh, next
      <4> QED
        BY <1>2
    <3> HIDE DEF Now, all, fresh, next, active
    <3> QED
      BY <2>8, <3>1, <3>2, <3>3, <3>4, <3>5, <3>6, <3>7
  <2> QED
    BY <2>5, <2>8 DEF Numbered
<1>13. after.active \cap after.completed = {}
  <2>1. ASSUME NEW v \in after.active, v \in after.completed
        PROVE  FALSE
    <3>1. \A t \in active \cup state.completed : t.number \in 1..next
      BY <1>3 DEF Numbered
    <3>2. \A o \in fresh : Begun(o, fresh, next).number > next
      <4> TAKE o \in fresh
      <4> HIDE DEF fresh, next
      <4> QED
        BY <1>3, <1>8, <1>12
    <3>3. \A t \in active : Now(t).number = t.number
      <4> HIDE DEF Now
      <4> QED
        BY <1>6
    <3>4. \A c \in state.completed, t \in active : c.number # t.number
      BY <1>3 DEF Numbered
    <3>5. CASE \E t \in active : v = Now(t) /\ Alive(v, frame)
      <4>1. v \in state.completed \/ \E t \in active : v = Now(t) /\ ~Alive(v, frame)
        <5> HIDE DEF Now, after
        <5> QED
          BY <1>1, <2>1
      <4> HIDE DEF Now
      <4> QED
        BY <3>3, <3>4, <3>5, <4>1
    <3>6. CASE \E o \in fresh : v = Begun(o, fresh, next)
      <4>1. v \in state.completed \/ \E t \in active : v = Now(t)
        <5> HIDE DEF Now, after
        <5> QED
          BY <1>1, <2>1
      <4>2. v.number \in 1..next
        <5> HIDE DEF Now, next, active
        <5> QED
          BY <3>1, <3>3, <4>1
      <4> HIDE DEF Now, next, active, fresh
      <4> QED
        BY <1>3, <3>2, <3>6, <4>2
    <3> HIDE DEF Now, after, fresh, next
    <3> QED
      BY <1>1, <2>1, <3>5, <3>6
  <2> QED
    BY <2>1
<1>14. \A v \in all : Tracked(v, seen)
  <2> HIDE DEF Now, all, fresh, next, seen, active
  <2> QED
    BY <1>2, <1>6, <1>7, <1>8
<1>15. IsFiniteSet(after.active)
  <2> DEFINE f == [track \in active |-> Now(track)]
             g == [o \in fresh |-> Begun(o, fresh, next)]
  <2>1. DOMAIN f = active /\ DOMAIN g = fresh /\ taken = { f[t] : t \in active } /\ begun = { g[o] : o \in fresh }
    <3> HIDE DEF Now, fresh, active
    <3> QED
      OBVIOUS
  <2> HIDE DEF f, g, active, fresh, taken, begun
  <2>2. IsFiniteSet(taken) /\ IsFiniteSet(begun)
    BY <1>3, <1>5, <2>1, ImageFinite
  <2>3. IsFiniteSet(taken \cup begun)
    BY <2>2, FS_Union
  <2>4. after.active \in SUBSET (taken \cup begun)
    <3> HIDE DEF after
    <3> QED
      BY <1>1
  <2> HIDE DEF after
  <2> QED
    BY <2>3, <2>4, FS_Subset, Zenon
<1>16. SharedOut(all, seen)
  <2>1. /\ seen = Seen(own, frame - 1) \cup found /\ Seen(own, frame - 1) \cap found = {}
    BY SeenGrows
  <2>2. \A t \in active \cup state.completed : \A q : Holds(t, q) => q \in Seen(own, frame - 1)
    <3> TAKE t \in active \cup state.completed
    <3>1. t.observations \in Seq(Seen(own, frame - 1))
      BY <1>3 DEF Tracked
    <3> HIDE DEF active
    <3> QED
      BY <3>1 DEF Holds
  <2>3. ASSUME NEW o \in seen
        PROVE  \E v \in all : Holds(v, o)
    <3>1. CASE o \in Seen(own, frame - 1)
      <4>1. PICK t \in active \cup state.completed : Holds(t, o)
        BY <1>3, <3>1 DEF SharedOut
      <4>2. CASE t \in state.completed
        <5> HIDE DEF all
        <5> QED
          BY <1>2, <4>1, <4>2
      <4>3. CASE t \in active
        <5>1. Now(t) \in all /\ Holds(Now(t), o)
          <6> HIDE DEF all, Now
          <6> QED
            BY <1>2, <1>6, <4>1, <4>3
        <5> QED
          BY <5>1
      <4> QED
        BY <4>2, <4>3
    <3>2. CASE o \in fresh
      <4>1. Begun(o, fresh, next) \in all /\ Holds(Begun(o, fresh, next), o)
        <5> HIDE DEF all, fresh, next
        <5> QED
          BY <1>2, <1>8, <3>2
      <4> QED
        BY <4>1
    <3>3. CASE o \in found /\ \E p \in chosen : p.b = o.index
      <4>1. PICK t \in active : Takes(chosen, t, o)
        <5> HIDE DEF active, chosen, found
        <5> QED
          BY <1>4, <3>3 DEF Decided
      <4>2. Now(t) \in all /\ Holds(Now(t), o)
        <5> HIDE DEF all, Now, chosen
        <5> QED
          BY <1>2, <1>6, <3>3, <4>1
      <4> QED
        BY <4>2
    <3>4. o \in Seen(own, frame - 1) \/ o \in found
      BY <2>1
    <3>5. o \in found => o \in fresh \/ \E p \in chosen : p.b = o.index
      OBVIOUS
    <3> HIDE DEF seen, found, fresh, all, chosen
    <3> QED
      BY <3>1, <3>2, <3>3, <3>4, <3>5
  <2>4. ASSUME NEW v \in all, NEW w \in all, NEW o \in seen, Holds(v, o), Holds(w, o)
        PROVE  v = w
    <3> DEFINE Old(x, t) == t \in active \cup state.completed /\ ((x = t /\ t \in state.completed) \/ (t \in active /\ x = Now(t)))
               New(x, q) == q \in fresh /\ x = Begun(q, fresh, next)
    <3>1. \A x \in all : (\E t : Old(x, t)) \/ (\E q : New(x, q))
      <4> TAKE x \in all
      <4>1. x \in state.completed \/ (\E t \in active : x = Now(t)) \/ \E q \in fresh : x = Begun(q, fresh, next)
        <5> HIDE DEF Now, all, fresh, next
        <5> QED
          BY <1>2
      <4>2. x \in state.completed => Old(x, x)
        OBVIOUS
      <4>3. \A t \in active : x = Now(t) => Old(x, t)
        OBVIOUS
      <4>4. \A q \in fresh : x = Begun(q, fresh, next) => New(x, q)
        OBVIOUS
      <4> HIDE DEF Old, New, Now, fresh, next, active
      <4> QED
        BY <4>1, <4>2, <4>3, <4>4
    <3>2. CASE o \in Seen(own, frame - 1)
      <4>1. \A x \in all : Holds(x, o) => \E t : Old(x, t) /\ Holds(t, o)
        <5> TAKE x \in all
        <5>1. \A q : ~(New(x, q) /\ Holds(x, o))
          <6> HIDE DEF fresh, next, found
          <6> QED
            BY <1>5, <1>8, <2>1, <3>2
        <5>2. \A t : Old(x, t) /\ Holds(x, o) => Holds(t, o)
          <6> HIDE DEF Now, found, active
          <6> QED
            BY <1>6, <2>1, <3>2
        <5> HIDE DEF Old, New, all
        <5> QED
          BY <3>1, <5>1, <5>2
      <4>2. PICK t : Old(v, t) /\ Holds(t, o)
        <5> HIDE DEF Old, all
        <5> QED
          BY <4>1, <2>4
      <4>3. PICK u : Old(w, u) /\ Holds(u, o)
        <5> HIDE DEF Old, all
        <5> QED
          BY <4>1, <2>4
      <4>4. t = u
        <5>1. t \in active \cup state.completed /\ u \in active \cup state.completed
          BY <4>2, <4>3
        <5> HIDE DEF active
        <5> QED
          BY <5>1, <4>2, <4>3, <1>3, <3>2 DEF SharedOut
      <4> HIDE DEF Now, active
      <4> QED
        BY <4>2, <4>3, <4>4, <1>3
    <3>3. CASE o \in found
      <4>1. \A x \in all : Holds(x, o) =>
              (\E t \in active : x = Now(t) /\ Takes(chosen, t, o)) \/ (o \in fresh /\ x = Begun(o, fresh, next))
        <5> TAKE x \in all
        <5>1. \A q : New(x, q) /\ Holds(x, o) => o \in fresh /\ x = Begun(o, fresh, next)
          <6> HIDE DEF fresh, next, found
          <6> QED
            BY <1>8
        <5>2. \A t : Old(x, t) /\ Holds(x, o) => t \in active /\ x = Now(t) /\ Takes(chosen, t, o)
          <6> HIDE DEF Now, found, active, chosen
          <6> QED
            BY <1>6, <2>1, <2>2, <3>3
        <5> HIDE DEF Old, New, all
        <5> QED
          BY <3>1, <5>1, <5>2
      <4>2. \A t \in active : Takes(chosen, t, o) => o \notin fresh
        BY DEF Takes
      <4>3. \A t, u \in active : Takes(chosen, t, o) /\ Takes(chosen, u, o) => t = u
        <5> HIDE DEF active, chosen, found
        <5> QED
          BY <1>4, <3>3 DEF Decided
      <4> HIDE DEF all, Now, active, fresh, next, chosen
      <4> QED
        BY <2>4, <4>1, <4>2, <4>3
    <3> HIDE DEF found, seen
    <3> QED
      BY <2>1, <3>2, <3>3
  <2> HIDE DEF all, seen
  <2> QED
    BY <2>3, <2>4 DEF SharedOut
<1>17. after.next \in Nat
  <2> HIDE DEF after, fresh, next
  <2> QED
    BY <1>1, <1>3, <1>12
<1> HIDE DEF seen, after
<1> QED
  BY <1>11, <1>13, <1>14, <1>15, <1>16, <1>17 DEF Good, seen, after

(* The loop over the frames: its states are those its recursion says.      *)
FrameStep(own, state, frame) ==
  IF At(own, frame) = {} THEN state ELSE LinkFrame(state, At(own, frame), frame)
Runs(own, linked, last) ==
  linked = [f \in 0..last |-> IF f = 0 THEN NoTracks ELSE FrameStep(own, linked[f - 1], f)]

(* The loop has a state after every frame.                                 *)
LEMMA LoopRuns ==
  ASSUME NEW own, NEW last \in Nat
  PROVE  \E linked : Runs(own, linked, last)
<1> DEFINE Bad == { n \in Nat : ~\E linked : Runs(own, linked, n) }
<1>1. Bad = {}
  <2> SUFFICES ASSUME Bad # {} PROVE FALSE
    OBVIOUS
  <2>1. Bad \in SUBSET Nat
    OBVIOUS
  <2>2. PICK n \in Bad : \A k \in Bad : n <= k
    <3> HIDE DEF Bad
    <3> QED
      BY <2>1, Least, Zenon
  <2>3. n \in Nat /\ ~\E linked : Runs(own, linked, n)
    OBVIOUS
  <2>4. n # 0
    <3> SUFFICES ASSUME n = 0 PROVE FALSE
      OBVIOUS
    <3> DEFINE start == [f \in 0..0 |-> NoTracks]
    <3>1. start = [f \in 0..0 |-> IF f = 0 THEN NoTracks ELSE FrameStep(own, start[f - 1], f)]
      <4>1. \A f \in 0..0 : f = 0
        OBVIOUS
      <4> QED
        BY <4>1
    <3>2. Runs(own, start, 0)
      <4> HIDE DEF start
      <4> QED
        BY <3>1 DEF Runs
    <3> QED
      BY <3>2, <2>3
  <2>5. n - 1 \in Nat /\ n - 1 \notin Bad
    <3>1. n - 1 \in Nat
      BY <2>3, <2>4
    <3>2. ~(n <= n - 1)
      BY <2>3
    <3> HIDE DEF Bad
    <3> QED
      BY <2>2, <3>1, <3>2
  <2>6. PICK linked : Runs(own, linked, n - 1)
    BY <2>5
  <2> DEFINE more == [f \in 0..n |-> IF f = n THEN FrameStep(own, linked[n - 1], n) ELSE linked[f]]
  <2>7. \A f \in 0..n : more[f] = IF f = 0 THEN NoTracks ELSE FrameStep(own, more[f - 1], f)
    <3> TAKE f \in 0..n
    <3>1. CASE f = n
      <4>1. more[n] = FrameStep(own, linked[n - 1], n) /\ more[n - 1] = linked[n - 1]
        <5>1. n \in 0..n /\ n - 1 \in 0..n /\ n - 1 # n
          BY <2>3, <2>4
        <5> QED
          BY <5>1
      <4> HIDE DEF more
      <4> QED
        BY <3>1, <4>1, <2>4
    <3>2. CASE f # n
      <4>1. f \in 0..(n - 1) /\ more[f] = linked[f]
        BY <2>3, <3>2
      <4>2. linked[f] = IF f = 0 THEN NoTracks ELSE FrameStep(own, linked[f - 1], f)
        <5> HIDE DEF more
        <5> QED
          BY <2>6, <4>1 DEF Runs
      <4>3. f # 0 => more[f - 1] = linked[f - 1]
        <5> SUFFICES ASSUME f # 0 PROVE more[f - 1] = linked[f - 1]
          OBVIOUS
        <5>1. f - 1 \in 0..n /\ f - 1 # n
          BY <2>3, <3>2
        <5> QED
          BY <5>1
      <4> HIDE DEF more
      <4> QED
        BY <4>1, <4>2, <4>3
    <3> QED
      BY <3>1, <3>2
  <2>8. more = [f \in 0..n |-> more[f]]
    OBVIOUS
  <2>9. Runs(own, more, n)
    <3> HIDE DEF more
    <3> QED
      BY <2>7, <2>8 DEF Runs
  <2> QED
    BY <2>3, <2>9
<1> QED
  BY <1>1

(* The tracklets of a prompt are those after the last frame.               *)
LEMMA LinkPromptIs ==
  ASSUME NEW own
  PROVE  \E linked : Runs(own, linked, Frames) /\ LinkPrompt(own, Frames) = linked[Frames].completed \cup linked[Frames].active
<1> DEFINE linked == CHOOSE each : Runs(own, each, Frames)
<1>1. Runs(own, linked, Frames)
  BY LoopRuns, FilesAssumption DEF FilesAssumption
<1>2. LinkPrompt(own, Frames) = linked[Frames].completed \cup linked[Frames].active
  BY DEF LinkPrompt, Runs, FrameStep
<1> QED
  BY <1>1, <1>2

(* They share out the detections of the prompt.                            *)
LEMMA PromptShares ==
  ASSUME scene \in Scenes, NEW own \in SUBSET Sightings, IsFiniteSet(own), \A o, q \in own : o.prompt = q.prompt
  PROVE  /\ \A track \in LinkPrompt(own, Frames) : Tracked(track, own)
         /\ SharedOut(LinkPrompt(own, Frames), own)
<1>1. PICK linked : /\ Runs(own, linked, Frames)
                    /\ LinkPrompt(own, Frames) = linked[Frames].completed \cup linked[Frames].active
  BY LinkPromptIs
<1> DEFINE Bad == { f \in 0..Frames : ~Good(linked[f], own, f) }
<1>2. Frames \in Nat
  BY FilesAssumption DEF FilesAssumption
<1>3. \A f \in 0..Frames : linked[f] = IF f = 0 THEN NoTracks ELSE FrameStep(own, linked[f - 1], f)
  BY <1>1 DEF Runs
<1>4. Bad = {}
  <2> SUFFICES ASSUME Bad # {} PROVE FALSE
    OBVIOUS
  <2>1. Bad \in SUBSET Nat
    BY <1>2
  <2>2. PICK f \in Bad : \A k \in Bad : f <= k
    <3> HIDE DEF Bad
    <3> QED
      BY <2>1, Least, Zenon
  <2>3. f \in 0..Frames /\ ~Good(linked[f], own, f)
    OBVIOUS
  <2>4. f # 0
    <3> SUFFICES ASSUME f = 0 PROVE FALSE
      OBVIOUS
    <3>1. linked[0] = NoTracks
      BY <1>2, <1>3
    <3> QED
      BY <2>3, <3>1, GoodAtFirst
  <2>5. f - 1 \in 0..Frames /\ f \in Nat \ {0}
    BY <1>2, <2>3, <2>4
  <2>6. Good(linked[f - 1], own, f - 1)
    <3>1. f - 1 \notin Bad
      <4> HIDE DEF Bad
      <4>1. ~(f <= f - 1)
        BY <2>5
      <4> QED
        BY <2>2, <4>1
    <3> QED
      BY <2>5, <3>1
  <2>7. linked[f] = FrameStep(own, linked[f - 1], f)
    BY <1>3, <2>3, <2>4
  <2>8. Good(FrameStep(own, linked[f - 1], f), own, f)
    <3>1. CASE At(own, f) = {}
      BY <2>5, <2>6, <3>1, GoodWithoutFrame DEF FrameStep
    <3>2. CASE At(own, f) # {}
      BY <2>5, <2>6, <3>2, FrameLinked DEF FrameStep
    <3> QED
      BY <3>1, <3>2
  <2> QED
    BY <2>3, <2>7, <2>8
<1>5. Good(linked[Frames], own, Frames)
  <2>1. Frames \in 0..Frames
    BY <1>2
  <2> QED
    BY <1>4, <2>1
<1>6. Seen(own, Frames) = own
  BY SightingIs, <1>2 DEF Seen
<1> QED
  BY <1>1, <1>5, <1>6 DEF Good

(* All the tracklets of an evidence file.                                  *)
ShareOut(tracks, observations) ==
  /\ \A o \in observations : Cardinality({ track \in tracks : o \in Range(track.observations) }) = 1
  /\ \A track \in tracks : \A n \in 1..(Len(track.observations) - 1) :
       LET a == track.observations[n]
           b == track.observations[n + 1]
       IN /\ a.prompt = b.prompt /\ a.frame < b.frame /\ b.frame - a.frame <= MaxGap
          /\ Associable(Distance(a.at, b.at))

(* So do those of all prompts together.                                    *)
LEMMA TracksShareOut ==
  ASSUME scene \in Scenes, NEW observations \in SUBSET Sightings, IsFiniteSet(observations)
  PROVE  ShareOut(LinkDetectionTracklets(observations, Frames), observations)
<1> DEFINE Own(prompt) == Of(observations, prompt)
           Part(prompt) == LinkPrompt(Own(prompt), Frames)
           tracks == LinkDetectionTracklets(observations, Frames)
<1>1. tracks = UNION { Part(prompt) : prompt \in Range(Prompts) }
  BY DEF LinkDetectionTracklets
<1>2. ASSUME NEW prompt
      PROVE  /\ Own(prompt) \in SUBSET Sightings /\ \A o \in Own(prompt) : o.prompt = prompt
             /\ \A track \in Part(prompt) : Tracked(track, Own(prompt))
             /\ SharedOut(Part(prompt), Own(prompt))
  <2>1. /\ Own(prompt) \in SUBSET Sightings /\ Own(prompt) \in SUBSET observations
        /\ \A o \in Own(prompt) : o.prompt = prompt
    BY DEF Of
  <2> HIDE DEF Own
  <2>2. IsFiniteSet(Own(prompt))
    BY <2>1, FS_Subset, Zenon
  <2>3. \A o, q \in Own(prompt) : o.prompt = q.prompt
    BY <2>1
  <2> QED
    BY <2>1, <2>2, <2>3, PromptShares
<1>3. \A o \in observations : o.prompt \in Range(Prompts) /\ o \in Own(o.prompt)
  BY SightingIs DEF Of
<1> HIDE DEF Own, Part, tracks
<1>4. \A track : \A o : o \in Range(track.observations) <=> Holds(track, o)
  BY DEF Range, Holds
<1>5. ASSUME NEW track \in tracks
      PROVE  \E prompt \in Range(Prompts) : track \in Part(prompt) /\ \A o : Holds(track, o) => o \in Own(prompt)
  <2>1. PICK prompt \in Range(Prompts) : track \in Part(prompt)
    BY <1>1
  <2>2. track.observations \in Seq(Own(prompt))
    BY <1>2, <2>1 DEF Tracked
  <2>3. \A o : Holds(track, o) => o \in Own(prompt)
    BY <2>2 DEF Holds
  <2> QED
    BY <2>1, <2>3
<1>6. ASSUME NEW o \in observations
      PROVE  Cardinality({ track \in tracks : o \in Range(track.observations) }) = 1
  <2>1. PICK track \in Part(o.prompt) : Holds(track, o)
    BY <1>2, <1>3 DEF SharedOut
  <2>2. track \in tracks
    BY <1>1, <1>3
  <2>3. ASSUME NEW u \in tracks, Holds(u, o)
        PROVE  u = track
    <3>1. PICK prompt \in Range(Prompts) : u \in Part(prompt) /\ o \in Own(prompt)
      BY <1>5, <2>3
    <3>2. prompt = o.prompt
      BY <1>2, <3>1
    <3> QED
      BY <1>2, <1>3, <2>1, <2>3, <3>1, <3>2 DEF SharedOut
  <2>4. { u \in tracks : o \in Range(u.observations) } = {track}
    BY <1>4, <2>1, <2>2, <2>3
  <2> QED
    BY <2>4, FS_Singleton
<1>7. ASSUME NEW track \in tracks, NEW n \in 1..(Len(track.observations) - 1)
      PROVE  LET a == track.observations[n]
                 b == track.observations[n + 1]
             IN /\ a.prompt = b.prompt /\ a.frame < b.frame /\ b.frame - a.frame <= MaxGap
                /\ Associable(Distance(a.at, b.at))
  <2>1. PICK prompt \in Range(Prompts) : track \in Part(prompt)
    BY <1>1
  <2> DEFINE s == track.observations
  <2>2. Tracked(track, Own(prompt))
    BY <1>2, <2>1
  <2>3. s \in Seq(Own(prompt)) /\ Follows(s[n], s[n + 1])
    BY <2>2 DEF Tracked
  <2>4. s[n] \in Own(prompt) /\ s[n + 1] \in Own(prompt)
    <3> HIDE DEF s
    <3>1. n \in 1..Len(s) /\ n + 1 \in 1..Len(s)
      BY <2>3 DEF s
    <3> QED
      BY <2>3, <3>1
  <2>5. s[n].prompt = s[n + 1].prompt
    BY <1>2, <2>4
  <2> QED
    BY <2>3, <2>5 DEF Follows
<1>8. ShareOut(tracks, observations)
  BY <1>6, <1>7 DEF ShareOut
<1> QED
  BY <1>8 DEF tracks

-----------------------------------------------------------------------------
(* DemonstrationEvidence: what the grounding of a video leaves at every    *)
(* moment.                                                                 *)

Asked == (1..Frames) \X Range(Prompts)
Sighted(observations) == observations \in SUBSET Sightings /\ IsFiniteSet(observations)

Filmed ==
  /\ scene \in Scenes /\ Handed
  /\ job.todo \in Seq(Asked)
  /\ Sighted(job.observations) /\ Sighted(evidence.observations)
  /\ job.name = "enriching" => Matchable(job.tracks, evidence.observations)
  /\ ShareOut(evidence.tracks, evidence.observations)
  /\ Linked(dense.links)

(* The requests are pairs of a frame and a prompt.                         *)
LEMMA RequestsAsked == Requests \in Seq(Asked)
<1> DEFINE n == Len(Prompts)
           m == Frames * n
           Ask(i) == << ((i - 1) \div n) + 1, Prompts[((i - 1) % n) + 1] >>
<1>1. Prompts \in Seq(STRING) /\ Frames \in Nat \ {0}
  BY EvidenceAssumption, FilesAssumption DEF EvidenceAssumption, FilesAssumption
<1>2. n \in Nat /\ DOMAIN Prompts = 1..n
  BY <1>1
<1> HIDE DEF n
<1>3. m \in Nat
  BY <1>1, <1>2
<1>4. ASSUME NEW i \in 1..m
      PROVE  Ask(i) \in Asked
  <2>1. n # 0
    BY <1>1, <1>3, <1>4
  <2>2. (i - 1) % n \in 0..(n - 1)
    BY <1>2, <1>3, <2>1
  <2>3. (i - 1) \div n \in 0..(Frames - 1)
    <3> DEFINE d == (i - 1) \div n
    <3>1. d \in Nat /\ i - 1 = d * n + ((i - 1) % n)
      BY <1>2, <1>3, <2>1
    <3>2. d * n <= i - 1
      BY <3>1, <2>2, <1>2
    <3>3. i - 1 < Frames * n
      BY <1>3, <1>2, <1>1
    <3>4. ~(d >= Frames)
      <4> SUFFICES ASSUME d >= Frames PROVE FALSE
        OBVIOUS
      <4> HIDE DEF d
      <4>1. d * n >= Frames * n
        BY <1>1, <1>2, <3>1
      <4> QED
        BY <1>1, <1>2, <1>3, <3>1, <3>2, <3>3, <4>1
    <3> HIDE DEF d
    <3> QED
      BY <1>1, <3>1, <3>4 DEF d
  <2>4. ((i - 1) % n) + 1 \in DOMAIN Prompts
    BY <1>2, <2>1, <2>2
  <2>5. Prompts[((i - 1) % n) + 1] \in Range(Prompts)
    BY <2>4 DEF Range
  <2>6. ((i - 1) \div n) + 1 \in 1..Frames
    BY <2>3, <1>1
  <2> QED
    BY <2>5, <2>6 DEF Asked
<1>5. Requests = [i \in 1..m |-> Ask(i)]
  BY DEF Requests, n
<1> HIDE DEF m, Ask
<1> QED
  BY <1>3, <1>4, <1>5

(* An answer is about the scene.                                           *)
LEMMA DetectedSighted ==
  ASSUME scene \in Scenes, NEW request \in Asked
  PROVE  Sighted(Detected(request[1], request[2]))
<1> DEFINE frame == request[1]
           prompt == request[2]
           found == scene[frame][prompt]
           Sight(i) == [frame |-> frame, prompt |-> prompt, index |-> i, at |-> found[i].at, mask |-> found[i].mask]
           f == [i \in DOMAIN found |-> Sight(i)]
<1>1. frame \in 1..Frames /\ prompt \in Range(Prompts)
  BY DEF Asked
<1>2. Detected(frame, prompt) \in SUBSET Sightings
  BY <1>1 DEF Sightings
<1>3. found \in Seq(Detection)
  BY <1>1, ScenesAssumption DEF ScenesAssumption
<1>4. IsFiniteSet(DOMAIN found)
  <2> HIDE DEF found
  <2>1. DOMAIN found = 1..Len(found) /\ Len(found) \in Nat
    BY <1>3
  <2> QED
    BY <2>1, FS_Interval
<1>5. Detected(frame, prompt) = { f[i] : i \in DOMAIN found }
  BY DEF Detected
<1>6. DOMAIN f = DOMAIN found
  OBVIOUS
<1>7. IsFiniteSet({ f[i] : i \in DOMAIN found })
  <2> HIDE DEF f, found
  <2> QED
    BY <1>4, <1>6, ImageFinite, Zenon
<1> QED
  BY <1>2, <1>5, <1>7 DEF Sighted

LEMMA FilmedInit ==
  ASSUME EvidenceInit
  PROVE  Filmed
<1>1. Sighted({}) /\ ShareOut({}, {}) /\ Linked({})
  BY FS_EmptySet DEF Sighted, ShareOut, Linked
<1> QED
  BY <1>1 DEF EvidenceInit, Filmed, Handed, NoJob, NoDense, NoEvidence

(* A command starts with nothing in hand but the requests.                 *)
LEMMA Started ==
  ASSUME NEW name, job' = [NoJob EXCEPT !.name = name], name # "enriching" 
  PROVE  /\ Handed' /\ job'.name # "enriching" /\ job'.todo \in Seq(Asked)
         /\ job'.observations = {}
<1> DEFINE asked == Asked
<1>1. job'.name = name /\ job'.todo = <<>> /\ job'.observations = {} /\ Handed'
  BY DEF NoJob, Handed
<1> HIDE DEF asked
<1>2. <<>> \in Seq(asked)
  OBVIOUS
<1> QED
  BY <1>1, <1>2 DEF asked

(* A command that ends leaves nothing in hand.                             *)
LEMMA SameVideo ==
  ASSUME UNCHANGED scene
  PROVE  Sightings' = Sightings
BY DEF Sightings, Detected

(* The invariant, spelt out for the next state.                            *)
LEMMA FilmedThen ==
  ASSUME Filmed, UNCHANGED scene, Handed',
         job'.todo \in Seq(Asked), Sighted(job'.observations), Sighted(evidence'.observations),
         job'.name = "enriching" => Matchable(job'.tracks, evidence'.observations),
         ShareOut(evidence'.tracks, evidence'.observations), Linked(dense'.links)
  PROVE  Filmed'
BY SameVideo DEF Filmed, Sighted

LEMMA NothingInHand ==
  ASSUME Filmed, job' = NoJob \/ (job' = job /\ UNCHANGED evidence), UNCHANGED scene,
         Sighted(evidence'.observations), ShareOut(evidence'.tracks, evidence'.observations), Linked(dense'.links)
  PROVE  Filmed'
<1>1. Sighted({})
  BY FS_EmptySet DEF Sighted
<1>2. CASE job' = NoJob
  <2>1. /\ Handed' /\ job'.todo \in Seq(Asked) /\ Sighted(job'.observations) /\ job'.name # "enriching"
    BY <1>1, <1>2 DEF Handed, NoJob
  <2> QED
    BY <2>1, FilmedThen
<1>3. CASE job' = job /\ UNCHANGED evidence
  <2>1. /\ Handed' /\ job'.todo \in Seq(Asked) /\ Sighted(job'.observations)
        /\ job'.name = "enriching" => Matchable(job'.tracks, evidence'.observations)
    BY <1>3 DEF Filmed, Handed
  <2> QED
    BY <2>1, FilmedThen
<1> QED
  BY <1>2, <1>3

(* So does one that only goes on to something else.                        *)
LEMMA OtherInHand ==
  ASSUME Filmed, UNCHANGED <<scene, evidence, dense>>, Handed', job'.name # "enriching",
         job'.todo \in Seq(Asked), Sighted(job'.observations)
  PROVE  Filmed'
BY FilmedThen DEF Filmed

(* No step of any command, and no interruption, leaves it.                 *)
LEMMA FilmedStep ==
  ASSUME Filmed, [EvidenceNext]_evidenceVars
  PROVE  Filmed'
<1>0. Sighted({})
  BY FS_EmptySet DEF Sighted
<1>1. ASSUME NEW keepGoing \in BOOLEAN, StartExtract(keepGoing)
      PROVE  Filmed'
  <2>1. job' = [NoJob EXCEPT !.name = "extract", !.keepGoing = keepGoing, !.todo = Requests]
    BY <1>1 DEF StartExtract
  <2>2. /\ Handed' /\ job'.name # "enriching" /\ job'.todo \in Seq(Asked) /\ job'.observations = {}
    BY <2>1, RequestsAsked DEF Handed, NoJob
  <2>3. UNCHANGED <<scene, evidence, dense>>
    BY <1>1 DEF StartExtract, files
  <2> QED
    BY <1>0, <2>2, <2>3, OtherInHand
<1>2. CASE GroundFrame
  <2> DEFINE found == Detected(Head(job.todo)[1], Head(job.todo)[2])
  <2>1. job.name = "extract" /\ job.todo # <<>> /\ UNCHANGED <<scene, evidence, dense>>
    BY <1>2 DEF GroundFrame, files, Working
  <2>2. job' = NoJob \/ job' = [job EXCEPT !.todo = Tail(@), !.tries = 0, !.observations = @ \cup found]
    BY <1>2 DEF GroundFrame
  <2>3. CASE job' = NoJob
    BY <2>1, <2>3, NothingInHand DEF Filmed
  <2>4. CASE job' = [job EXCEPT !.todo = Tail(@), !.tries = 0, !.observations = @ \cup found]
    <3>1. Head(job.todo) \in Asked /\ Tail(job.todo) \in Seq(Asked)
      BY <2>1 DEF Filmed
    <3>2. Sighted(found)
      BY <3>1, DetectedSighted DEF Filmed
    <3>3. Sighted(job.observations \cup found)
      <4> HIDE DEF found
      <4> QED
        BY <3>2, FS_Union DEF Filmed, Sighted
    <3> HIDE DEF found
    <3>4. /\ Handed' /\ job'.name # "enriching" /\ job'.todo = Tail(job.todo)
          /\ job'.observations = job.observations \cup found
      BY <2>1, <2>4 DEF Filmed, Handed
    <3> QED
      BY <2>1, <3>1, <3>3, <3>4, OtherInHand
  <2> QED
    BY <2>2, <2>3, <2>4
<1>3. CASE GroundingFails
  <2>1. job.name = "extract" /\ job.todo # <<>> /\ UNCHANGED <<scene, evidence, dense>>
    BY <1>3 DEF GroundingFails, files, Working
  <2>2. \/ job' = NoJob
        \/ job' = [job EXCEPT !.tries = @ + 1]
        \/ job' = [job EXCEPT !.todo = Tail(@), !.tries = 0, !.errors = @ \cup {Head(job.todo)}]
    BY <1>3 DEF GroundingFails
  <2>3. CASE job' = NoJob
    BY <2>1, <2>3, NothingInHand DEF Filmed
  <2>4. CASE job' # NoJob
    <3>1. /\ Handed' /\ job'.name # "enriching" /\ job'.todo \in {job.todo, Tail(job.todo)}
          /\ job'.observations = job.observations
      BY <2>1, <2>2, <2>4 DEF Filmed, Handed
    <3>2. job.todo \in Seq(Asked) /\ Tail(job.todo) \in Seq(Asked) /\ Sighted(job.observations)
      BY <2>1 DEF Filmed
    <3> QED
      BY <2>1, <3>1, <3>2, OtherInHand
  <2> QED
    BY <2>3, <2>4
<1>4. CASE WriteEvidence
  <2>1. /\ job' = NoJob /\ UNCHANGED <<scene, dense>>
        /\ evidence'.observations = job.observations
        /\ evidence'.tracks = LinkDetectionTracklets(job.observations, Frames)
    BY <1>4 DEF WriteEvidence
  <2>2. Sighted(job.observations)
    BY DEF Filmed
  <2>3. ShareOut(LinkDetectionTracklets(job.observations, Frames), job.observations)
    BY <2>2, TracksShareOut DEF Filmed, Sighted
  <2> QED
    BY <2>1, <2>2, <2>3, NothingInHand DEF Filmed
<1>5. CASE StartEnrich
  <2>1. UNCHANGED <<scene, evidence, dense>> /\ (job' = NoJob \/ job' = [NoJob EXCEPT !.name = "enrich"])
    BY <1>5 DEF StartEnrich, files
  <2>2. Handed' /\ job'.name # "enriching" /\ job'.todo \in Seq(Asked) /\ job'.observations = {}
    <3>1. NoJob = [NoJob EXCEPT !.name = "none"]
      BY DEF NoJob
    <3> QED
      BY <2>1, <3>1, Started
  <2> QED
    BY <1>0, <2>1, <2>2, OtherInHand
<1>6. ASSUME NEW transient \in BOOLEAN, TrackingFails(transient)
      PROVE  Filmed'
  <2>1. UNCHANGED <<scene, evidence, dense>> /\ job.name = "enrich"
    BY <1>6 DEF TrackingFails, files, Working
  <2>2. job' = NoJob \/ job' = [job EXCEPT !.tries = @ + 1]
    BY <1>6 DEF TrackingFails
  <2>3. CASE job' = NoJob
    BY <2>1, <2>3, NothingInHand DEF Filmed
  <2>4. CASE job' = [job EXCEPT !.tries = @ + 1]
    <3>1. Handed' /\ job'.name # "enriching" /\ job'.todo = job.todo /\ job'.observations = job.observations
      BY <2>1, <2>4 DEF Filmed, Handed
    <3> QED
      BY <2>1, <3>1, OtherInHand DEF Filmed
  <2> QED
    BY <2>2, <2>3, <2>4
<1>7. CASE WriteArtifacts
  <2>1. UNCHANGED <<scene, evidence, dense>>
    BY <1>7 DEF WriteArtifacts
  <2>2. PICK tracks : /\ Readable(tracks, Queried(evidence.observations))
                      /\ job' = [NoJob EXCEPT !.name = "enriching", !.tracks = DenseFrames(tracks)]
    BY <1>7 DEF WriteArtifacts
  <2>3. Matchable(DenseFrames(tracks), evidence.observations)
    <3>1. DOMAIN DenseFrames(tracks) = DOMAIN tracks
      BY DEF DenseFrames
    <3>2. \A object \in DOMAIN tracks : DenseFrames(tracks)[object] \in Seq(Int)
      BY <2>2, <3>1, ReadableShape DEF Shaped
    <3>3. ASSUME NEW object \in DOMAIN tracks
          PROVE  DenseFrames(tracks)[object] # <<>>
      <4>1. tracks[object] \in Seq([at : Nat, seen : 0..Points]) /\ tracks[object] # <<>>
        BY <2>2 DEF Readable
      <4>2. DOMAIN DenseFrames(tracks)[object] = DOMAIN tracks[object]
        BY DEF DenseFrames
      <4>3. DOMAIN tracks[object] # {}
        <5> DEFINE Read == [at : Nat, seen : 0..Points]
                   track == tracks[object]
        <5>1. track \in Seq(Read) /\ track # <<>>
          BY <4>1
        <5> HIDE DEF Read, track
        <5>2. Len(track) \in Nat /\ Len(track) # 0 /\ DOMAIN track = 1..Len(track)
          BY <5>1
        <5>3. 1 \in DOMAIN track
          BY <5>2
        <5> QED
          BY <5>3 DEF track
      <4> QED
        BY <4>2, <4>3
    <3> QED
      BY <2>2, <3>1, <3>2, <3>3 DEF Matchable, Readable
  <2>4. /\ Handed' /\ job'.todo \in Seq(Asked) /\ job'.observations = {}
        /\ job'.tracks = DenseFrames(tracks)
    <3> DEFINE asked == Asked
               centres == DenseFrames(tracks)
    <3> HIDE DEF asked, centres
    <3>1. job' = [NoJob EXCEPT !.name = "enriching", !.tracks = centres]
      BY <2>2 DEF centres
    <3>2. Handed' /\ job'.todo = <<>> /\ job'.observations = {} /\ job'.tracks = centres
      BY <3>1 DEF Handed, NoJob
    <3>3. <<>> \in Seq(asked)
      OBVIOUS
    <3> QED
      BY <3>2, <3>3 DEF asked, centres
  <2> QED
    BY <1>0, <2>1, <2>3, <2>4, FilmedThen DEF Filmed
<1>8. CASE WriteDense
  <2>1. /\ job.name = "enriching" /\ job' = NoJob /\ UNCHANGED <<scene, evidence>>
        /\ dense'.links = AssociateSparseObservations(evidence.observations, Frames, job.tracks)
    BY <1>8 DEF WriteDense, Working
  <2>2. Linked(AssociateSparseObservations(evidence.observations, Frames, job.tracks))
    BY <2>1, AllLinks DEF Filmed, Sighted
  <2> QED
    BY <2>1, <2>2, NothingInHand DEF Filmed
<1>9. CASE ExportBundle
  BY <1>9, NothingInHand DEF ExportBundle, Filmed
<1>10. ASSUME NEW guided \in BOOLEAN, StartStructure(guided)
       PROVE  Filmed'
  <2>1. UNCHANGED <<scene, evidence, dense>> /\ (job' = NoJob \/ job' = [NoJob EXCEPT !.name = "structure"])
    BY <1>10 DEF StartStructure, files
  <2>2. Handed' /\ job'.name # "enriching" /\ job'.todo \in Seq(Asked) /\ job'.observations = {}
    <3>1. NoJob = [NoJob EXCEPT !.name = "none"]
      BY DEF NoJob
    <3> QED
      BY <2>1, <3>1, Started
  <2> QED
    BY <1>0, <2>1, <2>2, OtherInHand
<1>11. CASE WriteStructure
  BY <1>11, NothingInHand DEF WriteStructure, Filmed
<1>12. CASE Resegment
  BY <1>12, NothingInHand DEF Resegment, files, Filmed
<1>13. CASE GiveUpJob
  BY <1>13, NothingInHand DEF GiveUpJob, files, Filmed
<1>14. CASE UNCHANGED evidenceVars
  BY <1>14, NothingInHand DEF evidenceVars, files, Filmed
<1> QED
  BY <1>1, <1>2, <1>3, <1>4, <1>5, <1>6, <1>7, <1>8, <1>9, <1>10, <1>11, <1>12, <1>13, <1>14
  DEF EvidenceNext

LEMMA FilmedAlways == EvidenceSpec => []Filmed
  BY FilmedInit, FilmedStep, PTL DEF EvidenceSpec

(* However the frames are grounded and the tracklets of any video linked:  *)
(* every observation is in one of them, and none jumps.                    *)
THEOREM TrackletsAreShared == EvidenceSpec => []TrackletsShareOut
<1>1. Filmed => TrackletsShareOut
  BY DEF Filmed, ShareOut, TrackletsShareOut
<1> QED
  BY <1>1, FilmedAlways, PTL

(* Whatever the tracker answers: no two observations of a frame are linked *)
(* to one object, and none to two.                                         *)
THEOREM LinksHold == EvidenceSpec => []LinksAreOneToOne
<1>1. Filmed => LinksAreOneToOne
  BY DEF Filmed, Linked, LinksAreOneToOne
<1> QED
  BY <1>1, FilmedAlways, PTL

-----------------------------------------------------------------------------
(* DemonstrationEvidence: the structure written down from any answer can   *)
(* be followed.                                                            *)

(* What is written of an answer.                                           *)
Placed(instance, duration) ==
  /\ 0 <= instance.from /\ instance.from <= instance.to /\ instance.to <= Rounded(duration)
  /\ \A phase \in Range(instance.phases) :
       instance.from <= phase.from /\ phase.from <= phase.to /\ phase.to <= instance.to

(* Rounding keeps the order of times, though not that they differ.         *)
LEMMA RoundedInOrder ==
  ASSUME NEW s \in Nat, NEW t \in Nat, s <= t
  PROVE  Rounded(s) \in Nat /\ Rounded(t) \in Nat /\ Rounded(s) <= Rounded(t)
<1> DEFINE a == s \div TicksPerMs
           b == t \div TicksPerMs
           x == s % TicksPerMs
           y == t % TicksPerMs
<1>1. TicksPerMs \in Nat \ {0}
  BY TicksAssumption DEF TicksAssumption
<1>2. /\ a \in Nat /\ b \in Nat /\ x \in 0..(TicksPerMs - 1) /\ y \in 0..(TicksPerMs - 1)
      /\ s = TicksPerMs * a + x /\ t = TicksPerMs * b + y
  BY <1>1, Z3
<1>3. Rounded(s) = IF 2 * x > TicksPerMs \/ (2 * x = TicksPerMs /\ a % 2 = 1) THEN a + 1 ELSE a
  BY DEF Rounded
<1>4. Rounded(t) = IF 2 * y > TicksPerMs \/ (2 * y = TicksPerMs /\ b % 2 = 1) THEN b + 1 ELSE b
  BY DEF Rounded
<1> HIDE DEF a, b, x, y
<1>5. a <= b
  <2> SUFFICES ASSUME a >= b + 1 PROVE FALSE
    BY <1>2
  <2>1. TicksPerMs * a >= TicksPerMs * (b + 1)
    BY <1>1, <1>2, Z3
  <2>2. TicksPerMs * (b + 1) = TicksPerMs * b + TicksPerMs
    BY <1>1, <1>2, Z3
  <2> QED
    BY <1>1, <1>2, <2>1, <2>2
<1>6. CASE a = b
  <2>1. x <= y
    BY <1>1, <1>2, <1>6
  <2>2. 2 * x <= 2 * y
    BY <1>1, <1>2, <2>1
  <2> QED
    BY <1>1, <1>2, <1>3, <1>4, <1>6, <2>2
<1>7. CASE a < b
  BY <1>1, <1>2, <1>3, <1>4, <1>7
<1> QED
  BY <1>2, <1>5, <1>6, <1>7

(* Every time is brought into the video.                                   *)
LEMMA TimeClamped ==
  ASSUME NEW t \in Int, NEW duration \in Nat
  PROVE  ClampTime(t, duration) \in 0..duration
<1>1. Max({0, t}) = IF 0 >= t THEN 0 ELSE t
  BY MaxOfTwo
<1>2. Min({Max({0, t}), duration}) = IF Max({0, t}) <= duration THEN Max({0, t}) ELSE duration
  BY <1>1, MinOfTwo
<1> QED
  BY <1>1, <1>2 DEF ClampTime

(* A window is clamped at both ends and keeps its names.                   *)
LEMMA InstanceClamped ==
  ASSUME NEW instance \in OperationInstance, NEW duration \in Nat
  PROVE  LET window == WithinVideo(instance, duration)
             written == Written(window)
         IN /\ window.from \in 0..duration /\ window.to \in 0..duration
            /\ written.from = Rounded(window.from) /\ written.to = Rounded(window.to)
            /\ DOMAIN written = {"id", "ref", "from", "to", "phases"}
            /\ written.id = instance.id /\ written.ref = instance.ref
<1>1. instance.from \in Int /\ instance.to \in Int
  BY DEF OperationInstance
<1>2. /\ ClampTime(instance.from, duration) \in 0..duration
      /\ ClampTime(instance.to, duration) \in 0..duration
  BY <1>1, TimeClamped, Zenon
<1> QED
  BY <1>2 DEF WithinVideo, Written, OperationInstance

LEMMA PhaseClamped ==
  ASSUME NEW phase \in ObservedOperationPhase, NEW duration \in Nat
  PROVE  LET window == WithinVideo(phase, duration) IN
         /\ window.from \in 0..duration /\ window.to \in 0..duration
         /\ DOMAIN window = {"ref", "from", "to"}
<1>1. phase.from \in Int /\ phase.to \in Int
  BY DEF ObservedOperationPhase
<1>2. /\ ClampTime(phase.from, duration) \in 0..duration
      /\ ClampTime(phase.to, duration) \in 0..duration
  BY <1>1, TimeClamped, Zenon
<1> QED
  BY <1>2 DEF WithinVideo, ObservedOperationPhase

(* Phases are cut to their instance; what has no length is dropped, and    *)
(* what is left stays inside the instance when both are rounded.           *)
LEMMA PhasesInside ==
  ASSUME NEW instance \in OperationInstance, NEW duration \in Nat
  PROVE  LET window == WithinVideo(instance, duration) IN
         \A phase \in Range(NormalizePhases(instance, duration)) :
           Rounded(window.from) <= phase.from /\ phase.from <= phase.to /\ phase.to <= Rounded(window.to)
<1> DEFINE window == WithinVideo(instance, duration)
           cut == [i \in DOMAIN instance.phases |-> WithinInstance(WithinVideo(instance.phases[i], duration), window)]
           kept == { i \in DOMAIN cut : Lasts(cut[i]) }
           list == Chosen(cut, kept)
           rounded == [i \in DOMAIN list |-> Written(list[i])]
           phases == NormalizePhases(instance, duration)
           Fields(phase) == DOMAIN phase = {"ref", "from", "to"}
           Whole(phase) == /\ Fields(phase) /\ phase.from \in Nat /\ phase.to \in Nat
                           /\ window.from <= phase.from /\ phase.from < phase.to /\ phase.to <= window.to
           InTheInstance(phase) ==
             /\ phase.from \in Nat /\ phase.to \in Nat
             /\ Rounded(window.from) <= phase.from /\ phase.from <= phase.to /\ phase.to <= Rounded(window.to)
<1>0. window.from \in Nat /\ window.to \in Nat
  <2>1. window.from \in 0..duration /\ window.to \in 0..duration
    BY InstanceClamped
  <2> QED
    BY <2>1
<1>1. instance.phases \in Seq(ObservedOperationPhase)
  BY DEF OperationInstance
<1>2. /\ DOMAIN instance.phases \in SUBSET Nat /\ IsFiniteSet(DOMAIN instance.phases)
      /\ \A i \in DOMAIN instance.phases : instance.phases[i] \in ObservedOperationPhase
  BY <1>1, ListPlaces
<1>3. phases = InTime(rounded)
  BY DEF NormalizePhases
<1>4. DOMAIN cut = DOMAIN instance.phases
  OBVIOUS
<1> HIDE DEF window, phases, rounded, list
<1>5. ASSUME NEW i \in DOMAIN instance.phases
      PROVE  /\ Fields(cut[i]) /\ cut[i].from \in Nat /\ cut[i].to \in Nat
             /\ window.from <= cut[i].from /\ cut[i].to <= window.to
  <2> DEFINE phase == WithinVideo(instance.phases[i], duration)
  <2>1. phase.from \in Nat /\ phase.to \in Nat /\ Fields(phase)
    <3>1. instance.phases[i] \in ObservedOperationPhase
      BY <1>2
    <3>2. /\ phase.from \in 0..duration /\ phase.to \in 0..duration
          /\ DOMAIN phase = {"ref", "from", "to"}
      BY <3>1, PhaseClamped
    <3> HIDE DEF phase
    <3> QED
      BY <3>2
  <2>2. cut[i] = WithinInstance(phase, window)
    OBVIOUS
  <2> HIDE DEF phase, cut
  <2>3. cut[i].from = Max({window.from, phase.from}) /\ cut[i].to = Min({window.to, phase.to}) /\ Fields(cut[i])
    BY <2>1, <2>2 DEF WithinInstance
  <2>4. Max({window.from, phase.from}) = IF window.from >= phase.from THEN window.from ELSE phase.from
    BY <1>0, <2>1, MaxOfTwo
  <2>5. Min({window.to, phase.to}) = IF window.to <= phase.to THEN window.to ELSE phase.to
    BY <1>0, <2>1, MinOfTwo
  <2> QED
    BY <1>0, <2>1, <2>3, <2>4, <2>5
<1> HIDE DEF cut, Fields
<1>6. kept \in SUBSET Nat /\ IsFiniteSet(kept)
  BY <1>2, <1>4, SomePlaces
<1>7. \A i \in kept : Whole(cut[i])
  BY <1>4, <1>5 DEF Lasts
<1> HIDE DEF kept, Whole
<1>8. Picked(list, cut, kept)
  BY <1>6, ChosenPicks DEF list
<1>9. DOMAIN list = 1..Cardinality(kept) /\ Cardinality(kept) \in Nat
  BY <1>6, <1>8, PickedLength
<1>10. \A n \in DOMAIN list : Whole(list[n])
  BY <1>7, <1>8, <1>9 DEF Picked
<1>11. DOMAIN rounded = DOMAIN list /\ \A n \in DOMAIN list : rounded[n] = Written(list[n])
  BY DEF rounded
<1>12. ASSUME NEW n \in DOMAIN rounded
       PROVE  InTheInstance(rounded[n])
  <2> DEFINE phase == list[n]
  <2>1. Whole(phase) /\ rounded[n] = Written(phase)
    BY <1>10, <1>11
  <2> HIDE DEF phase
  <2>2. rounded[n].from = Rounded(phase.from) /\ rounded[n].to = Rounded(phase.to)
    BY <2>1 DEF Written, Whole, Fields
  <2>3. /\ phase.from \in Nat /\ phase.to \in Nat /\ phase.from <= phase.to
        /\ window.from <= phase.from /\ phase.to <= window.to
    BY <2>1 DEF Whole
  <2>4. Rounded(window.from) <= Rounded(phase.from) /\ Rounded(phase.from) \in Nat
    BY <1>0, <2>3, RoundedInOrder
  <2>5. Rounded(phase.from) <= Rounded(phase.to) /\ Rounded(phase.to) \in Nat
    BY <2>3, RoundedInOrder
  <2>6. Rounded(phase.to) <= Rounded(window.to)
    BY <1>0, <2>3, RoundedInOrder
  <2> QED
    BY <2>2, <2>4, <2>5, <2>6
<1> HIDE DEF InTheInstance
<1>13. DOMAIN rounded \in SUBSET Nat /\ IsFiniteSet(DOMAIN rounded)
  BY <1>9, <1>11, FS_Interval
<1>14. \A n \in DOMAIN rounded : rounded[n].from \in Int /\ rounded[n].to \in Int
  BY <1>12 DEF InTheInstance
<1>15. Picked(phases, rounded, DOMAIN rounded)
  BY <1>3, <1>13, <1>14, InTimePicks
<1>16. DOMAIN phases = 1..Cardinality(DOMAIN rounded)
  BY <1>13, <1>15, PickedLength
<1>17. ASSUME NEW phase \in Range(phases)
       PROVE  InTheInstance(phase)
  <2>1. PICK n \in DOMAIN phases : phase = phases[n]
    BY DEF Range
  <2> QED
    BY <1>12, <1>15, <1>16, <2>1 DEF Picked
<1> QED
  BY <1>17 DEF InTheInstance, phases, window

(* An instance that lasts is placed, and so are its phases; its names stay *)
(* what they were.                                                         *)
LEMMA InstanceNormalized ==
  ASSUME NEW instance \in OperationInstance, NEW duration \in Nat,
         Lasts(WithinVideo(instance, duration)),
         NEW after, after = NormalizeInstance(instance, duration)
  PROVE  /\ after.id = instance.id /\ after.ref = instance.ref
         /\ after.from \in Int /\ after.to \in Int
         /\ Placed(after, duration)
<1> DEFINE window == WithinVideo(instance, duration)
           phases == NormalizePhases(instance, duration)
           written == Written(window)
<1>1. /\ window.from \in 0..duration /\ window.to \in 0..duration
      /\ written.from = Rounded(window.from) /\ written.to = Rounded(window.to)
      /\ DOMAIN written = {"id", "ref", "from", "to", "phases"}
      /\ written.id = instance.id /\ written.ref = instance.ref
  BY InstanceClamped
<1>2. after = [written EXCEPT !.phases = phases] /\ window.from < window.to
  BY DEF NormalizeInstance, Lasts
<1>3. \A phase \in Range(phases) :
        Rounded(window.from) <= phase.from /\ phase.from <= phase.to /\ phase.to <= Rounded(window.to)
  BY PhasesInside
<1> HIDE DEF window, phases, written
<1>4. /\ after.from = Rounded(window.from) /\ after.to = Rounded(window.to) /\ after.phases = phases
      /\ after.id = instance.id /\ after.ref = instance.ref
  BY <1>1, <1>2
<1>5. window.from \in Nat /\ window.to \in Nat /\ window.from <= window.to /\ window.to <= duration
  BY <1>1, <1>2
<1>6. Rounded(window.from) \in Nat /\ Rounded(window.to) \in Nat /\ Rounded(window.from) <= Rounded(window.to)
  BY <1>5, RoundedInOrder
<1>7. Rounded(window.to) <= Rounded(duration)
  BY <1>5, RoundedInOrder
<1> QED
  BY <1>3, <1>4, <1>6, <1>7 DEF Placed

(* The first of each id: each id once, and every id there was.             *)
LEMMA FirstsPicked ==
  ASSUME NEW items, NEW places \in SUBSET Nat, IsFiniteSet(places)
  PROVE  /\ Picked(FirstOfEach(items, places), items, Firsts(items, places))
         /\ IsFiniteSet(Firsts(items, places))
         /\ \A i, j \in Firsts(items, places) : i # j => items[i].id # items[j].id
         /\ \A i \in places : \E j \in Firsts(items, places) : items[j].id = items[i].id
<1>1. Firsts(items, places) \in SUBSET places
  BY DEF Firsts
<1>2. Firsts(items, places) \in SUBSET Nat /\ IsFiniteSet(Firsts(items, places))
  BY <1>1, SomePlaces
<1>3. Picked(FirstOfEach(items, places), items, Firsts(items, places))
  BY <1>2, ChosenPicks DEF FirstOfEach
<1>4. ASSUME NEW i \in Firsts(items, places), NEW j \in Firsts(items, places), i # j
      PROVE  items[i].id # items[j].id
  <2>1. i \in Nat /\ j \in Nat /\ i \in places /\ j \in places
    BY <1>1
  <2>2. i < j \/ j < i
    BY <2>1, <1>4
  <2> QED
    BY <2>1, <2>2 DEF Firsts
<1>5. ASSUME NEW i \in places
      PROVE  \E j \in Firsts(items, places) : items[j].id = items[i].id
  <2> DEFINE Same == { j \in places : items[j].id = items[i].id }
  <2>1. Same \in SUBSET Nat /\ Same # {}
    OBVIOUS
  <2>2. PICK j \in Same : \A k \in Same : j <= k
    BY <2>1, Least, Zenon
  <2>3. j \in Firsts(items, places)
    <3>1. ASSUME NEW k \in places, k < j
          PROVE  items[k].id # items[j].id
      <4>1. ~(j <= k)
        BY <3>1
      <4> QED
        BY <4>1, <2>2
    <3> QED
      BY <3>1 DEF Firsts
  <2> QED
    BY <2>3
<1> QED
  BY <1>2, <1>3, <1>4, <1>5

(* A structure that can be followed.                                       *)
Kept(instances, ids, duration) ==
  /\ \A i \in DOMAIN instances : instances[i].ref \in ids /\ Placed(instances[i], duration)
  /\ \A i, j \in DOMAIN instances : i # j => instances[i].id # instances[j].id

Closed(given, duration) ==
  /\ Kept(given.instances, { p.id : p \in Range(given.procedures) }, duration)
  /\ Range(given.sequence) \subseteq { instance.id : instance \in Range(given.instances) }
  /\ Len(given.sequence) = Len(given.instances)

(* The instances that are kept refer to known procedures and have a name   *)
(* each.                                                                   *)
LEMMA InstancesKept ==
  ASSUME NEW answer \in OperationStructureResponse, NEW duration \in Nat
  PROVE  LET instances == KeepInstances(answer, duration) IN
         /\ Kept(instances, Known(answer), duration)
         /\ \A i \in DOMAIN instances : instances[i].from \in Int /\ instances[i].to \in Int
         /\ \E n \in Nat : DOMAIN instances = 1..n /\ Len(instances) = n
<1> DEFINE all == answer.instances
           good == { i \in Lasting(all, duration) : all[i].ref \in Known(answer) }
           first == Firsts(all, good)
           list == FirstOfEach(all, good)
           instances == KeepInstances(answer, duration)
           Fine(instance) == /\ instance.ref \in Known(answer) /\ Placed(instance, duration)
                             /\ instance.from \in Int /\ instance.to \in Int
<1>1. all \in Seq(OperationInstance)
  BY DEF OperationStructureResponse
<1>2. /\ DOMAIN all \in SUBSET Nat /\ IsFiniteSet(DOMAIN all)
      /\ \A i \in DOMAIN all : all[i] \in OperationInstance
  BY <1>1, ListPlaces
<1>3. DOMAIN instances = DOMAIN list /\ \A i \in DOMAIN list : instances[i] = NormalizeInstance(list[i], duration)
  BY DEF KeepInstances, Normalized
<1>4. instances = [i \in DOMAIN list |-> NormalizeInstance(list[i], duration)]
  BY DEF KeepInstances, Normalized
<1> HIDE DEF all, instances
<1>5. good \in SUBSET Nat /\ IsFiniteSet(good) /\ good \subseteq DOMAIN all
  <2>1. good = { i \in DOMAIN all : Lasts(WithinVideo(all[i], duration)) /\ all[i].ref \in Known(answer) }
    BY DEF Lasting
  <2> HIDE DEF good
  <2> QED
    BY <1>2, <2>1, SomePlaces
<1>6. ASSUME NEW i \in good
      PROVE  LET after == NormalizeInstance(all[i], duration) IN Fine(after) /\ after.id = all[i].id
  <2>1. all[i] \in OperationInstance /\ Lasts(WithinVideo(all[i], duration)) /\ all[i].ref \in Known(answer)
    BY <1>2, <1>5 DEF Lasting
  <2> DEFINE after == NormalizeInstance(all[i], duration)
  <2>2. /\ after.id = all[i].id /\ after.ref = all[i].ref /\ after.from \in Int /\ after.to \in Int
        /\ Placed(after, duration)
    BY <2>1, InstanceNormalized
  <2> QED
    BY <2>1, <2>2
<1> HIDE DEF Fine, good
<1>7. /\ Picked(list, all, first) /\ IsFiniteSet(first)
      /\ \A i, j \in first : i # j => all[i].id # all[j].id
  BY <1>5, FirstsPicked
<1>8. first \subseteq good
  BY DEF Firsts
<1> HIDE DEF first, list
<1>9. DOMAIN list = 1..Cardinality(first) /\ Cardinality(first) \in Nat /\ Len(list) = Cardinality(first)
  BY <1>7, PickedLength
<1>10. Len(instances) = Cardinality(first)
  BY <1>4, <1>9
<1>11. ASSUME NEW i \in DOMAIN instances
       PROVE  Fine(instances[i]) /\ instances[i].id = list[i].id
  <2>1. i \in 1..Cardinality(first) /\ instances[i] = NormalizeInstance(list[i], duration)
    BY <1>3, <1>9
  <2>2. PICK p \in first : list[i] = all[p]
    BY <1>7, <2>1 DEF Picked
  <2> QED
    BY <1>6, <1>8, <2>1, <2>2
<1>12. \A i, j \in DOMAIN instances : i # j => instances[i].id # instances[j].id
  <2> SUFFICES ASSUME NEW i \in DOMAIN instances, NEW j \in DOMAIN instances, i # j
               PROVE  instances[i].id # instances[j].id
    OBVIOUS
  <2>1. i \in 1..Cardinality(first) /\ j \in 1..Cardinality(first)
    BY <1>3, <1>9
  <2>2. PICK p \in first, q \in first : p # q /\ list[i] = all[p] /\ list[j] = all[q]
    BY <1>7, <2>1 DEF Picked
  <2> QED
    BY <1>7, <1>11, <2>2
<1>13. Kept(instances, Known(answer), duration)
  BY <1>11, <1>12 DEF Kept, Fine
<1>14. \A i \in DOMAIN instances : instances[i].from \in Int /\ instances[i].to \in Int
  BY <1>11 DEF Fine
<1>15. \E n \in Nat : DOMAIN instances = 1..n /\ Len(instances) = n
  BY <1>3, <1>9, <1>10
<1> QED
  BY <1>13, <1>14, <1>15 DEF instances

(* A procedure that is known is still there when doubles are gone.         *)
LEMMA ProceduresKnown ==
  ASSUME NEW answer \in OperationStructureResponse, NEW id \in Known(answer)
  PROVE  \E p \in Range(FirstOfEach(answer.procedures, DOMAIN answer.procedures)) : p.id = id
<1> DEFINE items == answer.procedures
           places == DOMAIN items
           list == FirstOfEach(items, places)
<1>1. items \in Seq(CanonicalOperationProcedure)
  BY DEF OperationStructureResponse
<1>2. places \in SUBSET Nat /\ IsFiniteSet(places)
  BY <1>1, ListPlaces
<1>3. PICK i \in places : items[i].id = id
  BY DEF Known
<1> HIDE DEF items, places
<1>4. /\ Picked(list, items, Firsts(items, places)) /\ IsFiniteSet(Firsts(items, places))
      /\ \E j \in Firsts(items, places) : items[j].id = items[i].id
  BY <1>2, FirstsPicked
<1> HIDE DEF list
<1>5. PICK j \in Firsts(items, places) : items[j].id = id
  BY <1>3, <1>4
<1>6. DOMAIN list = 1..Cardinality(Firsts(items, places))
  BY <1>4, PickedLength
<1>7. PICK n \in DOMAIN list : list[n] = items[j]
  BY <1>4, <1>6 DEF Picked
<1> QED
  BY <1>5, <1>7 DEF Range, list, items, places

(* The order names the instances, and as many as there are.                *)
LEMMA SequenceNames ==
  ASSUME NEW answer \in OperationStructureResponse, NEW instances, NEW n \in Nat, DOMAIN instances = 1..n,
         \A i \in DOMAIN instances : instances[i].from \in Int /\ instances[i].to \in Int,
         \A i, j \in DOMAIN instances : i # j => instances[i].id # instances[j].id
  PROVE  /\ Range(Sequence(answer, instances)) \subseteq { instance.id : instance \in Range(instances) }
         /\ Len(Sequence(answer, instances)) = n
<1> DEFINE ids   == { instances[i].id : i \in DOMAIN instances }
           chosen == { i \in DOMAIN answer.sequence : answer.sequence[i] \in ids }
           given == Chosen(answer.sequence, chosen)
           timed == InTime(instances)
           named == [i \in DOMAIN timed |-> timed[i].id]
           name == [i \in 1..n |-> instances[i].id]
<1>1. Cardinality(ids) = n
  <2>1. IsFiniteSet(1..n) /\ Cardinality(1..n) = n
    BY FS_Interval
  <2>2. name \in Surjection(1..n, ids)
    BY DEF Surjection
  <2>3. name \in Injection(1..n, ids)
    <3>1. name \in [1..n -> ids]
      OBVIOUS
    <3>2. \A i, j \in 1..n : name[i] = name[j] => i = j
      OBVIOUS
    <3> HIDE DEF ids, name
    <3> QED
      BY <3>1, <3>2 DEF Injection, IsInjective
  <2> HIDE DEF ids, name
  <2>4. Cardinality(ids) = Cardinality(1..n)
    BY <2>1, <2>2, <2>3, FS_Surjection
  <2> QED
    BY <2>1, <2>4
<1>2. ids = { instance.id : instance \in Range(instances) }
  BY DEF Range
<1>3. answer.sequence \in Seq(STRING)
  BY DEF OperationStructureResponse
<1>4. DOMAIN answer.sequence \in SUBSET Nat /\ IsFiniteSet(DOMAIN answer.sequence)
  BY <1>3, ListPlaces
<1>5. chosen \in SUBSET Nat /\ IsFiniteSet(chosen)
  BY <1>4, SomePlaces
<1>6. Picked(given, answer.sequence, chosen)
  BY <1>5, ChosenPicks
<1>7. DOMAIN given = 1..Cardinality(chosen)
  <2> HIDE DEF given, chosen
  <2> QED
    BY <1>5, <1>6, PickedLength
<1>8. Range(given) \subseteq ids
  <2> HIDE DEF given, ids
  <2> QED
    BY <1>6, <1>7 DEF Range, Picked
<1>9. IsFiniteSet(DOMAIN instances) /\ DOMAIN instances \in SUBSET Nat /\ Cardinality(DOMAIN instances) = n
  BY FS_Interval
<1>10. Picked(timed, instances, DOMAIN instances)
  BY <1>9, InTimePicks
<1>11. DOMAIN timed = 1..n
  <2> HIDE DEF timed
  <2> QED
    BY <1>9, <1>10, PickedLength
<1>12. Range(named) \subseteq ids
  <2> HIDE DEF timed
  <2>1. ASSUME NEW i \in 1..n
        PROVE  timed[i].id \in ids
    <3> DEFINE places == DOMAIN instances
    <3> HIDE DEF places, ids
    <3>1. i \in 1..Cardinality(places)
      BY <1>9 DEF places
    <3>2. PICK p \in places : timed[i] = instances[p]
      BY <1>10, <3>1 DEF Picked, places
    <3> QED
      BY <3>2 DEF places, ids
  <2> QED
    BY <1>11, <2>1 DEF Range
<1>13. Len(named) = n
  <2> HIDE DEF timed
  <2> QED
    BY <1>11
<1>14. Sequence(answer, instances) = IF Len(given) = Cardinality(ids) THEN given ELSE named
  BY DEF Sequence
<1> HIDE DEF ids, chosen, given, timed, named, name
<1> QED
  BY <1>1, <1>2, <1>8, <1>12, <1>13, <1>14

(* Put together: the structure refers to nothing it does not hold.         *)
LEMMA StructureCloses ==
  ASSUME NEW answer \in OperationStructureResponse, NEW duration \in Nat
  PROVE  Closed(NormalizeStructure(answer, duration), duration)
<1> DEFINE procedures == FirstOfEach(answer.procedures, DOMAIN answer.procedures)
           instances == KeepInstances(answer, duration)
           sequence == Sequence(answer, instances)
           given == NormalizeStructure(answer, duration)
<1>1. given = Refused \/ given = [procedures |-> procedures, instances |-> instances, sequence |-> sequence]
  BY DEF NormalizeStructure
<1>2. Closed(Refused, duration)
  BY DEF Closed, Kept, Refused, Range
<1>3. Kept(instances, Known(answer), duration)
  BY InstancesKept
<1>4. PICK n \in Nat : DOMAIN instances = 1..n /\ Len(instances) = n
  BY InstancesKept
<1>5. \A i \in DOMAIN instances : instances[i].from \in Int /\ instances[i].to \in Int
  BY InstancesKept
<1>6. \A id \in Known(answer) : \E p \in Range(procedures) : p.id = id
  BY ProceduresKnown
<1> HIDE DEF procedures, instances, given
<1>7. /\ Range(sequence) \subseteq { instance.id : instance \in Range(instances) }
      /\ Len(sequence) = n
  BY <1>3, <1>4, <1>5, SequenceNames DEF Kept
<1> HIDE DEF sequence
<1>8. Kept(instances, { p.id : p \in Range(procedures) }, duration)
  BY <1>3, <1>6 DEF Kept
<1>9. Closed([procedures |-> procedures, instances |-> instances, sequence |-> sequence], duration)
  BY <1>4, <1>7, <1>8 DEF Closed
<1> QED
  BY <1>1, <1>2, <1>9 DEF given

ClosedInv == Closed(structure.given, VideoTicks)

(* However the model answers: what is written down can be followed.        *)
THEOREM StructuresClose == EvidenceSpec => []StructureIsClosed
<1>1. EvidenceInit => ClosedInv
  BY DEF EvidenceInit, NoStructure, ClosedInv, Closed, Kept, Refused, Range
<1>2. ASSUME ClosedInv, [EvidenceNext]_evidenceVars
      PROVE  ClosedInv'
  <2>1. UNCHANGED structure \/ WriteStructure
    BY <1>2 DEF EvidenceNext, evidenceVars, files, StartExtract, GroundFrame, GroundingFails, WriteEvidence,
       StartEnrich, TrackingFails, WriteArtifacts, WriteDense, ExportBundle, StartStructure, Resegment, GiveUpJob
  <2>2. CASE UNCHANGED structure
    BY <1>2, <2>2 DEF ClosedInv
  <2>3. CASE WriteStructure
    <3>1. PICK answer \in Structures :
            LET given == NormalizeStructure(answer, VideoTicks)
            IN structure' = IF given = Refused THEN structure ELSE [there |-> TRUE, given |-> given]
      BY <2>3 DEF WriteStructure
    <3>2. answer \in OperationStructureResponse /\ VideoTicks \in Nat
      BY StructuresAssumption, FilesAssumption DEF StructuresAssumption, FilesAssumption
    <3> DEFINE given == NormalizeStructure(answer, VideoTicks)
    <3>3. Closed(given, VideoTicks)
      BY <3>2, StructureCloses
    <3> HIDE DEF given
    <3>4. structure' = structure \/ structure' = [there |-> TRUE, given |-> given]
      BY <3>1 DEF given
    <3> QED
      BY <1>2, <3>3, <3>4 DEF ClosedInv
  <2> QED
    BY <2>1, <2>2, <2>3
<1>3. ClosedInv => StructureIsClosed
  BY DEF ClosedInv, Closed, Kept, Placed, StructureIsClosed
<1> QED
  BY <1>1, <1>2, <1>3, PTL DEF EvidenceSpec
=============================================================================
