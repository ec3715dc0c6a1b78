--------------------------- MODULE SegmentationRun --------------------------
(***************************************************************************)
(* The commands of robot_subtask_seg over two directories: segment writes  *)
(* the traces of a run and audits it, refine-actions writes refined traces *)
(* elsewhere, materialize-actions the action traces of either, audit-run   *)
(* judges a directory and may archive it.  A command reads what is on disk *)
(* when it comes to it, may be given up anywhere, and is run again over    *)
(* what earlier ones left.                                                 *)
(***************************************************************************)
EXTENDS SubtaskTrace

CONSTANTS
  Videos,         \* of the manifest, in its order
  Answers(_),     \* what the model may answer for a video
  Refinements,    \* what it may answer for a segment to be refined
  MaxCommands     \* bound on the commands given

ASSUME SegmentationAssumption ==
  Videos \in Seq(Range(Videos)) /\ IsInjective(Videos) /\ MaxCommands \in Nat

(* An answer is read as segments, none of which was made from another yet, *)
(* or raises.                                                              *)
Fresh == { segments \in Seq(WithRole(STRING)) : \A s \in Range(segments) : s.seed = s.label }
ASSUME AnswersAssumption ==
  (\A v \in Range(Videos) : Answers(v) \subseteq Fresh \cup {Garbage}) /\ Refinements \subseteq Fresh \cup {Garbage}

VARIABLES
  inside,     \* whether the refined directory is in the run's, as it is by default
  traces,     \* trace.json of each directory and video, with the segments it refines
  errors,     \* videos with an error.json in the run's directory
  sheets,     \* videos whose contact sheets are in the run's directory
  reports,    \* quality_report.json of each directory, with what it was made of
  actions,    \* action_trace.json of each directory and video, with what it was made of
  command,    \* the command that is running and the videos it still has to do
  left        \* commands that may still be given

vars == <<inside, traces, errors, sheets, reports, actions, command, left>>

Dirs == {"run", "refined"}
VideoSet == Range(Videos)
NoTrace == [there |-> FALSE, segments |-> <<>>, of |-> <<>>, warned |-> FALSE]
NoReport == [there |-> FALSE, status |-> "none", traces |-> [v \in VideoSet |-> NoTrace], by |-> "none"]
NoActions == [there |-> FALSE, steps |-> <<>>, of |-> <<>>]
Idle == [name |-> "none", dir |-> "run", todo |-> <<>>, flag |-> FALSE]

Init ==
  /\ inside \in BOOLEAN
  /\ traces = [d \in Dirs |-> [v \in VideoSet |-> NoTrace]]
  /\ errors = {} /\ sheets = {}
  /\ reports = [d \in Dirs |-> NoReport]
  /\ actions = [d \in Dirs |-> [v \in VideoSet |-> NoActions]]
  /\ command = Idle /\ left = MaxCommands

(* sorted(glob("*/*/trace.json")), listed once.                            *)
Listed(dir) == Chosen(Videos, { i \in DOMAIN Videos : traces[dir][Videos[i]].there })

(* The directory a command is given must exist.                            *)
Exists(dir) ==
  \/ reports[dir].there
  \/ \E v \in VideoSet : traces[dir][v].there
  \/ dir = "run" /\ sheets # {}

(* audit_run.  The sheets of a kept segment are those of its video.        *)
Present(v) == (IF v \in sheets THEN {"run"} ELSE {}) \cup {"refined"}
FailedTraces(dir) ==
  \/ Listed(dir) = <<>>
  \/ \E v \in Range(Listed(dir)) : HasErrors(traces[dir][v], Present(v))
Failed(dir) == FailedTraces(dir) \/ (dir = "run" /\ errors # {})

Status(dir) ==
  IF Failed(dir) THEN "failed"
  ELSE IF \E v \in Range(Listed(dir)) : NeedsRefinement(traces[dir][v].segments)
       THEN "needs_action_refinement"
  ELSE "pass"

Report(dir, by) == [there |-> TRUE, status |-> Status(dir), traces |-> traces[dir], by |-> by]

Give(name, dir, todo, flag) ==
  /\ command = Idle /\ left > 0
  /\ left' = left - 1
  /\ command' = [name |-> name, dir |-> dir, todo |-> todo, flag |-> flag]

Doing(name) == command.name = name /\ command.todo # <<>>
Done(name) == command.name = name /\ command.todo = <<>>
Next1 == [command EXCEPT !.todo = Tail(@)]

-----------------------------------------------------------------------------
(* segment                                                                 *)

StartSegment(keepGoing) ==
  /\ Give("segment", "run", Videos, keepGoing)
  /\ UNCHANGED <<inside, traces, errors, sheets, reports, actions>>

(* segment_video_item.  error.json is never taken away again.              *)
SegmentVideo ==
  /\ Doing("segment")
  /\ LET v == Head(command.todo)
     IN \E answer \in Answers(v) :
       /\ sheets' = sheets \cup {v}
       /\ IF answer = Garbage
          THEN /\ errors' = errors \cup {v}
               /\ command' = IF command.flag THEN Next1 ELSE Idle
               /\ UNCHANGED traces
          ELSE /\ LET segments == NormalizeSegmentation(answer)
                  IN traces' = [traces EXCEPT !["run"][v] =
                       [there |-> TRUE, segments |-> segments, of |-> segments,
                        warned |-> \E s \in Range(segments) : RolesInverted(s)]]
               /\ command' = Next1
               /\ UNCHANGED errors
  /\ UNCHANGED <<inside, reports, actions, left>>

EndSegment ==
  /\ Done("segment")
  /\ reports' = [reports EXCEPT !["run"] = Report("run", "segment")]
  /\ command' = Idle
  /\ UNCHANGED <<inside, traces, errors, sheets, actions, left>>

-----------------------------------------------------------------------------
(* refine-actions: no answer is caught, the first that raises ends it.     *)

StartRefine(materialize) ==
  /\ Exists("run") /\ Give("refine", "refined", Listed("run"), materialize)
  /\ UNCHANGED <<inside, traces, errors, sheets, reports, actions>>

RefineVideo ==
  /\ Doing("refine")
  /\ LET v == Head(command.todo)
         segments == traces["run"][v].segments
         asked == { i \in DOMAIN segments : RefinementReason(segments[i]) }
     IN \E given \in [asked -> Refinements] :
       IF \E i \in asked : given[i] = Garbage
       THEN command' = Idle /\ UNCHANGED traces
       ELSE /\ LET answers == [i \in DOMAIN segments |-> IF i \in asked THEN given[i] ELSE <<>>]
               IN traces' = [traces EXCEPT !["refined"][v] =
                    [there |-> TRUE, segments |-> RefineTraceActions(segments, answers), of |-> segments,
                     warned |-> traces["run"][v].warned]]
            /\ command' = Next1
  /\ UNCHANGED <<inside, errors, sheets, reports, actions, left>>

EndRefine ==
  /\ Done("refine")
  /\ reports' = [reports EXCEPT !["refined"] = Report("refined", "refine")]
  /\ command' = IF command.flag
                THEN [name |-> "materialize", dir |-> "refined", todo |-> Listed("refined"), flag |-> TRUE]
                ELSE Idle
  /\ UNCHANGED <<inside, traces, errors, sheets, actions, left>>

-----------------------------------------------------------------------------
(* materialize-actions, and its twin at the end of refine-actions.         *)

StartMaterialize(dir, includeCleanup) ==
  /\ Exists(dir) /\ Give("materialize", dir, Listed(dir), includeCleanup)
  /\ UNCHANGED <<inside, traces, errors, sheets, reports, actions>>

MaterializeVideo ==
  /\ Doing("materialize")
  /\ LET v == Head(command.todo)
         segments == traces[command.dir][v].segments
     IN actions' = [actions EXCEPT ![command.dir][v] =
          [there |-> TRUE, steps |-> MaterializeSteps(segments, command.flag), of |-> segments]]
  /\ command' = Next1
  /\ UNCHANGED <<inside, traces, errors, sheets, reports, left>>

EndMaterialize ==
  /\ Done("materialize") /\ command' = Idle
  /\ UNCHANGED <<inside, traces, errors, sheets, reports, actions, left>>

-----------------------------------------------------------------------------
(* audit-run, with archive_run when it is asked for and recommended.       *)

AuditRun(dir, archiveFailed) ==
  /\ command = Idle /\ left > 0 /\ left' = left - 1
  /\ Exists(dir)
  /\ IF archiveFailed /\ Failed(dir)
     THEN /\ LET gone == IF dir = "run" /\ inside THEN Dirs ELSE {dir}
             IN /\ traces' = [d \in Dirs |-> IF d \in gone THEN [v \in VideoSet |-> NoTrace] ELSE traces[d]]
                /\ reports' = [d \in Dirs |-> IF d \in gone THEN NoReport ELSE reports[d]]
                /\ actions' = [d \in Dirs |-> IF d \in gone THEN [v \in VideoSet |-> NoActions] ELSE actions[d]]
          /\ errors' = IF dir = "run" THEN {} ELSE errors
          /\ sheets' = IF dir = "run" THEN {} ELSE sheets
     ELSE /\ reports' = [reports EXCEPT ![dir] = Report(dir, "audit")]
          /\ UNCHANGED <<traces, errors, sheets, actions>>
  /\ UNCHANGED <<inside, command>>

(* The process is killed; what it has written stays.                       *)
Interrupt ==
  /\ command # Idle /\ command' = Idle
  /\ UNCHANGED <<inside, traces, errors, sheets, reports, actions, left>>

Next ==
  \/ \E keepGoing \in BOOLEAN : StartSegment(keepGoing)
  \/ SegmentVideo \/ EndSegment
  \/ \E materialize \in BOOLEAN : StartRefine(materialize)
  \/ RefineVideo \/ EndRefine
  \/ \E dir \in Dirs, includeCleanup \in BOOLEAN : StartMaterialize(dir, includeCleanup)
  \/ MaterializeVideo \/ EndMaterialize
  \/ \E dir \in Dirs, archiveFailed \in BOOLEAN : AuditRun(dir, archiveFailed)
  \/ Interrupt

Spec == Init /\ [][Next]_vars

-----------------------------------------------------------------------------
(* A trace as its readers take it: every segment runs forward, in the      *)
(* video, and no two share a moment.                                       *)
Sound(segments) ==
  /\ \A i \in DOMAIN segments : 0 <= segments[i].from /\ segments[i].from < segments[i].to
                                /\ segments[i].to <= Duration
  /\ \A i, j \in DOMAIN segments : i < j => segments[i].to <= segments[j].from

(* A directory that passes the audit holds sound traces only, although the *)
(* audit compares each segment with the one before it and nothing else,    *)
(* and the children of two parents come from answers that do not know of   *)
(* each other.                                                             *)
ReadyTracesAreSound ==
  \A d \in Dirs : reports[d].status = "pass" =>
    \A v \in VideoSet : reports[d].traces[v].there => Sound(reports[d].traces[v].segments)

(* A segment command whose report passes left no video out, whatever went  *)
(* wrong in this attempt or an earlier one: there is a trace of each.      *)
PassIsComplete ==
  reports["run"].status = "pass" /\ reports["run"].by = "segment" =>
    \A v \in VideoSet : reports["run"].traces[v].there

(* README of robot_subtask_seg: a segment is split inside its own window.  *)
(* It holds of what passes the audit: a child past the end of its window   *)
(* is cut to an empty one there, and the audit refuses it.                 *)
SplitsInsideTheParent ==
  reports["refined"].status = "pass" =>
    \A v \in VideoSet : LET t == reports["refined"].traces[v] IN
      \A i \in DOMAIN t.segments : \E p \in Range(t.of) :
        /\ p.label = t.segments[i].seed
        /\ p.from <= t.segments[i].from /\ t.segments[i].from < t.segments[i].to /\ t.segments[i].to <= p.to

(* The two judgements of readiness agree: the steps made of a trace that   *)
(* passed the audit are ready for execution and follow one another.        *)
VerdictsAgree ==
  \A d \in Dirs, v \in VideoSet :
    LET a == actions[d][v] IN
    a.there /\ reports[d].status = "pass" /\ a.of = reports[d].traces[v].segments
            /\ reports[d].traces[v].there =>
      /\ ExecutionReady(a.steps)
      /\ \A i, j \in DOMAIN a.steps : i < j => a.steps[i].to <= a.steps[j].from
=============================================================================
