------------------------------- MODULE M1Run -------------------------------
(***************************************************************************)
(* One invocation of experiments/insert_tubes/run_m1.py: the preflight,    *)
(* then the policy of NodePolicy over the callables M1Runtime gives it     *)
(* through the Method Broker.  The pipeline is external: perception may    *)
(* see anything or nothing or raise, and a robot command may be accepted,  *)
(* refused, or lost on either way.  What the policy does with what comes   *)
(* back is NodePolicy's own actions; observing and controlling are here.   *)
(***************************************************************************)
EXTENDS Naturals, Sequences

CONSTANTS Nodes, NextOf, NoNode, MaxNodeVisits, MaxAttempts,
          Ids, NoId, Attributable, FirstConstraint, NotAResult,
          ActionOf,          \* Node.action, per node
          CycleEntry,        \* entry_node of the selected five-stage cycle
          GraspEntry,        \* the node of grasp_only_graph
          MaxProbes,         \* _MAX_PREFLIGHT_ATTEMPTS
          GraspPose, TubeAxis, HolderPose,    \* the perceptual holes
          GraspHole,         \* the node's hole for the grasp pose, NoId if none
          None

Entries == {CycleEntry, GraspEntry}

VARIABLES
  entry, pc, current, results, outcome, attempt, lastConstraint,
  controlled, phases, observation, calls,       \* NodePolicy
  mode, stage, exit,      \* --mode, where main is, what the process returns
  probes,                 \* probes of the preflight so far
  pick,                   \* M1Runtime.pick
  place,                  \* whether M1Runtime.place holds a pose
  initial,                \* initial_pick_xyz
  reuse,                  \* _reuse_preflight_pick_once
  attachment,             \* attachment_evidence
  step,                   \* where pick_controller is
  moving,                 \* the arm is under way
  observed,               \* observation_evidence: where and how each was seen
  preflight,              \* history: where the last probe saw the tube
  refused                 \* history: a robot command has failed

policy == <<entry, pc, current, results, outcome, attempt, lastConstraint,
            controlled, phases, observation, calls>>
runtime == <<pick, place, initial, reuse, attachment, observed>>
robot == <<step, moving, refused>>
invocation == <<mode, stage, exit, probes, preflight>>
vars == <<policy, runtime, robot, invocation>>

(* goal_satisfied judges the last observation: it is all the policy goes by. *)
P == INSTANCE NodePolicy WITH world <- observation

(* select_linear_action_cycle and grasp_only_graph: both graphs are lines, *)
(* they begin with a pick, and the second ends there.                      *)
Stages == <<"pick", "reorient", "align", "insert", "verify">>
M1Graph ==
  /\ ActionOf[GraspEntry] = "pick" /\ NextOf[GraspEntry] = NoNode
  /\ \E line \in [1..5 -> Nodes] :
       /\ line[1] = CycleEntry
       /\ \A i \in 1..5 : /\ ActionOf[line[i]] = Stages[i]
                          /\ NextOf[line[i]] = IF i = 5 THEN NoNode ELSE line[i + 1]

(* A pose by what the attachment gate tells apart: z in units of           *)
(* lift_evidence_m, x by whether max_track_xy_m is exceeded.               *)
Poses == [z: 0..1, x: 0..1]
Axes == {"none", "flat", "upright"}
Picks == [at: Poses, axis: Axes]

(* The graph and its nodes passed their constructors, a pick's grasp hole  *)
(* is one of its node's holes, and Python's None is no result of anything. *)
ASSUME M1Assumption ==
  /\ M1Graph /\ MaxProbes \in Nat \ {0}
  /\ P!ValidGraph /\ P!ValidNodes /\ NotAResult \notin P!Reports
  /\ \A n \in Nodes : P!Contract(n) # NoId /\ GraspHole[n] \in Attributable[n] \cup {NoId}
  /\ None \notin Poses \cup Picks

At(p) == IF p = None THEN None ELSE p.at

(* The tube rose by lift_evidence_m and did not leave its track. *)
Lifted(from, to) == to.z > from.z /\ to.x = from.x

-----------------------------------------------------------------------------
(* The preflight.                                                          *)

Holes(p, found) ==
  (IF p = None THEN {GraspPose} ELSE IF p.axis = "none" THEN {TubeAxis} ELSE {})
    \cup (IF found THEN {} ELSE {HolderPose})

(* Mutant: in grasp mode only the axis is asked for.                       *)
GatingByAxis(holes) == IF mode = "grasp" THEN holes \cap {TubeAxis} ELSE holes

Gating(holes) == IF mode = "grasp" THEN holes \cap {GraspPose, TubeAxis} ELSE holes

(* _qwen_pick and _qwen_place have answered; the first pick is the initial one. *)
FirstSeen(p) == IF p = None \/ initial # None THEN initial ELSE p.at

(* Mutant: a probe does not clear initial_pick_xyz.                        *)
ForgottenOnce(p) == FirstSeen(p)

Forgotten(p) == At(p)

(* Mutant: a probe that leaves holes is not counted.                       *)
CountedIfLast(holes) == IF Gating(holes) = {} THEN probes + 1 ELSE probes

Counted(holes) == probes + 1

LastProbe == probes + 1 = MaxProbes

(* probe, which forgets what was seen before, and the loop of _run_preflight. *)
Probe ==
  /\ stage = "preflight"
  /\ \E p \in Picks \cup {None}, found \in BOOLEAN :
       /\ found => p # None
       /\ pick' = p /\ place' = found /\ initial' = Forgotten(p)
       /\ preflight' = At(p) /\ probes' = Counted(Holes(p, found))
       /\ IF mode # "probe" /\ Gating(Holes(p, found)) = {}
            THEN stage' = "prime" /\ UNCHANGED exit
            ELSE IF mode = "probe" \/ LastProbe
              THEN stage' = "over" /\ exit' = IF Holes(p, found) = {} THEN "0" ELSE "2"
              ELSE UNCHANGED <<stage, exit>>
  /\ reuse' = FALSE
  /\ UNCHANGED <<policy, robot, mode, attachment, observed>>

(* Only holes are probed for again: what perception raises leaves main.    *)
ProbeRaises ==
  /\ stage = "preflight"
  /\ stage' = "over" /\ exit' = "3"
  /\ UNCHANGED <<policy, robot, runtime, mode, probes, preflight>>

(* prime_execution_from_preflight, which raises without a pick or a place. *)
Primed == pick # None /\ (mode = "full" => place)
Prime ==
  /\ stage = "prime"
  /\ IF Primed THEN stage' = "policy" /\ reuse' = TRUE /\ UNCHANGED exit
               ELSE stage' = "over" /\ exit' = "3" /\ UNCHANGED reuse
  /\ UNCHANGED <<policy, robot, mode, probes, preflight,
                 pick, place, initial, attachment, observed>>

-----------------------------------------------------------------------------
(* perception.observe and verification.goal_satisfied.                     *)

Observing == stage = "policy" /\ pc \in {"observe", "postObserve"}
Action == ActionOf[current]
NeedsPlace == Action \in {"align", "insert", "verify"}
Reusing == Action = "pick" /\ reuse

Noted(source, p) == observed' = Append(observed, [source |-> source, at |-> At(p)])

ReusesPick(p) == p = pick /\ reuse' = FALSE /\ Noted("preflight_reuse", p)

Seen(p, source) ==
  /\ pick' = p /\ initial' = FirstSeen(p)
  /\ attachment' = IF p = None THEN attachment ELSE
                   [passed |-> Lifted(initial', p.at), source |-> source]

(* The canonical goal of the node's action; without a pick no goal is set. *)
GoalShown(p) ==
  /\ p # None
  /\ \/ Action = "pick" /\ Lifted(initial', p.at)
     \/ Action = "reorient" /\ p.axis = "upright"

Look ==
  /\ Observing
  /\ \E p \in Picks \cup {None} :
       /\ IF Reusing THEN ReusesPick(p)
                     ELSE UNCHANGED reuse /\ Noted("fresh", p)
       /\ Seen(p, IF Reusing THEN "preflight_reuse" ELSE "fresh")
       /\ observation' = IF GoalShown(p) THEN {current} ELSE {}
       /\ IF NeedsPlace /\ p # None THEN place' \in BOOLEAN ELSE UNCHANGED place
  /\ pc' = IF pc = "observe" THEN "goal" ELSE "postGoal"
  /\ UNCHANGED <<entry, current, results, outcome, attempt, lastConstraint,
                 controlled, phases, calls, robot, invocation>>

(* What the pipeline raises is the broker's MethodContractError; the qpos  *)
(* of the place request is read when the pick has been seen.               *)
LookRaises ==
  /\ Observing /\ ~Reusing
  /\ P!ObserveFails \/ P!PostObserveFails
  /\ \/ UNCHANGED <<pick, initial, attachment>>
     \/ NeedsPlace /\ \E p \in Picks : Seen(p, "fresh")
  /\ UNCHANGED <<entry, place, reuse, observed, robot, invocation>>

(* Everything of run and _run_node that calls nobody.                      *)
Decide ==
  /\ stage = "policy"
  /\ \/ P!RunLoop \/ P!GoalHolds \/ P!GoalOpen
     \/ P!NotControllerResult \/ P!UnknownConstraint
     \/ P!ControllerOk \/ P!ControllerRetry \/ P!ControllerFails
     \/ P!PostGoalHolds \/ P!PostGoalRetry \/ P!AttemptsExhausted
  /\ UNCHANGED <<entry, runtime, robot, invocation>>

-----------------------------------------------------------------------------
(* The trusted controllers.                                                *)

Controlling == stage = "policy" /\ pc = "control"

Answer(ok, recoverable, constraint) ==
  /\ pc' = "controlled" /\ step' = "idle"
  /\ controlled' = [ok |-> ok, recoverable |-> recoverable, constraint |-> constraint]
  /\ UNCHANGED <<entry, current, results, outcome, attempt, lastConstraint,
                 phases, observation, runtime, invocation>>

(* The first of perceptual_holes, as the last observation listed them.     *)
FirstHole == IF pick = None THEN GraspPose
             ELSE IF pick.axis = "none" THEN TubeAxis
             ELSE IF NeedsPlace /\ ~place THEN HolderPose ELSE NoId

(* Mutant: the hole is blamed by the name perception gave it.              *)
BlameAsSeen(hole) == IF hole = NoId THEN FirstConstraint[current] ELSE hole

BlameFor(hole) == IF hole \in Attributable[current] THEN hole ELSE FirstConstraint[current]

(* unresolved_controller: reorient, align, insert and verify fail closed.  *)
Unresolved ==
  /\ Controlling /\ Action # "pick"
  /\ calls' = calls + 1
  /\ Answer(FALSE, FALSE, BlameFor(FirstHole))
  /\ UNCHANGED <<moving, refused>>

(* pick_controller without a pick. *)
PickHole ==
  /\ Controlling /\ Action = "pick" /\ step = "idle" /\ pick = None
  /\ calls' = calls + 1
  /\ Answer(FALSE, TRUE, IF GraspHole[current] = NoId THEN FirstConstraint[current]
                                                      ELSE GraspHole[current])
  /\ UNCHANGED <<moving, refused>>

PickStarts ==
  /\ Controlling /\ Action = "pick" /\ step = "idle" /\ pick # None
  /\ step' = "open" /\ calls' = calls + 1
  /\ UNCHANGED <<entry, pc, current, results, outcome, attempt, lastConstraint,
                 controlled, phases, observation, runtime, moving, refused, invocation>>

Motion == step \in {"reach", "lift"}
After == [open |-> "reach", reach |-> "reached", reached |-> "close",
          close |-> "lift", lift |-> "lifted"]

(* PipelineClient.ctrl: the command was accepted. *)
Command ==
  /\ Controlling /\ step \in {"open", "reach", "close", "lift"}
  /\ step' = After[step] /\ moving' = (moving \/ Motion)
  /\ UNCHANGED <<policy, runtime, refused, invocation>>

(* It was refused, or the exchange was lost before or after the arm began  *)
(* to move.  What PipelineClient raises is the PipelineError of its own    *)
(* module, which the controller does not catch: _run_node does.            *)
CommandFails ==
  /\ Controlling /\ step \in {"open", "reach", "close", "lift"}
  /\ moving' \in {moving, moving \/ Motion}
  /\ refused' = TRUE
  /\ Answer(FALSE, TRUE, NoId)
  /\ UNCHANGED calls

(* _wait_arm: the arm has settled. *)
Settled ==
  /\ Controlling /\ step \in {"reached", "lifted"} /\ ~moving
  /\ IF step = "reached"
       THEN step' = After[step] /\ UNCHANGED <<policy, runtime, invocation>>
       ELSE Answer(TRUE, FALSE, NoId) /\ UNCHANGED calls
  /\ UNCHANGED <<moving, refused>>

(* It has not in time: the controller catches this PipelineError. *)
NotSettled ==
  /\ Controlling /\ step \in {"reached", "lifted"} /\ moving
  /\ Answer(FALSE, FALSE, FirstConstraint[current])
  /\ UNCHANGED <<calls, moving, refused>>

(* get_qpos fails: the client's PipelineError again. *)
StateUnread ==
  /\ Controlling /\ step \in {"reached", "lifted"}
  /\ Answer(FALSE, TRUE, NoId)
  /\ UNCHANGED <<calls, moving, refused>>

ArmStops == moving /\ moving' = FALSE /\ UNCHANGED <<policy, runtime, invocation, step, refused>>

-----------------------------------------------------------------------------
Report ==
  /\ stage = "policy" /\ pc = "done"
  /\ stage' = "over" /\ exit' = IF outcome = "succeeded" THEN "0" ELSE "2"
  /\ UNCHANGED <<policy, runtime, robot, mode, probes, preflight>>

Init ==
  /\ mode \in {"probe", "grasp", "full"}
  /\ entry = IF mode = "grasp" THEN GraspEntry ELSE CycleEntry
  /\ pc = "visit" /\ current = entry /\ results = <<>> /\ outcome = "running"
  /\ attempt = 1 /\ lastConstraint = NoId /\ controlled = NotAResult
  /\ phases = <<"READY">> /\ observation = {} /\ calls = 0
  /\ stage = "preflight" /\ exit = "none" /\ probes = 0
  /\ pick = None /\ place = FALSE /\ initial = None /\ reuse = FALSE
  /\ attachment = None /\ observed = <<>> /\ preflight = None
  /\ step = "idle" /\ moving \in BOOLEAN /\ refused = FALSE

Program == \/ Probe \/ ProbeRaises \/ Prime
           \/ Look \/ LookRaises \/ Decide
           \/ Unresolved \/ PickHole \/ PickStarts
           \/ Command \/ CommandFails \/ Settled \/ NotSettled \/ StateUnread
           \/ Report

Next == Program \/ ArmStops

Spec == Init /\ [][Next]_vars

(* The process is one thread, and every call it makes returns or raises:   *)
(* PipelineClient has a timeout, _wait_arm a deadline.                     *)
FairSpec == Spec /\ WF_vars(Program)
-----------------------------------------------------------------------------
(* Properties.                                                             *)

(* A preflight that passes is enough to begin on: priming the execution    *)
(* does not raise, whichever mode gates on whichever holes and however     *)
(* many probes it took.                                                    *)
PreflightSuffices == stage = "prime" => Primed

(* The policy takes the tube for attached only when it was perceived anew, *)
(* off the pose the accepted preflight saw it at, and a run that succeeds  *)
(* reports that perception: no rise is measured against an earlier probe,  *)
(* an earlier attempt or the pose that is being reused.                    *)
AttachmentIsEarned ==
  /\ \A i \in DOMAIN results :
       ActionOf[results[i].node] = "pick" /\ results[i].status # "failed" =>
         \E j \in DOMAIN observed :
           /\ observed[j].source = "fresh" /\ observed[j].at # None
           /\ observed[j].at.z > preflight.z /\ observed[j].at.x = preflight.x
  /\ outcome = "succeeded" => attachment = [passed |-> TRUE, source |-> "fresh"]

(* No controller of M1Runtime breaks the contract of the policy: each hole *)
(* it blames, under whatever name perception reports it, is the node's.    *)
ControllersKeepContract ==
  \A i \in DOMAIN results :
    results[i].reason \notin {"not a ControllerResult", "unknown constraint"}

(* The process returns.                                                    *)
Returns == <>(stage = "over")

(* A robot command that fails ends its node, as the except clause of       *)
(* pick_controller says: no other command follows it.                      *)
FailureIsLast == refused => step = "idle"
=============================================================================
