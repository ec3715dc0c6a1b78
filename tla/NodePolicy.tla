----------------------------- MODULE NodePolicy -----------------------------
(***************************************************************************)
(* PythonNodePolicy (method/demo_graph/runner.py) with the phase table of  *)
(* method/demo_graph/state_machine.py.  One action per call out of the     *)
(* policy or per decision it takes on what came back.  The callables it is *)
(* given (observe, goal_satisfied, the controllers) are the environment:   *)
(* each may return, raise or return a value of the wrong type, and a       *)
(* controller may leave the scene in any state.                            *)
(***************************************************************************)
EXTENDS Naturals, Sequences

CONSTANTS Nodes, NextOf, NoNode, MaxNodeVisits,
          Entries,          \* where a graph over these nodes may be entered
          MaxAttempts,      \* Node.max_attempts, per node
          Ids,              \* constraint and hole identifiers controllers may name
          NoId,             \* Python's None as a constraint_id
          Attributable,     \* Node.attributable_ids, per node
          FirstConstraint,  \* Node.constraints[0].constraint_id, per node
          NotAResult        \* whatever a controller returns that is no ControllerResult

(* What Node, ConstraintGraph and PythonNodePolicy validate on construction. *)
ValidGraph ==
  /\ NoNode \notin Nodes
  /\ Entries \subseteq Nodes
  /\ NextOf \in [Nodes -> Nodes \cup {NoNode}]
  /\ MaxNodeVisits \in Nat \ {0}
ValidNodes ==
  /\ MaxAttempts \in [Nodes -> Nat \ {0}]
  /\ NoId \notin Ids
  /\ Attributable \in [Nodes -> SUBSET Ids]
  /\ FirstConstraint \in [Nodes -> Ids]
  /\ \A n \in Nodes : FirstConstraint[n] \in Attributable[n]

ASSUME GraphAssumption == ValidGraph
ASSUME NodeAssumption == ValidNodes

(* ControllerResult; an exception is turned into one of them by _run_node. *)
Reports == { r \in [ok: BOOLEAN, recoverable: BOOLEAN, constraint: Ids \cup {NoId}] :
               ~(r.ok /\ r.recoverable) }

ASSUME ReportAssumption == NotAResult \notin Reports

(* f"contract:{node_id}": the blame for a callable that broke its contract. *)
Contract(n) == <<"contract", n>>

ASSUME ContractAssumption == \A n \in Nodes : Contract(n) # NoId

Blames == Ids \cup { Contract(n) : n \in Nodes }

(* The reasons a NodeRunResult gives, by the return statement they stem from. *)
Reasons == {"", "observe failed", "goal check failed", "not a ControllerResult",
            "unknown constraint", "controller failed", "post-observe failed",
            "postcondition check failed", "goal not satisfied after controller"}

Phase == {"READY", "RESOLVING_HOLES", "CANDIDATES_READY", "ADMITTED", "EXECUTING",
          "VERIFYING", "SUCCEEDED", "RECOVERABLE", "FAILED"}

(* _ALLOWED of state_machine.py. *)
Allowed == [p \in Phase |->
  CASE p = "READY" -> {"RESOLVING_HOLES", "FAILED"}
    [] p = "RESOLVING_HOLES" ->
         {"CANDIDATES_READY", "SUCCEEDED", "RECOVERABLE", "FAILED"}
    [] p = "CANDIDATES_READY" ->
         {"ADMITTED", "RESOLVING_HOLES", "RECOVERABLE", "FAILED"}
    [] p = "ADMITTED" -> {"EXECUTING", "RECOVERABLE", "FAILED"}
    [] p = "EXECUTING" -> {"VERIFYING", "RECOVERABLE", "FAILED"}
    [] p = "VERIFYING" -> {"SUCCEEDED", "RECOVERABLE", "FAILED", "RESOLVING_HOLES"}
    [] OTHER -> {}]

VARIABLES
  entry,           \* entry_node of the graph this run walks
  pc,              \* where run or _run_node is
  current,         \* the node being visited, NoNode after the last one
  results,         \* the NodeRunResults so far
  outcome,         \* "running", or how the PolicyRunResult came out
  attempt,         \* the loop variable of _run_node
  lastConstraint,  \* last_constraint of _run_node
  controlled,      \* what the controller of this visit returned last
  phases,          \* the phases of this visit
  observation,     \* the nodes whose goals the last observation shows to hold
  world,           \* the nodes whose goals hold in the scene
  calls            \* history: the controller calls of this visit

frame == <<attempt, lastConstraint, controlled, calls>>
vars == <<entry, pc, current, results, outcome, frame, phases, observation, world>>

Init ==
  /\ entry \in Entries /\ pc = "visit" /\ current = entry /\ results = <<>> /\ outcome = "running"
  /\ attempt = 1 /\ lastConstraint = NoId /\ controlled = NotAResult
  /\ phases = <<"READY">> /\ calls = 0
  /\ observation = {} /\ world \in SUBSET Nodes

-----------------------------------------------------------------------------
(* run: the visit loop.                                                    *)

Visit ==
  /\ pc = "visit" /\ Len(results) < MaxNodeVisits /\ current # NoNode
  /\ pc' = "observe"
  /\ attempt' = 1 /\ lastConstraint' = NoId /\ controlled' = NotAResult /\ calls' = 0
  /\ phases' = <<"READY", "RESOLVING_HOLES">>
  /\ UNCHANGED <<current, results, outcome, observation, world>>

Complete ==
  /\ pc = "visit" /\ Len(results) < MaxNodeVisits /\ current = NoNode
  /\ pc' = "done" /\ outcome' = "succeeded"
  /\ UNCHANGED <<current, results, frame, phases, observation, world>>

(* Mutant: the budget is only spent one visit after the last.              *)
ExceedLate ==
  /\ pc = "visit" /\ Len(results) > MaxNodeVisits
  /\ pc' = "done" /\ outcome' = "exceeded"
  /\ UNCHANGED <<current, results, frame, phases, observation, world>>

(* The loop is over without a return: "graph exceeded max_node_visits". *)
Exceed ==
  /\ pc = "visit" /\ Len(results) = MaxNodeVisits
  /\ pc' = "done" /\ outcome' = "exceeded"
  /\ UNCHANGED <<current, results, frame, phases, observation, world>>

(* _run_node returns a NodeRunResult and run acts on it. *)
Return(status, attempts, blame, reason, last) ==
  /\ phases' = Append(phases, last)
  /\ results' = Append(results,
       [node |-> current, status |-> status, attempts |-> attempts,
        constraint |-> blame, reason |-> reason, phases |-> phases'])
  /\ IF status = "failed"
       THEN pc' = "done" /\ outcome' = "failed" /\ UNCHANGED current
       ELSE pc' = "visit" /\ current' = NextOf[current] /\ UNCHANGED outcome
  /\ UNCHANGED world

(* _failure: constraint_id or node.constraints[0].constraint_id. *)
Fail(attempts, blame, reason) ==
  Return("failed", attempts,
         IF blame = NoId THEN FirstConstraint[current] ELSE blame, reason, "FAILED")

(* Mutant: the retry goes by the observation of the attempt before.        *)
RetryOnOldObservation ==
  /\ attempt < MaxAttempts[current]
  /\ attempt' = attempt + 1
  /\ phases' = phases \o <<"RECOVERABLE", "READY", "RESOLVING_HOLES">>
  /\ pc' = "goal"
  /\ UNCHANGED <<current, results, outcome, controlled, calls, observation, world>>

(* The bounded retry: RECOVERABLE, back to READY, and round the loop. *)
Retry ==
  /\ attempt < MaxAttempts[current]
  /\ attempt' = attempt + 1
  /\ phases' = phases \o <<"RECOVERABLE", "READY", "RESOLVING_HOLES">>
  /\ pc' = "observe"
  /\ UNCHANGED <<current, results, outcome, controlled, calls, observation, world>>

-----------------------------------------------------------------------------
(* One attempt of _run_node.                                               *)

Observe ==
  /\ pc = "observe"
  /\ pc' = "goal" /\ observation' = world
  /\ UNCHANGED <<current, results, outcome, frame, phases, world>>

ObserveFails ==
  /\ pc = "observe"
  /\ Fail(attempt - 1, NoId, "observe failed")
  /\ UNCHANGED <<frame, observation>>

(* Mutant: the attempt that was not needed is reported too.                *)
GoalHoldsCountingIt ==
  /\ pc = "goal" /\ current \in observation
  /\ Return("skipped", attempt, NoId, "", "SUCCEEDED")
  /\ UNCHANGED <<frame, observation>>

GoalHolds ==
  /\ pc = "goal" /\ current \in observation
  /\ Return("skipped", attempt - 1, NoId, "", "SUCCEEDED")
  /\ UNCHANGED <<frame, observation>>

GoalOpen ==
  /\ pc = "goal" /\ current \notin observation
  /\ phases' = phases \o <<"CANDIDATES_READY", "ADMITTED", "EXECUTING">>
  /\ pc' = "control"
  /\ UNCHANGED <<current, results, outcome, frame, observation, world>>

GoalCheckFails ==
  /\ pc = "goal"
  /\ Fail(attempt - 1, NoId, "goal check failed")
  /\ UNCHANGED <<frame, observation>>

(* The trusted controller runs: it moves the scene and returns. *)
Control ==
  /\ pc = "control"
  /\ pc' = "controlled"
  /\ world' \in SUBSET Nodes
  /\ controlled' \in Reports \cup {NotAResult}
  /\ calls' = calls + 1
  /\ UNCHANGED <<current, results, outcome, attempt, lastConstraint, phases, observation>>

NotControllerResult ==
  /\ pc = "controlled" /\ controlled = NotAResult
  /\ Fail(attempt, Contract(current), "not a ControllerResult")
  /\ UNCHANGED <<frame, observation>>

UnknownConstraint ==
  /\ pc = "controlled" /\ controlled # NotAResult
  /\ controlled.constraint \notin Attributable[current] \cup {NoId}
  /\ Fail(attempt, Contract(current), "unknown constraint")
  /\ UNCHANGED <<frame, observation>>

(* Mutant: the controller's constraint is believed unseen.                 *)
AcceptedUnseen ==
  /\ pc = "controlled" /\ controlled # NotAResult
  /\ lastConstraint' = IF controlled.constraint = NoId
                         THEN lastConstraint ELSE controlled.constraint

(* The report is well formed; last_constraint keeps the last one named. *)
Accepted ==
  /\ pc = "controlled" /\ controlled # NotAResult
  /\ controlled.constraint \in Attributable[current] \cup {NoId}
  /\ lastConstraint' = IF controlled.constraint = NoId
                         THEN lastConstraint ELSE controlled.constraint

ControllerOk ==
  /\ Accepted /\ controlled.ok
  /\ phases' = Append(phases, "VERIFYING")
  /\ pc' = "postObserve"
  /\ UNCHANGED <<current, results, outcome, attempt, controlled, calls, observation, world>>

ControllerRetry == Accepted /\ controlled.recoverable /\ Retry

ControllerFails ==
  /\ Accepted /\ ~controlled.ok
  /\ controlled.recoverable => attempt = MaxAttempts[current]
  /\ Fail(attempt, lastConstraint', "controller failed")
  /\ UNCHANGED <<attempt, controlled, calls, observation>>

PostObserve ==
  /\ pc = "postObserve"
  /\ pc' = "postGoal" /\ observation' = world
  /\ UNCHANGED <<current, results, outcome, frame, phases, world>>

PostObserveFails ==
  /\ pc = "postObserve"
  /\ Fail(attempt, NoId, "post-observe failed")
  /\ UNCHANGED <<frame, observation>>

(* Mutant: the controller's ok is taken for the postcondition.             *)
PostGoalTrusted ==
  /\ pc = "postGoal"
  /\ Return("succeeded", attempt, NoId, "", "SUCCEEDED")
  /\ UNCHANGED <<frame, observation>>

PostGoalHolds ==
  /\ pc = "postGoal" /\ current \in observation
  /\ Return("succeeded", attempt, NoId, "", "SUCCEEDED")
  /\ UNCHANGED <<frame, observation>>

PostGoalCheckFails ==
  /\ pc = "postGoal"
  /\ Fail(attempt, NoId, "postcondition check failed")
  /\ UNCHANGED <<frame, observation>>

PostGoalOpen ==
  /\ pc = "postGoal" /\ current \notin observation
  /\ lastConstraint' = FirstConstraint[current]

PostGoalRetry == PostGoalOpen /\ Retry

AttemptsExhausted ==
  /\ PostGoalOpen /\ attempt = MaxAttempts[current]
  /\ Fail(MaxAttempts[current], lastConstraint', "goal not satisfied after controller")
  /\ UNCHANGED <<attempt, controlled, calls, observation>>

-----------------------------------------------------------------------------
RunLoop == Visit \/ Complete \/ Exceed

BeforeControl == Observe \/ ObserveFails \/ GoalHolds \/ GoalOpen \/ GoalCheckFails

OnControl == \/ Control \/ NotControllerResult \/ UnknownConstraint
             \/ ControllerOk \/ ControllerRetry \/ ControllerFails

AfterControl == \/ PostObserve \/ PostObserveFails \/ PostGoalHolds
                \/ PostGoalCheckFails \/ PostGoalRetry \/ AttemptsExhausted

Steps == RunLoop \/ BeforeControl \/ OnControl \/ AfterControl

Next == Steps /\ UNCHANGED entry

Spec == Init /\ [][Next]_vars

(* The policy is one synchronous call: while it has a step to take Python  *)
(* takes it, and the callables it is given return or raise.                *)
FairSpec == Spec /\ WF_vars(Next)
-----------------------------------------------------------------------------
(* Properties.                                                             *)

NodeResults == [node: Nodes, status: {"succeeded", "skipped", "failed"},
                attempts: Nat, constraint: Blames \cup {NoId},
                reason: Reasons, phases: Seq(Phase)]

(* Every variable has the type of the Python value it stands for, and the  *)
(* attempt counter of _run_node stays within the node's max_attempts.      *)
TypeOK ==
  /\ pc \in {"visit", "observe", "goal", "control", "controlled",
             "postObserve", "postGoal", "done"}
  /\ entry \in Entries /\ current \in Nodes \cup {NoNode}
  /\ results \in Seq(NodeResults)
  /\ outcome \in {"running", "succeeded", "failed", "exceeded"}
  /\ attempt \in Nat \ {0}
  /\ lastConstraint \in Ids \cup {NoId}
  /\ controlled \in Reports \cup {NotAResult}
  /\ phases \in Seq(Phase)
  /\ observation \in SUBSET Nodes
  /\ world \in SUBSET Nodes
  /\ calls \in Nat

Visiting == pc \notin {"visit", "done"}
Finished == results # <<>> /\ ~Visiting
LastResult == results[Len(results)]

LegalStep(from, to) == to \in Allowed[from] \/ (from = "RECOVERABLE" /\ to = "READY")
LegalPath(path) == \A i \in 1..(Len(path) - 1) : LegalStep(path[i], path[i + 1])

(* advance_phase never raises out of run: from every path through the      *)
(* retries, each phase _run_node asks for is one the table allows, the     *)
(* reset from RECOVERABLE to READY being the only one outside the table.   *)
PhasesLegal ==
  /\ LegalPath(phases)
  /\ \A i \in DOMAIN results : LegalPath(results[i].phases)

(* The controller is called only on an observation that describes the      *)
(* scene as it is after every earlier controller call, retries and other   *)
(* nodes included, and never for a node whose goal already holds.          *)
ActsOnFreshEvidence == pc = "control" => observation = world /\ current \notin world

(* The attempts a result reports are the controller calls its visit made,  *)
(* on every return path of _run_node, and never more than max_attempts.    *)
AttemptsAreCalls ==
  Finished => /\ LastResult.attempts = calls
              /\ calls <= MaxAttempts[LastResult.node]

(* A failed node is blamed on one of its own constraints or holes or on    *)
(* its contract, never on another node's and never on nothing: what the    *)
(* repair loop may change is confined to the node that failed.             *)
BlameIsAttributable ==
  \A i \in DOMAIN results :
    results[i].status = "failed" =>
      results[i].constraint \in Attributable[results[i].node]
                                 \cup {Contract(results[i].node)}

(* The observable part of the run implements PolicyContract: the nodes of  *)
(* the PolicyRunResult and its succeeded flag, which "exceeded" clears.    *)
WalkOf(rs) == [i \in DOMAIN rs |-> [node |-> rs[i].node, done |-> rs[i].status # "failed"]]
Walk == WalkOf(results)
Verdict == IF outcome = "exceeded" THEN "failed" ELSE outcome

Promise == INSTANCE PolicyContract WITH walk <- Walk, verdict <- Verdict

(* run walks the graph and accepts a node only while its goal holds, see   *)
(* PolicyContract.                                                         *)
KeepsPromise == Promise!Spec

(* run returns: cyclic graphs are cut by max_node_visits, retries by       *)
(* max_attempts.                                                           *)
Terminates == <>(pc = "done")
=============================================================================
