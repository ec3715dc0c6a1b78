---------------------------- MODULE M1RunProofs ----------------------------
(***************************************************************************)
(* Theorems about M1Run, for every graph the extractor and the selection   *)
(* of a cycle may leave, every naming of its holes and every number of     *)
(* probes: what the runtime hands to the policy, what it takes for an      *)
(* attached tube, and what the preflight is worth.                         *)
(***************************************************************************)
EXTENDS M1Run, TLAPS

(* The first three nodes of the cycle; no run of M1Runtime gets further.   *)
Second == NextOf[CycleEntry]
Third == NextOf[Second]

LEMMA GraphFacts ==
  /\ CycleEntry \in Nodes /\ GraspEntry \in Nodes /\ Second \in Nodes /\ Third \in Nodes
  /\ NoNode \notin Nodes /\ MaxNodeVisits \in Nat \ {0}
  /\ NextOf[GraspEntry] = NoNode
  /\ ActionOf[GraspEntry] = "pick" /\ ActionOf[CycleEntry] = "pick"
  /\ ActionOf[Second] = "reorient" /\ ActionOf[Third] = "align"
<1>1. CycleEntry \in Nodes /\ GraspEntry \in Nodes /\ NoNode \notin Nodes
      /\ MaxNodeVisits \in Nat \ {0}
  BY M1Assumption DEF P!ValidGraph, Entries
<1>2. PICK line \in [1..5 -> Nodes] :
        /\ line[1] = CycleEntry
        /\ \A i \in 1..5 : /\ ActionOf[line[i]] = Stages[i]
                           /\ NextOf[line[i]] = IF i = 5 THEN NoNode ELSE line[i + 1]
  BY M1Assumption DEF M1Graph
<1>3. Second = line[2] /\ line[2] \in Nodes
  BY <1>2 DEF Second
<1>4. Third = line[3] /\ line[3] \in Nodes
  BY <1>2, <1>3 DEF Third
<1>5. Stages[1] = "pick" /\ Stages[2] = "reorient" /\ Stages[3] = "align"
  BY DEF Stages
<1>6. ActionOf[line[1]] = Stages[1] /\ ActionOf[line[2]] = Stages[2]
      /\ ActionOf[line[3]] = Stages[3]
  BY <1>2
<1> QED BY <1>1, <1>2, <1>3, <1>4, <1>5, <1>6, M1Assumption DEF M1Graph

LEMMA NodeFacts ==
  /\ \A n \in Nodes : /\ MaxAttempts[n] \in Nat \ {0}
                      /\ Attributable[n] \subseteq Ids
                      /\ FirstConstraint[n] \in Attributable[n]
                      /\ GraspHole[n] \in Attributable[n] \cup {NoId}
                      /\ P!Contract(n) # NoId
                      /\ NextOf[n] \in Nodes \cup {NoNode}
  /\ NoId \notin Ids /\ NotAResult \notin P!Reports
BY M1Assumption DEF P!ValidGraph, P!ValidNodes

-----------------------------------------------------------------------------
(* What the runtime holds, and that the policy over it is in a state of    *)
(* NodePolicy: the values M1Runtime returns are ones its callers expect.   *)
Sightings == [source: {"fresh", "preflight_reuse"}, at: Poses \cup {None}]

RuntimeOK ==
  /\ mode \in {"probe", "grasp", "full"}
  /\ stage \in {"preflight", "prime", "policy", "over"}
  /\ entry = IF mode = "grasp" THEN GraspEntry ELSE CycleEntry
  /\ pick \in Picks \cup {None} /\ place \in BOOLEAN /\ reuse \in BOOLEAN
  /\ initial \in Poses \cup {None} /\ preflight \in Poses \cup {None}
  /\ observed \in Seq(Sightings)
  /\ step \in {"idle", "open", "reach", "reached", "close", "lift", "lifted"}

TypeInv == P!TypeOK /\ (P!Visiting => current \in Nodes) /\ RuntimeOK

(* M1Runtime's controllers answer what NodePolicy lets a controller answer *)
(* and name only what the node may be blamed for.                          *)
Contracted ==
  /\ pc = "controlled" => /\ controlled \in P!Reports
                          /\ controlled.constraint \in Attributable[current] \cup {NoId}
  /\ P!Visiting => lastConstraint \in Attributable[current] \cup {NoId}
  /\ ControllersKeepContract

(* The ways a step of M1Run takes the policy out of a node.                *)
Endings == \/ P!ObserveFails \/ P!PostObserveFails
           \/ P!GoalHolds \/ P!NotControllerResult \/ P!UnknownConstraint
           \/ P!ControllerFails \/ P!PostGoalHolds \/ P!AttemptsExhausted

(* What a NodeRunResult of such a step says: it breaks no contract, and    *)
(* unless it failed the goal was just seen to hold.                        *)
Accepting == pc \in {"goal", "postGoal"} /\ current \in observation

LEMMA EndingReturns ==
  ASSUME TypeInv, Contracted, Endings
  PROVE  \E status \in {"succeeded", "skipped", "failed"}, attempts \in Nat,
            blame \in P!Blames \cup {NoId},
            reason \in P!Reasons \ {"not a ControllerResult", "unknown constraint"},
            last \in P!Phase :
           /\ P!Return(status, attempts, blame, reason, last)
           /\ P!Visiting
           /\ status # "failed" => Accepting
           /\ status = "failed" => blame \in Attributable[current]
<1> DEFINE R(status, attempts, blame, reason, last) ==
      /\ P!Return(status, attempts, blame, reason, last)
      /\ P!Visiting
      /\ status # "failed" => Accepting
      /\ status = "failed" => blame \in Attributable[current]
<1>0. P!Visiting
  BY DEF Endings, P!ObserveFails, P!PostObserveFails, P!GoalHolds, P!NotControllerResult,
     P!UnknownConstraint, P!ControllerFails, P!Accepted, P!PostGoalHolds,
     P!AttemptsExhausted, P!PostGoalOpen, P!Visiting
<1>1. /\ current \in Nodes /\ attempt \in Nat /\ attempt - 1 \in Nat
      /\ lastConstraint \in Ids \cup {NoId}
  BY <1>0 DEF TypeInv, P!TypeOK
<1>2. /\ FirstConstraint[current] \in Attributable[current] /\ MaxAttempts[current] \in Nat
      /\ Attributable[current] \subseteq P!Blames
  BY <1>1, NodeFacts DEF P!Blames
<1> DEFINE Fair == P!Reasons \ {"not a ControllerResult", "unknown constraint"}
<1>3. ASSUME NEW attempts \in Nat, NEW blame \in Attributable[current] \cup {NoId},
             NEW reason \in Fair, P!Fail(attempts, blame, reason)
      PROVE  \E b \in P!Blames \cup {NoId} : R("failed", attempts, b, reason, "FAILED")
  BY <1>0, <1>2, <1>3 DEF P!Fail
<1>4. "FAILED" \in P!Phase /\ "SUCCEEDED" \in P!Phase BY DEF P!Phase
<1>5. CASE P!ObserveFails \/ P!PostObserveFails
  <2>1. PICK attempts \in Nat, reason \in Fair : P!Fail(attempts, NoId, reason)
    BY <1>1, <1>5 DEF P!ObserveFails, P!PostObserveFails, P!Reasons
  <2> QED BY <1>3, <1>4, <2>1
<1>6. CASE P!GoalHolds \/ P!PostGoalHolds
  <2>1. PICK attempts \in Nat, status \in {"skipped", "succeeded"} :
          P!Return(status, attempts, NoId, "", "SUCCEEDED")
    BY <1>1, <1>6 DEF P!GoalHolds, P!PostGoalHolds
  <2>2. Accepting BY <1>6 DEF P!GoalHolds, P!PostGoalHolds, Accepting
  <2>3. status # "failed" /\ "" \in Fair BY DEF P!Reasons
  <2> QED BY <1>0, <1>4, <2>1, <2>2, <2>3
<1>7. CASE P!NotControllerResult \/ P!UnknownConstraint
  BY <1>7, NodeFacts DEF P!NotControllerResult, P!UnknownConstraint, Contracted
<1>8. CASE P!ControllerFails
  <2>1. /\ P!Fail(attempt, lastConstraint', "controller failed")
        /\ lastConstraint' = IF controlled.constraint = NoId
                               THEN lastConstraint ELSE controlled.constraint
    BY <1>8 DEF P!ControllerFails, P!Accepted
  <2>2. lastConstraint' \in Attributable[current] \cup {NoId}
    BY <1>0, <1>8, <2>1 DEF P!ControllerFails, P!Accepted, Contracted
  <2>3. "controller failed" \in Fair BY DEF P!Reasons
  <2> QED BY <1>1, <1>3, <1>4, <2>1, <2>2, <2>3
<1>9. CASE P!AttemptsExhausted
  <2>1. /\ P!Fail(MaxAttempts[current], lastConstraint', "goal not satisfied after controller")
        /\ lastConstraint' = FirstConstraint[current]
    BY <1>9 DEF P!AttemptsExhausted, P!PostGoalOpen
  <2>2. "goal not satisfied after controller" \in Fair BY DEF P!Reasons
  <2> QED BY <1>2, <1>3, <1>4, <2>1, <2>2
<1> QED BY <1>5, <1>6, <1>7, <1>8, <1>9 DEF Endings

(* What Append leaves in place and what it adds.                           *)
LEMMA Appended ==
  ASSUME NEW T, NEW s \in Seq(T), NEW e \in T, NEW t, t = Append(s, e)
  PROVE  /\ t \in Seq(T)
         /\ DOMAIN s \subseteq DOMAIN t
         /\ \A i \in DOMAIN s : t[i] = s[i]
         /\ \A i \in DOMAIN t \ DOMAIN s : t[i] = e
         /\ Len(s) + 1 \in DOMAIN t /\ t[Len(s) + 1] = e
<1> DEFINE a == Append(s, e)
<1>1. /\ a \in Seq(T)
      /\ DOMAIN s \subseteq DOMAIN a
      /\ \A i \in DOMAIN s : a[i] = s[i]
      /\ \A i \in DOMAIN a \ DOMAIN s : a[i] = e
      /\ Len(s) + 1 \in DOMAIN a /\ a[Len(s) + 1] = e
  OBVIOUS
<1> HIDE DEF a
<1>2. t = a BY DEF a
<1> QED BY <1>1, <1>2

-----------------------------------------------------------------------------
(* NodePolicy's sets of values, under names of their own.                  *)
NodeResults == P!NodeResults
Phases == P!Phase

(* The steps of the program by what they do to the policy.                 *)
Outside == Probe \/ ProbeRaises \/ Prime \/ Report
Ends == LookRaises \/ (Decide /\ Endings)
Goes == /\ Decide
        /\ P!RunLoop \/ P!GoalOpen \/ P!ControllerOk \/ P!ControllerRetry \/ P!PostGoalRetry
Answers == Unresolved \/ PickHole \/ CommandFails \/ NotSettled \/ StateUnread
             \/ (Settled /\ step = "lifted")
Proceeds == PickStarts \/ Command \/ (Settled /\ step = "reached")

LEMMA NextSplit ==
  Next => Outside \/ Look \/ Ends \/ Goes \/ Answers \/ Proceeds \/ ArmStops
BY Zenon DEF Next, Program, Outside, Ends, Goes, Answers, Proceeds, Decide, Endings, Settled

LEMMA EndsReturn ==
  ASSUME TypeInv, Contracted, Ends
  PROVE  /\ \E status \in {"succeeded", "skipped", "failed"}, attempts \in Nat,
               blame \in P!Blames \cup {NoId},
               reason \in P!Reasons \ {"not a ControllerResult", "unknown constraint"},
               last \in P!Phase :
              /\ P!Return(status, attempts, blame, reason, last)
              /\ P!Visiting
              /\ status # "failed" => Accepting
              /\ status = "failed" => blame \in Attributable[current]
         /\ UNCHANGED <<entry, place, reuse, observed, robot, invocation, controlled, calls, attempt>>
         /\ lastConstraint' \in Ids \cup {NoId}
<1>1. Endings BY DEF Ends, LookRaises, Endings
<1>2. UNCHANGED <<entry, place, reuse, observed, robot, invocation, controlled, calls, attempt>>
  BY DEF Ends, LookRaises, Decide, runtime, P!frame, Endings, P!ObserveFails, P!PostObserveFails,
     P!GoalHolds, P!NotControllerResult, P!UnknownConstraint, P!ControllerFails,
     P!PostGoalHolds, P!AttemptsExhausted
<1>3. lastConstraint' \in Ids \cup {NoId}
  <2>0. current \in Nodes /\ lastConstraint \in Ids \cup {NoId}
        /\ Attributable[current] \subseteq Ids /\ FirstConstraint[current] \in Ids
    BY <1>1, EndingReturns, NodeFacts DEF TypeInv, P!TypeOK
  <2>1. CASE P!ControllerFails
    BY <2>0, <2>1 DEF P!ControllerFails, P!Accepted
  <2>2. CASE P!AttemptsExhausted
    BY <2>0, <2>2 DEF P!AttemptsExhausted, P!PostGoalOpen
  <2>3. CASE ~(P!ControllerFails \/ P!AttemptsExhausted)
    BY <1>1, <2>0, <2>3 DEF Endings, P!frame, P!ObserveFails, P!PostObserveFails,
       P!GoalHolds, P!NotControllerResult, P!UnknownConstraint, P!PostGoalHolds
  <2> QED BY <2>1, <2>2, <2>3
<1> QED BY <1>1, <1>2, <1>3, EndingReturns

(* An answer of a controller is a ControllerResult.                        *)
LEMMA AnswerHolds ==
  ASSUME TypeInv, Contracted, Controlling,
         NEW ok \in BOOLEAN, NEW recoverable \in BOOLEAN, ~(ok /\ recoverable),
         NEW constraint \in Attributable[current] \cup {NoId},
         Answer(ok, recoverable, constraint), calls' \in Nat
  PROVE  TypeInv' /\ Contracted'
<1>1. current \in Nodes /\ pc = "control"
  BY DEF Controlling, TypeInv, P!Visiting
<1>2. constraint \in Ids \cup {NoId} BY <1>1, NodeFacts
<1>3. controlled' \in P!Reports /\ controlled'.constraint = constraint
  BY <1>2 DEF Answer, P!Reports
<1>4. RuntimeOK' BY DEF Answer, runtime, invocation, TypeInv, RuntimeOK
<1>5. P!TypeOK' BY <1>1, <1>3 DEF Answer, TypeInv, P!TypeOK
<1>6. Contracted'
  BY <1>1, <1>3 DEF Answer, Contracted, ControllersKeepContract, P!Visiting
<1> QED BY <1>1, <1>4, <1>5, <1>6 DEF Answer, TypeInv, P!Visiting

LEMMA ResultAdded ==
  ASSUME results \in Seq(NodeResults), NEW r \in NodeResults, results' = Append(results, r)
  PROVE  /\ \A i \in DOMAIN results : results'[i] = results[i]
         /\ \A i \in DOMAIN results' \ DOMAIN results : results'[i] = r
         /\ results' \in Seq(NodeResults)
BY Appended

LEMMA EndsHold ==
  ASSUME TypeInv, Contracted, Ends, RuntimeOK'
  PROVE  TypeInv' /\ Contracted'
<1>1. PICK status \in {"succeeded", "skipped", "failed"}, attempts \in Nat,
           blame \in P!Blames \cup {NoId},
           reason \in P!Reasons \ {"not a ControllerResult", "unknown constraint"},
           last \in P!Phase :
        P!Return(status, attempts, blame, reason, last) /\ P!Visiting
  BY EndsReturn
<1>2. UNCHANGED <<entry, controlled, calls, attempt>> /\ lastConstraint' \in Ids \cup {NoId}
  BY EndsReturn
<1>3. current \in Nodes BY <1>1 DEF TypeInv
<1>a. phases \in Seq(Phases) /\ results \in Seq(NodeResults)
  BY DEF TypeInv, P!TypeOK, Phases, NodeResults
<1>b. phases' = Append(phases, last) BY <1>1 DEF P!Return
<1>4. phases' \in Seq(Phases)
  <2>1. last \in Phases BY DEF Phases
  <2>2. Append(phases, last) \in Seq(Phases) BY <1>a, <2>1, Appended
  <2> QED BY <1>b, <2>2
<1>5. [node |-> current, status |-> status, attempts |-> attempts,
       constraint |-> blame, reason |-> reason, phases |-> phases'] \in NodeResults
  BY <1>3, <1>4 DEF NodeResults, P!NodeResults, Phases
<1>6. PICK r \in NodeResults : results' = Append(results, r) /\ r.reason = reason
  BY <1>1, <1>5 DEF P!Return
<1>d. /\ \A i \in DOMAIN results : results'[i] = results[i]
      /\ \A i \in DOMAIN results' \ DOMAIN results : results'[i] = r
      /\ results' \in Seq(NodeResults)
  BY Zenon, <1>a, <1>6, ResultAdded
<1>7. pc' \in {"visit", "done"} /\ current' \in Nodes \cup {NoNode}
      /\ outcome' \in {"running", "succeeded", "failed", "exceeded"} /\ observation' = observation
  BY <1>1, <1>3, NodeFacts DEF P!Return, TypeInv, P!TypeOK
<1>8. P!TypeOK' BY <1>2, <1>4, <1>7, <1>d DEF TypeInv, P!TypeOK, Phases, NodeResults
<1>9. ASSUME NEW i \in DOMAIN results'
      PROVE  results'[i].reason \notin {"not a ControllerResult", "unknown constraint"}
  <2>1. CASE i \in DOMAIN results
    BY <1>d, <2>1 DEF Contracted, ControllersKeepContract
  <2>2. CASE i \notin DOMAIN results
    BY <1>6, <1>9, <1>d, <2>2
  <2> QED BY <2>1, <2>2
<1>10. ControllersKeepContract' BY <1>9 DEF ControllersKeepContract
<1> QED BY <1>7, <1>8, <1>10 DEF TypeInv, P!Visiting, Contracted

(* What a look leaves behind when perception answered with p.              *)
LEMMA SeenHolds ==
  ASSUME RuntimeOK, NEW p \in Picks \cup {None}, NEW source, Seen(p, source)
  PROVE  pick' \in Picks \cup {None} /\ initial' \in Poses \cup {None}
BY DEF RuntimeOK, Seen, FirstSeen, Picks

LEMMA AtPose == \A p \in Picks \cup {None} : At(p) \in Poses \cup {None}
BY DEF At, Picks

(* The phases a step of _run_node adds.                                    *)
LEMMA PhasesAdded ==
  ASSUME NEW path \in Seq(P!Phase)
  PROVE  /\ <<"READY", "RESOLVING_HOLES">> \in Seq(P!Phase)
         /\ path \o <<"CANDIDATES_READY", "ADMITTED", "EXECUTING">> \in Seq(P!Phase)
         /\ path \o <<"RECOVERABLE", "READY", "RESOLVING_HOLES">> \in Seq(P!Phase)
         /\ Append(path, "VERIFYING") \in Seq(P!Phase)
BY DEF P!Phase

(* The runtime keeps its types and the policy stays in a state of          *)
(* NodePolicy, whatever perception and the robot do; and what the runtime  *)
(* answers keeps the contract of the policy.                               *)
LEMMA TypeStep ==
  TypeInv /\ Contracted /\ [Next]_vars => TypeInv' /\ Contracted'
<1> SUFFICES ASSUME TypeInv, Contracted, [Next]_vars PROVE TypeInv' /\ Contracted'
  OBVIOUS
<1>0. RuntimeOK /\ P!TypeOK BY DEF TypeInv
<1>1. CASE Outside
  <2>1. UNCHANGED policy
    BY <1>1 DEF Outside, Probe, ProbeRaises, Prime, Report
  <2>2. RuntimeOK'
    <3>1. CASE Probe
      BY <1>0, <3>1, AtPose DEF Probe, RuntimeOK, Forgotten, policy, robot
    <3>2. CASE ProbeRaises \/ Prime \/ Report
      BY <1>0, <3>2 DEF ProbeRaises, Prime, Report, RuntimeOK, runtime, policy, robot
    <3> QED BY <1>1, <3>1, <3>2 DEF Outside
  <2> QED
    BY <1>0, <2>1, <2>2 DEF policy, TypeInv, P!TypeOK, P!Visiting, Contracted,
       ControllersKeepContract
<1>2. CASE Look
  <2>1. PICK p \in Picks \cup {None} :
          /\ IF Reusing THEN ReusesPick(p) ELSE UNCHANGED reuse /\ Noted("fresh", p)
          /\ Seen(p, IF Reusing THEN "preflight_reuse" ELSE "fresh")
          /\ IF NeedsPlace /\ p # None THEN place' \in BOOLEAN ELSE UNCHANGED place
    BY <1>2 DEF Look
  <2>2. observation' \in {{current}, {}} /\ pc' \in {"goal", "postGoal"} /\ P!Visiting
        /\ UNCHANGED <<entry, current, results, outcome, attempt, lastConstraint,
                       controlled, phases, calls, robot, invocation>>
    BY <1>2 DEF Look, Observing, P!Visiting
  <2>3. observed' \in Seq(Sightings) /\ reuse' \in BOOLEAN
    <3>1. PICK source \in {"fresh", "preflight_reuse"} :
            observed' = Append(observed, [source |-> source, at |-> At(p)])
      BY <2>1 DEF ReusesPick, Noted
    <3>2. [source |-> source, at |-> At(p)] \in Sightings
      BY AtPose DEF Sightings
    <3>3. observed \in Seq(Sightings) BY <1>0 DEF RuntimeOK
    <3>4. observed' \in Seq(Sightings)
      BY <3>1, <3>2, <3>3, Appended
    <3> QED BY <1>0, <2>1, <3>4 DEF RuntimeOK, ReusesPick
  <2>4. RuntimeOK'
    BY <1>0, <2>1, <2>2, <2>3, SeenHolds DEF RuntimeOK, robot, invocation
  <2>5. current \in Nodes BY <2>2 DEF TypeInv
  <2> QED
    BY <1>0, <2>2, <2>4, <2>5 DEF TypeInv, P!TypeOK, P!Visiting, Contracted,
       ControllersKeepContract
<1>3. CASE Ends
  <2>1. UNCHANGED <<entry, place, reuse, observed, robot, invocation>>
    BY <1>3, EndsReturn
  <2>2. pick' \in Picks \cup {None} /\ initial' \in Poses \cup {None}
    <3>1. CASE UNCHANGED <<pick, initial>> BY <1>0, <3>1 DEF RuntimeOK
    <3>2. CASE \E p \in Picks : Seen(p, "fresh") BY <1>0, <3>2, SeenHolds
    <3> QED BY <1>3, <3>1, <3>2 DEF Ends, LookRaises, Decide, runtime
  <2>3. RuntimeOK' BY <1>0, <2>1, <2>2 DEF RuntimeOK, robot, invocation
  <2> QED BY <1>3, <2>3, EndsHold
<1>4. CASE Goes
  <2>1. RuntimeOK' BY <1>0, <1>4 DEF Goes, Decide, RuntimeOK, runtime, robot, invocation
  <2>a. phases \in Seq(P!Phase) /\ entry \in Entries /\ entry' = entry
    BY <1>0, <1>4 DEF P!TypeOK, Goes, Decide
  <2>2. CASE P!RunLoop
    <3>1. phases' \in Seq(P!Phase)
      BY <2>2, <2>a, PhasesAdded DEF P!RunLoop, P!Visit, P!Complete, P!Exceed
    <3>2. P!TypeOK'
      BY <1>0, <2>a, <2>2, <3>1 DEF P!RunLoop, P!Visit, P!Complete, P!Exceed, P!frame, P!TypeOK
    <3>3. P!Visiting' => current' \in Nodes
      BY <1>0, <2>2 DEF P!RunLoop, P!Visit, P!Complete, P!Exceed, P!TypeOK, P!Visiting
    <3>4. Contracted'
      BY <2>2 DEF P!RunLoop, P!Visit, P!Complete, P!Exceed, P!Visiting, Contracted,
         ControllersKeepContract
    <3> QED BY <2>1, <3>2, <3>3, <3>4 DEF TypeInv
  <2>3. CASE P!GoalOpen
    <3>1. phases' \in Seq(P!Phase) BY <2>3, <2>a, PhasesAdded DEF P!GoalOpen
    <3>2. P!TypeOK' BY <1>0, <2>a, <2>3, <3>1 DEF P!GoalOpen, P!frame, P!TypeOK
    <3>3. (P!Visiting' => current' \in Nodes) /\ Contracted'
      BY <2>3 DEF P!GoalOpen, P!frame, TypeInv, P!Visiting, Contracted, ControllersKeepContract
    <3> QED BY <2>1, <3>2, <3>3 DEF TypeInv
  <2>4. CASE P!ControllerOk
    <3>1. lastConstraint' \in Attributable[current] \cup {NoId} /\ current \in Nodes
      BY <2>4 DEF P!ControllerOk, P!Accepted, Contracted, TypeInv, P!Visiting
    <3>2. lastConstraint' \in Ids \cup {NoId} BY <3>1, NodeFacts
    <3>3. phases' \in Seq(P!Phase) BY <2>4, <2>a, PhasesAdded DEF P!ControllerOk
    <3>4. P!TypeOK' BY <1>0, <2>a, <2>4, <3>2, <3>3 DEF P!ControllerOk, P!TypeOK
    <3>5. (P!Visiting' => current' \in Nodes) /\ Contracted'
      BY <2>4, <3>1 DEF P!ControllerOk, P!Visiting, Contracted, ControllersKeepContract
    <3> QED BY <2>1, <3>4, <3>5 DEF TypeInv
  <2>5. CASE P!ControllerRetry \/ P!PostGoalRetry
    <3>0. P!Visiting /\ current \in Nodes /\ P!Retry
      BY <2>5 DEF P!ControllerRetry, P!PostGoalRetry, P!Accepted, P!PostGoalOpen,
         P!Visiting, TypeInv
    <3>1. lastConstraint' \in Attributable[current] \cup {NoId}
      BY <2>5, <3>0, NodeFacts DEF P!ControllerRetry, P!PostGoalRetry, P!Accepted, P!PostGoalOpen,
         Contracted
    <3>2. lastConstraint' \in Ids \cup {NoId} BY <3>0, <3>1, NodeFacts
    <3>3. phases' \in Seq(P!Phase) BY <3>0, <2>a, PhasesAdded DEF P!Retry
    <3>4. P!TypeOK' BY <1>0, <2>a, <3>0, <3>2, <3>3 DEF P!Retry, P!TypeOK
    <3>5. (P!Visiting' => current' \in Nodes) /\ Contracted'
      BY <3>0, <3>1 DEF P!Retry, P!Visiting, Contracted, ControllersKeepContract
    <3> QED BY <2>1, <3>4, <3>5 DEF TypeInv
  <2> QED BY <1>4, <2>2, <2>3, <2>4, <2>5 DEF Goes
<1>5. CASE Answers
  <2>1. Controlling /\ current \in Nodes
    BY <1>5 DEF Answers, Unresolved, PickHole, CommandFails, NotSettled, StateUnread, Settled,
       Controlling, TypeInv, P!Visiting
  <2>2. \E ok \in BOOLEAN, recoverable \in BOOLEAN,
           constraint \in Attributable[current] \cup {NoId} :
          Answer(ok, recoverable, constraint) /\ ~(ok /\ recoverable)
    <3>1. BlameFor(FirstHole) \in Attributable[current] /\ FirstConstraint[current] \in Attributable[current]
      BY <2>1, NodeFacts DEF BlameFor
    <3>2. (IF GraspHole[current] = NoId THEN FirstConstraint[current] ELSE GraspHole[current])
             \in Attributable[current]
      BY <2>1, NodeFacts
    <3>3. CASE Unresolved BY <3>1, <3>3 DEF Unresolved
    <3>4. CASE PickHole BY <3>2, <3>4 DEF PickHole
    <3>5. CASE CommandFails \/ StateUnread BY <3>5 DEF CommandFails, StateUnread
    <3>6. CASE NotSettled BY <3>1, <3>6 DEF NotSettled
    <3>7. CASE Settled /\ step = "lifted" BY <3>7 DEF Settled
    <3> QED BY <1>5, <3>3, <3>4, <3>5, <3>6, <3>7 DEF Answers
  <2>3. calls' \in Nat
    <3>1. calls \in Nat BY <1>0 DEF P!TypeOK
    <3>2. calls' \in {calls, calls + 1}
      BY <1>5 DEF Answers, Unresolved, PickHole, CommandFails, NotSettled, StateUnread, Settled
    <3> QED BY <3>1, <3>2
  <2> QED BY <2>1, <2>2, <2>3, AnswerHolds
<1>6. CASE Proceeds
  <2>1. UNCHANGED <<entry, pc, current, results, outcome, attempt, lastConstraint,
                    controlled, phases, observation, runtime, invocation>>
    BY <1>6 DEF Proceeds, PickStarts, Command, Settled, policy
  <2>2. calls' \in {calls, calls + 1}
    BY <1>6 DEF Proceeds, PickStarts, Command, Settled, policy
  <2>3. step' \in {"idle", "open", "reach", "reached", "close", "lift", "lifted"}
    <3>1. CASE PickStarts BY <3>1 DEF PickStarts
    <3>2. CASE Command BY <3>2 DEF Command, After
    <3>3. CASE Settled /\ step = "reached" BY <3>3 DEF Settled, After
    <3> QED BY <1>6, <3>1, <3>2, <3>3 DEF Proceeds
  <2>4. P!TypeOK' BY <1>0, <2>1, <2>2 DEF P!TypeOK
  <2>5. RuntimeOK' BY <1>0, <2>1, <2>3 DEF runtime, invocation, RuntimeOK
  <2> QED
    BY <2>1, <2>4, <2>5 DEF TypeInv, P!Visiting, Contracted, ControllersKeepContract
<1>7. CASE ArmStops \/ UNCHANGED vars
  <2>1. UNCHANGED <<policy, runtime, invocation, step>>
    BY <1>7 DEF ArmStops, vars, robot
  <2>2. P!TypeOK' BY <1>0, <2>1 DEF policy, P!TypeOK
  <2>3. RuntimeOK' BY <1>0, <2>1 DEF policy, runtime, invocation, RuntimeOK
  <2> QED
    BY <2>1, <2>2, <2>3 DEF policy, TypeInv, P!Visiting, Contracted, ControllersKeepContract
<1> QED BY <1>1, <1>2, <1>3, <1>4, <1>5, <1>6, <1>7, NextSplit

LEMMA Typed == Spec => [](TypeInv /\ Contracted)
<1>1. Init => TypeInv /\ Contracted
  <2> SUFFICES ASSUME Init PROVE TypeInv /\ Contracted
    OBVIOUS
  <2>a. observed \in Seq(Sightings) /\ None \in Poses \cup {None} /\ None \in Picks \cup {None}
    BY DEF Init
  <2>1. RuntimeOK BY <2>a DEF Init, RuntimeOK
  <2>2. entry \in Entries /\ entry \in Nodes
    BY GraphFacts DEF Init, Entries
  <2>3. <<"READY">> \in Seq(P!Phase) BY DEF P!Phase
  <2>4. P!TypeOK BY <2>2, <2>3 DEF Init, P!TypeOK
  <2> QED
    BY <2>1, <2>4 DEF Init, TypeInv, P!Visiting, Contracted, ControllersKeepContract
<1> QED BY <1>1, TypeStep, PTL DEF Spec

(* The policy of NodePolicy, given M1Runtime's callables, is always in a   *)
(* state that NodePolicy's own checks and theorems speak of.               *)
THEOREM Typing == Spec => []P!TypeOK
<1>1. TypeInv => P!TypeOK BY DEF TypeInv
<1> QED BY <1>1, Typed, PTL

(* No controller of M1Runtime breaks the contract of the policy, however   *)
(* the extractor names the holes of a node.                                *)
THEOREM KeepContract == Spec => []ControllersKeepContract
<1>1. Contracted => ControllersKeepContract BY DEF Contracted
<1> QED BY <1>1, Typed, PTL

(* A preflight that passes leaves everything priming the execution asks    *)
(* for, in either mode and after any number of probes.                     *)
THEOREM PreflightIsEnough == Spec => []PreflightSuffices
<1>1. Init => PreflightSuffices BY DEF Init, PreflightSuffices
<1>2. TypeInv /\ PreflightSuffices /\ [Next]_vars => PreflightSuffices'
  <2> SUFFICES ASSUME TypeInv, PreflightSuffices, [Next]_vars, stage' = "prime"
               PROVE  Primed'
    BY DEF PreflightSuffices
  <2>1. CASE Probe
    <3>1. PICK p \in Picks \cup {None}, found \in BOOLEAN :
            /\ pick' = p /\ place' = found
            /\ mode # "probe" /\ Gating(Holes(p, found)) = {}
      BY <2>1 DEF Probe
    <3>2. mode' = mode /\ mode \in {"grasp", "full"}
      BY <2>1, <3>1 DEF Probe, TypeInv, RuntimeOK
    <3>3. p # None
      <4>1. p = None => GraspPose \in Gating(Holes(p, found)) BY DEF Gating, Holes
      <4> QED BY <3>1, <4>1
    <3>4. mode = "full" => found
      <4>1. mode = "full" /\ ~found => HolderPose \in Gating(Holes(p, found))
        BY DEF Gating, Holes
      <4> QED BY <3>1, <4>1
    <3> QED BY <3>1, <3>2, <3>3, <3>4 DEF Primed
  <2>2. CASE Look
    BY <2>2 DEF Look, Observing, invocation
  <2>3. CASE Ends
    BY <2>3 DEF Ends, LookRaises, Decide, Observing, invocation
  <2>4. CASE ProbeRaises \/ Prime \/ Report
    BY <2>4 DEF ProbeRaises, Prime, Report
  <2>5. CASE Goes \/ Answers \/ Proceeds
    BY <2>5 DEF Goes, Decide, Answers, Unresolved, PickHole, CommandFails, NotSettled,
       StateUnread, Settled, Proceeds, PickStarts, Command, Controlling, Answer, invocation
  <2>6. CASE ArmStops \/ UNCHANGED vars
    BY <2>6 DEF ArmStops, vars, invocation, runtime, PreflightSuffices, Primed
  <2> QED BY <2>1, <2>2, <2>3, <2>4, <2>5, <2>6, NextSplit DEF Outside
<1> QED BY <1>1, <1>2, Typed, PTL DEF Spec

-----------------------------------------------------------------------------
(* What the attachment gate has to go by.                                  *)

(* The tube was perceived anew, risen off where the preflight saw it.      *)
Risen == \E j \in DOMAIN observed :
           /\ observed[j].source = "fresh" /\ observed[j].at # None
           /\ observed[j].at.z > preflight.z /\ observed[j].at.x = preflight.x

Held == [passed |-> TRUE, source |-> "fresh"]

(* Until the policy looks for the first time it is at its first pick, and  *)
(* what it will be shown is the pose of the accepted preflight.            *)
Begun ==
  /\ stage = "prime" => initial = At(pick) /\ preflight = At(pick)
  /\ stage \in {"preflight", "prime"} =>
       ~reuse /\ results = <<>> /\ pc = "visit" /\ current = entry
  /\ stage = "policy" => preflight \in Poses /\ initial = preflight
  /\ stage = "policy" /\ reuse =>
       /\ results = <<>> /\ pc \in {"visit", "observe"} /\ current = entry
       /\ pick \in Picks /\ pick.at = initial

(* A goal is only ever shown for a pick or a reorient, for a pick only on  *)
(* fresh evidence; so a cycle stops before its align, at the latest.       *)
Shown ==
  /\ Accepting => /\ Action \in {"pick", "reorient"}
                  /\ Action = "pick" => Risen /\ attachment = Held
  /\ IF mode = "grasp" THEN current \in {GraspEntry, NoNode}
                       ELSE current \in {CycleEntry, Second, Third}
  /\ current = NoNode => attachment = Held
  /\ outcome = "succeeded" => current = NoNode

PicksRisen ==
  \A i \in DOMAIN results :
    ActionOf[results[i].node] = "pick" /\ results[i].status # "failed" => Risen

EarnedInv == Begun /\ Shown /\ PicksRisen

LEMMA RisenStays ==
  ASSUME Risen, preflight' = preflight, observed \in Seq(Sightings),
         \/ observed' = observed
         \/ \E e \in Sightings : observed' = Append(observed, e)
  PROVE  Risen'
<1>1. PICK j \in DOMAIN observed :
         /\ observed[j].source = "fresh" /\ observed[j].at # None
         /\ observed[j].at.z > preflight.z /\ observed[j].at.x = preflight.x
  BY DEF Risen
<1>2. j \in DOMAIN observed' /\ observed'[j] = observed[j]
  BY <1>1, Appended
<1> QED BY <1>1, <1>2 DEF Risen

LEMMA ResultsRisen ==
  ASSUME PicksRisen, results \in Seq(NodeResults), results' \in Seq(NodeResults),
         Risen => Risen', NEW n, NEW status,
         status # "failed" /\ ActionOf[n] = "pick" => Risen',
         \E r : results' = Append(results, r) /\ r.node = n /\ r.status = status
  PROVE  PicksRisen'
<1>1. PICK r : results' = Append(results, r) /\ r.node = n /\ r.status = status
  OBVIOUS
<1>2. ASSUME NEW i \in DOMAIN results', ActionOf[results'[i].node] = "pick",
             results'[i].status # "failed"
      PROVE  Risen'
  <2>1. CASE i \in DOMAIN results
    <3>1. results'[i] = results[i] BY <1>1, <2>1
    <3> QED BY <1>2, <2>1, <3>1 DEF PicksRisen
  <2>2. CASE i \notin DOMAIN results
    <3>1. results'[i] = r BY <1>1, <1>2, <2>2
    <3> QED BY <1>1, <1>2, <3>1
  <2> QED BY <2>1, <2>2
<1> QED BY <1>2 DEF PicksRisen

LEMMA LookEarns ==
  ASSUME TypeInv, EarnedInv, Look
  PROVE  EarnedInv'
<1>1. PICK p \in Picks \cup {None} :
        /\ IF Reusing THEN ReusesPick(p) ELSE UNCHANGED reuse /\ Noted("fresh", p)
        /\ Seen(p, IF Reusing THEN "preflight_reuse" ELSE "fresh")
        /\ observation' = IF GoalShown(p) THEN {current} ELSE {}
  BY DEF Look
<1>2. /\ stage = "policy" /\ pc \in {"observe", "postObserve"} /\ pc' \in {"goal", "postGoal"}
      /\ current \in Nodes /\ current # NoNode
      /\ UNCHANGED <<entry, current, results, outcome, mode, stage, preflight>>
  BY GraphFacts DEF Look, Observing, invocation, TypeInv, P!Visiting
<1>3. initial' = initial /\ initial = preflight /\ preflight \in Poses
  BY <1>1, <1>2, M1Assumption DEF Seen, FirstSeen, EarnedInv, Begun
<1>4. reuse => Reusing /\ pick \in Picks /\ pick.at = initial
  BY <1>2, GraphFacts DEF EarnedInv, Begun, Reusing, Action, TypeInv, RuntimeOK
<1>5. ~reuse'
  BY <1>1, <1>4 DEF ReusesPick, Reusing, TypeInv, RuntimeOK
<1>6. Begun' BY <1>2, <1>3, <1>5 DEF Begun
<1>7. observed \in Seq(Sightings) BY DEF TypeInv, RuntimeOK
<1>8. PICK source \in {"fresh", "preflight_reuse"} :
        /\ observed' = Append(observed, [source |-> source, at |-> At(p)])
        /\ ~Reusing => source = "fresh"
  BY <1>1 DEF ReusesPick, Noted
<1>9. [source |-> source, at |-> At(p)] \in Sightings
  BY AtPose DEF Sightings
<1>10. Risen => Risen' BY <1>2, <1>7, <1>8, <1>9, RisenStays
<1>11. PicksRisen' BY <1>2, <1>10 DEF PicksRisen, EarnedInv
<1>12. ASSUME Accepting' PROVE Action' \in {"pick", "reorient"} /\ GoalShown(p)
  <2>1. GoalShown(p) BY <1>1, <1>12 DEF Accepting
  <2> QED BY <1>2, <2>1 DEF GoalShown, Action
<1>13. ASSUME Accepting', Action' = "pick" PROVE Risen' /\ attachment' = Held
  <2>1. p \in Picks /\ Lifted(preflight, p.at)
    BY <1>2, <1>3, <1>12, <1>13 DEF GoalShown, Action
  <2>2. p.at \in Poses /\ p.at # None /\ p.at.z > preflight.z /\ p.at.x = preflight.x
    BY <2>1, M1Assumption DEF Lifted, Picks
  <2>3. ~Reusing
    <3>1. Reusing => p = pick /\ reuse BY <1>1 DEF ReusesPick, Reusing
    <3>2. Reusing => p.at = preflight BY <1>3, <1>4, <3>1
    <3>3. preflight.z \in Nat BY <1>3 DEF Poses
    <3> QED BY <2>2, <3>2, <3>3
  <2> DEFINE e == [source |-> "fresh", at |-> p.at]
  <2>4. observed' = Append(observed, e) /\ e \in Sightings
    BY <1>8, <1>9, <2>1, <2>2, <2>3, M1Assumption DEF At
  <2>5. e.source = "fresh" /\ e.at = p.at OBVIOUS
  <2> HIDE DEF e
  <2>6. \E j \in DOMAIN observed' : observed'[j] = e
    BY <1>7, <2>4, Appended
  <2>7. Risen' BY <1>2, <2>2, <2>5, <2>6 DEF Risen
  <2>8. attachment' = [passed |-> Lifted(initial', p.at), source |-> "fresh"]
    BY <1>1, <2>1, <2>3, M1Assumption DEF Seen
  <2>9. Lifted(initial', p.at) = TRUE BY <1>3, <2>1 DEF Lifted
  <2> QED BY <2>7, <2>8, <2>9 DEF Held
<1>14. Shown' BY <1>2, <1>12, <1>13 DEF Shown, EarnedInv
<1> QED BY <1>6, <1>11, <1>14 DEF EarnedInv

LEMMA EndsEarn ==
  ASSUME TypeInv, Contracted, EarnedInv, Ends, TypeInv'
  PROVE  EarnedInv'
<1>1. PICK status \in {"succeeded", "skipped", "failed"}, attempts \in Nat,
           blame \in P!Blames \cup {NoId},
           reason \in P!Reasons \ {"not a ControllerResult", "unknown constraint"},
           last \in P!Phase :
        /\ P!Return(status, attempts, blame, reason, last)
        /\ P!Visiting
        /\ status # "failed" => Accepting
  BY EndsReturn
<1>2. /\ UNCHANGED <<entry, reuse, observed, mode, stage, preflight>>
      /\ current \in Nodes /\ current # NoNode /\ outcome # "succeeded" /\ stage = "policy"
  BY <1>1, EndsReturn, GraphFacts
  DEF invocation, TypeInv, EarnedInv, Shown, Ends, LookRaises, Decide, Observing
<1>3. initial' = initial
  <2>1. initial # None BY <1>2, M1Assumption DEF EarnedInv, Begun
  <2>2. \A p \in Picks : Seen(p, "fresh") => initial' = initial
    BY <2>1 DEF Seen, FirstSeen
  <2> QED BY <2>2 DEF Ends, LookRaises, Decide, runtime
<1>4. ~reuse
  <2>1. reuse /\ pc = "observe" => Reusing
    BY <1>2, GraphFacts DEF EarnedInv, Begun, Reusing, Action, TypeInv, RuntimeOK
  <2>2. reuse => pc = "observe" BY <1>1, <1>2 DEF EarnedInv, Begun, P!Visiting
  <2>3. CASE LookRaises BY <2>1, <2>2, <2>3 DEF LookRaises
  <2>4. CASE Decide /\ Endings
    <3>1. CASE P!ObserveFails
      BY <3>1, <2>4 DEF P!ObserveFails, Decide, P!RunLoop, P!Visit, P!Complete, P!Exceed,
         P!GoalHolds, P!GoalOpen, P!NotControllerResult, P!UnknownConstraint, P!ControllerOk,
         P!ControllerRetry, P!ControllerFails, P!Accepted, P!PostGoalHolds, P!PostGoalRetry,
         P!AttemptsExhausted, P!PostGoalOpen
    <3>2. CASE ~P!ObserveFails
      <4>1. pc # "observe"
        BY <2>4, <3>2 DEF Endings, P!PostObserveFails, P!GoalHolds, P!NotControllerResult,
           P!UnknownConstraint, P!ControllerFails, P!Accepted, P!PostGoalHolds,
           P!AttemptsExhausted, P!PostGoalOpen
      <4> QED BY <2>2, <4>1
    <3> QED BY <3>1, <3>2
  <2> QED BY <2>3, <2>4 DEF Ends
<1>5. Begun' BY <1>2, <1>3, <1>4 DEF Begun, EarnedInv
<1>6. pc' \in {"visit", "done"} BY <1>1 DEF P!Return
<1>7. Risen => Risen' BY <1>2 DEF Risen
<1>8. PicksRisen'
  <2>1. ASSUME status # "failed", ActionOf[current] = "pick" PROVE Risen'
    BY <1>1, <1>7, <2>1 DEF EarnedInv, Shown, Action
  <2> DEFINE r == [node |-> current, status |-> status, attempts |-> attempts,
                   constraint |-> blame, reason |-> reason, phases |-> phases']
  <2>a. results' = Append(results, r) BY <1>1 DEF P!Return
  <2>b. r.node = current /\ r.status = status OBVIOUS
  <2> HIDE DEF r
  <2>2. \E e : results' = Append(results, e) /\ e.node = current /\ e.status = status
    BY <2>a, <2>b
  <2>3. results \in Seq(NodeResults) /\ results' \in Seq(NodeResults)
    BY DEF TypeInv, P!TypeOK, NodeResults
  <2> QED BY <1>7, <2>1, <2>2, <2>3, ResultsRisen DEF EarnedInv
<1>9. CASE status = "failed"
  <2>1. current' = current /\ outcome' = "failed" BY <1>1, <1>9 DEF P!Return
  <2>2. Shown' BY <1>2, <1>6, <2>1 DEF Shown, EarnedInv, Accepting
  <2> QED BY <1>5, <1>8, <2>2 DEF EarnedInv
<1>10. CASE status # "failed"
  <2>1. current' = NextOf[current] /\ outcome' = outcome BY <1>1, <1>10 DEF P!Return
  <2>2. Action \in {"pick", "reorient"} /\ (Action = "pick" => attachment = Held)
    BY <1>1, <1>10 DEF EarnedInv, Shown
  <2>3. CASE mode = "grasp"
    <3>1. current = GraspEntry BY <1>2, <2>3 DEF EarnedInv, Shown
    <3>2. current' = NoNode /\ attachment = Held
      BY <2>1, <2>2, <3>1, GraphFacts DEF Action
    <3>3. attachment' = attachment
      BY <1>1, <1>10 DEF Ends, LookRaises, Decide, runtime, Accepting, Observing
    <3>4. Shown' BY <1>2, <1>6, <2>3, <3>2, <3>3 DEF Shown, Accepting
    <3> QED BY <1>5, <1>8, <3>4 DEF EarnedInv
  <2>4. CASE mode # "grasp"
    <3>1. current' \in {Second, Third}
      BY <1>2, <2>1, <2>2, <2>4, GraphFacts DEF EarnedInv, Shown, Action, Second, Third
    <3>2. Shown' BY <1>2, <1>6, <2>1, <2>4, <3>1, GraphFacts DEF Shown, Accepting
    <3> QED BY <1>5, <1>8, <3>2 DEF EarnedInv
  <2> QED BY <2>3, <2>4
<1> QED BY <1>9, <1>10

LEMMA EarnedHolds == Spec => []EarnedInv
<1>1. Init => EarnedInv
  <2> SUFFICES ASSUME Init PROVE EarnedInv
    OBVIOUS
  <2>1. current # NoNode /\ results = <<>> BY GraphFacts DEF Init
  <2> QED BY <2>1 DEF Init, EarnedInv, Begun, Shown, PicksRisen, Accepting
<1>2. TypeInv /\ Contracted /\ TypeInv' /\ EarnedInv /\ [Next]_vars => EarnedInv'
  <2> SUFFICES ASSUME TypeInv, Contracted, TypeInv', EarnedInv, [Next]_vars
               PROVE  EarnedInv'
    OBVIOUS
  <2>0. ASSUME UNCHANGED <<observed, preflight, results>> PROVE PicksRisen'
    BY <2>0 DEF EarnedInv, PicksRisen, Risen
  <2>1. CASE Probe
    <3>1. /\ stage = "preflight" /\ stage' # "policy" /\ ~reuse'
          /\ pick' \in Picks \cup {None} /\ initial' = At(pick') /\ preflight' = At(pick')
          /\ UNCHANGED <<entry, pc, current, results, outcome, observation, mode, attachment>>
      BY <2>1 DEF Probe, Forgotten, policy
    <3>2. Begun' BY <3>1 DEF Begun, EarnedInv, At
    <3>3. results = <<>> /\ pc = "visit" BY <3>1 DEF EarnedInv, Begun
    <3>4. PicksRisen' BY <3>1, <3>3 DEF PicksRisen
    <3>5. Shown' BY <3>1, <3>3 DEF EarnedInv, Shown, Accepting
    <3> QED BY <3>2, <3>4, <3>5 DEF EarnedInv
  <2>2. CASE ProbeRaises \/ Report
    <3>1. /\ stage' = "over"
          /\ UNCHANGED <<policy, pick, initial, preflight, observed, attachment, mode>>
      BY <2>2 DEF ProbeRaises, Report, runtime
    <3>2. Begun' BY <3>1 DEF Begun
    <3>3. Shown' BY <3>1 DEF policy, EarnedInv, Shown, Accepting, Action, Risen
    <3>4. PicksRisen' BY <2>0, <3>1 DEF policy
    <3> QED BY <3>2, <3>3, <3>4 DEF EarnedInv
  <2>3. CASE Prime
    <3>1. /\ stage = "prime" /\ stage' \in {"policy", "over"}
          /\ stage' = "policy" => pick \in Picks
          /\ UNCHANGED <<policy, pick, initial, preflight, observed, attachment, mode>>
      BY <2>3 DEF Prime, Primed, TypeInv, RuntimeOK
    <3>2. /\ initial = At(pick) /\ preflight = At(pick)
          /\ results = <<>> /\ pc = "visit" /\ current = entry
      BY <3>1 DEF EarnedInv, Begun
    <3>3. stage' = "policy" => At(pick) = pick.at /\ At(pick) \in Poses
      BY <3>1, M1Assumption DEF At, Picks
    <3>4. Begun' BY <3>1, <3>2, <3>3 DEF Begun, policy
    <3>5. Shown' BY <3>1 DEF policy, EarnedInv, Shown, Accepting, Action, Risen
    <3>6. PicksRisen' BY <2>0, <3>1 DEF policy
    <3> QED BY <3>4, <3>5, <3>6 DEF EarnedInv
  <2>4. CASE Look BY <2>4, LookEarns
  <2>5. CASE Ends BY <2>5, EndsEarn
  <2>6. CASE Goes
    <3>1. UNCHANGED <<entry, pick, initial, reuse, attachment, observed, mode, stage, preflight,
                      results>>
      BY <2>6 DEF Goes, Decide, runtime, invocation, P!RunLoop, P!Visit, P!Complete, P!Exceed,
         P!GoalOpen, P!ControllerOk, P!ControllerRetry, P!PostGoalRetry, P!Retry
    <3>2. PicksRisen' BY <2>0, <3>1
    <3>3. /\ current' = current /\ pc' \notin {"goal", "postGoal"} /\ stage = "policy"
          /\ outcome' = "succeeded" => outcome = "succeeded" \/ current = NoNode
      BY <2>6 DEF Goes, Decide, P!RunLoop, P!Visit, P!Complete, P!Exceed,
         P!GoalOpen, P!ControllerOk, P!ControllerRetry, P!PostGoalRetry, P!Retry
    <3>4. Shown' BY <3>1, <3>3 DEF EarnedInv, Shown, Accepting
    <3>5. ASSUME reuse PROVE pc' = "observe"
      <4>1. results = <<>> /\ pc \in {"visit", "observe"} /\ current = entry
        BY <3>3, <3>5 DEF EarnedInv, Begun
      <4>2. current # NoNode /\ Len(results) # MaxNodeVisits
        BY <4>1, GraphFacts DEF TypeInv, RuntimeOK
      <4>3. P!Visit
        BY <2>6, <4>1, <4>2 DEF Goes, P!RunLoop, P!Complete, P!Exceed, P!GoalOpen,
           P!ControllerOk, P!ControllerRetry, P!Accepted, P!PostGoalRetry, P!PostGoalOpen
      <4> QED BY <4>3 DEF P!Visit
    <3>6. Begun' BY <3>1, <3>3, <3>5 DEF EarnedInv, Begun
    <3> QED BY <3>2, <3>4, <3>6 DEF EarnedInv
  <2>7. CASE Answers \/ Proceeds
    <3>1. UNCHANGED <<entry, current, results, outcome, observation, runtime, invocation>>
      BY <2>7 DEF Answers, Unresolved, PickHole, CommandFails, NotSettled, StateUnread,
         Settled, Proceeds, PickStarts, Command, Answer, policy
    <3>2. stage = "policy" /\ pc = "control" /\ pc' \in {"control", "controlled"}
      BY <2>7 DEF Answers, Unresolved, PickHole, CommandFails, NotSettled, StateUnread,
         Settled, Proceeds, PickStarts, Command, Controlling, Answer, policy
    <3>3. PicksRisen' BY <2>0, <3>1 DEF runtime, invocation
    <3>4. Shown' BY <3>1, <3>2 DEF runtime, invocation, EarnedInv, Shown, Accepting
    <3>5. Begun' BY <3>1, <3>2 DEF runtime, invocation, EarnedInv, Begun
    <3> QED BY <3>3, <3>4, <3>5 DEF EarnedInv
  <2>8. CASE ArmStops \/ UNCHANGED vars
    <3>1. UNCHANGED <<policy, runtime, invocation>> BY <2>8 DEF ArmStops, vars
    <3>2. PicksRisen' BY <2>0, <3>1 DEF policy, runtime, invocation
    <3>3. Shown' BY <3>1 DEF policy, runtime, invocation, EarnedInv, Shown, Accepting, Action, Risen
    <3>4. Begun' BY <3>1 DEF policy, runtime, invocation, EarnedInv, Begun
    <3> QED BY <3>2, <3>3, <3>4 DEF EarnedInv
  <2> QED BY <2>1, <2>2, <2>3, <2>4, <2>5, <2>6, <2>7, <2>8, NextSplit DEF Outside
<1> QED BY <1>1, <1>2, Typed, PTL DEF Spec

(* A pick is reported as done only if the tube was perceived anew above    *)
(* where the accepted preflight saw it, and a run succeeds only on such    *)
(* evidence: whatever the commands reported, how often the policy retried  *)
(* and which of the observations were the preflight's own.                 *)
THEOREM AttachmentEarned == Spec => []AttachmentIsEarned
<1>1. EarnedInv => AttachmentIsEarned
  BY DEF EarnedInv, Shown, PicksRisen, Risen, Held, AttachmentIsEarned
<1> QED BY <1>1, EarnedHolds, PTL

-----------------------------------------------------------------------------
(* A failed node is blamed on one of its own constraints or holes, and     *)
(* never on its contract: what went wrong with a command, a look or a goal *)
(* is not taken for a broken controller.                                   *)
BlameIsOwn ==
  \A i \in DOMAIN results :
    results[i].status = "failed" => results[i].constraint \in Attributable[results[i].node]

LEMMA OwnBlameAdded ==
  ASSUME BlameIsOwn, results \in Seq(NodeResults),
         \E e : /\ results' = Append(results, e)
                /\ e.status = "failed" => e.constraint \in Attributable[e.node]
  PROVE  BlameIsOwn'
<1>1. PICK e : /\ results' = Append(results, e)
               /\ e.status = "failed" => e.constraint \in Attributable[e.node]
  OBVIOUS
<1>2. ASSUME NEW i \in DOMAIN results', results'[i].status = "failed"
      PROVE  results'[i].constraint \in Attributable[results'[i].node]
  <2>1. CASE i \in DOMAIN results
    <3>1. results'[i] = results[i] BY <1>1, <2>1
    <3> QED BY <1>2, <2>1, <3>1 DEF BlameIsOwn
  <2>2. CASE i \notin DOMAIN results
    <3>1. results'[i] = e BY <1>1, <1>2, <2>2
    <3> QED BY <1>1, <1>2, <3>1
  <2> QED BY <2>1, <2>2
<1> QED BY <1>2 DEF BlameIsOwn

(* A node that fails is blamed on its own constraints, its own holes or    *)
(* its own contract, under the names M1Runtime's perception reports them.  *)
THEOREM OwnBlame == Spec => []BlameIsOwn
<1>1. Init => BlameIsOwn BY DEF Init, BlameIsOwn
<1>2. TypeInv /\ Contracted /\ BlameIsOwn /\ [Next]_vars => BlameIsOwn'
  <2> SUFFICES ASSUME TypeInv, Contracted, BlameIsOwn, [Next]_vars PROVE BlameIsOwn'
    OBVIOUS
  <2>1. CASE Ends
    <3>1. PICK status \in {"succeeded", "skipped", "failed"}, attempts \in Nat,
               blame \in P!Blames \cup {NoId},
               reason \in P!Reasons \ {"not a ControllerResult", "unknown constraint"},
               last \in P!Phase :
            /\ P!Return(status, attempts, blame, reason, last)
            /\ status = "failed" => blame \in Attributable[current]
      BY <2>1, EndsReturn
    <3> DEFINE r == [node |-> current, status |-> status, attempts |-> attempts,
                     constraint |-> blame, reason |-> reason, phases |-> phases']
    <3>2. results' = Append(results, r) BY <3>1 DEF P!Return
    <3>3. r.status = "failed" => r.constraint \in Attributable[r.node] BY <3>1
    <3> HIDE DEF r
    <3>4. \E e : /\ results' = Append(results, e)
                 /\ e.status = "failed" => e.constraint \in Attributable[e.node]
      BY <3>2, <3>3
    <3>5. results \in Seq(NodeResults) BY DEF TypeInv, P!TypeOK, NodeResults
    <3> QED BY <3>4, <3>5, OwnBlameAdded
  <2>2. CASE ~Ends
    <3>1. results' = results
      BY <2>2, NextSplit DEF Outside, Probe, ProbeRaises, Prime, Report, Look, Goes, P!RunLoop,
         P!Visit, P!Complete, P!Exceed, P!GoalOpen, P!ControllerOk, P!ControllerRetry,
         P!PostGoalRetry, P!Retry, Answers, Unresolved, PickHole, CommandFails, NotSettled,
         StateUnread, Settled, Proceeds, PickStarts, Command, Answer, ArmStops, policy, vars
    <3> QED BY <3>1 DEF BlameIsOwn
  <2> QED BY <2>1, <2>2
<1> QED BY <1>1, <1>2, Typed, PTL DEF Spec

-----------------------------------------------------------------------------
(* A controller that has begun to move the robot is still in its call, and *)
(* of the calls of the visit this attempt's is counted from then on.       *)
Counting ==
  /\ step # "idle" => pc = "control" /\ Action = "pick"
  /\ P!Visiting =>
       /\ attempt <= MaxAttempts[current]
       /\ calls = IF pc \in {"observe", "goal"} \/ (pc = "control" /\ step = "idle")
                    THEN attempt - 1 ELSE attempt

LEMMA EndsReport ==
  ASSUME TypeInv, Counting, Ends
  PROVE  /\ P!Visiting /\ calls <= MaxAttempts[current] /\ current \in Nodes
         /\ UNCHANGED <<calls, step>>
         /\ \E status, blame, reason, last : P!Return(status, calls, blame, reason, last)
<1>1. Endings /\ UNCHANGED <<calls, step>>
  BY DEF Ends, LookRaises, Decide, Endings, robot, P!frame, P!ObserveFails, P!PostObserveFails,
     P!GoalHolds, P!NotControllerResult, P!UnknownConstraint, P!ControllerFails,
     P!PostGoalHolds, P!AttemptsExhausted
<1>2. P!Visiting
  BY <1>1 DEF Endings, P!ObserveFails, P!PostObserveFails, P!GoalHolds, P!NotControllerResult,
     P!UnknownConstraint, P!ControllerFails, P!Accepted, P!PostGoalHolds,
     P!AttemptsExhausted, P!PostGoalOpen, P!Visiting
<1>3. /\ current \in Nodes /\ attempt \in Nat \ {0} /\ MaxAttempts[current] \in Nat
      /\ attempt <= MaxAttempts[current]
  BY <1>2, NodeFacts DEF TypeInv, P!TypeOK, Counting
<1>4. CASE P!ObserveFails \/ P!GoalHolds
  <2>1. calls = attempt - 1 BY <1>2, <1>4 DEF Counting, P!ObserveFails, P!GoalHolds
  <2>2. \E status, blame, reason, last : P!Return(status, attempt - 1, blame, reason, last)
    BY <1>4 DEF P!ObserveFails, P!GoalHolds, P!Fail
  <2> QED BY <1>1, <1>2, <1>3, <2>1, <2>2
<1>5. CASE \/ P!NotControllerResult \/ P!UnknownConstraint \/ P!ControllerFails
           \/ P!PostObserveFails \/ P!PostGoalHolds
  <2>1. calls = attempt
    BY <1>2, <1>5 DEF Counting, P!NotControllerResult, P!UnknownConstraint, P!ControllerFails,
       P!Accepted, P!PostObserveFails, P!PostGoalHolds
  <2>2. \E status, blame, reason, last : P!Return(status, attempt, blame, reason, last)
    BY <1>5 DEF P!NotControllerResult, P!UnknownConstraint, P!ControllerFails,
       P!PostObserveFails, P!PostGoalHolds, P!Fail
  <2> QED BY <1>1, <1>2, <1>3, <2>1, <2>2
<1>6. CASE P!AttemptsExhausted
  <2>1. calls = attempt /\ attempt = MaxAttempts[current]
    BY <1>2, <1>6 DEF Counting, P!AttemptsExhausted, P!PostGoalOpen
  <2>2. \E status, blame, reason, last :
          P!Return(status, MaxAttempts[current], blame, reason, last)
    BY <1>6 DEF P!AttemptsExhausted, P!Fail
  <2> QED BY <1>1, <1>2, <1>3, <2>1, <2>2
<1> QED BY <1>1, <1>4, <1>5, <1>6 DEF Endings

(* The attempts a result reports are the times its controller was entered, *)
(* also when a command was lost in the middle of the grasp: a node moves   *)
(* the robot at most max_attempts times.                                   *)
THEOREM AttemptBudget == Spec => []P!AttemptsAreCalls
<1>1. Init => Counting /\ P!AttemptsAreCalls
  BY DEF Init, Counting, P!AttemptsAreCalls, P!Visiting, P!Finished
<1>2. TypeInv /\ TypeInv' /\ Counting /\ P!AttemptsAreCalls /\ [Next]_vars
        => Counting' /\ P!AttemptsAreCalls'
  <2> SUFFICES ASSUME TypeInv, TypeInv', Counting, P!AttemptsAreCalls, [Next]_vars
               PROVE  Counting' /\ P!AttemptsAreCalls'
    OBVIOUS
  <2>0. /\ attempt \in Nat \ {0} /\ calls \in Nat
        /\ P!Visiting => current \in Nodes /\ MaxAttempts[current] \in Nat \ {0}
    BY NodeFacts DEF TypeInv, P!TypeOK
  <2>1. CASE Outside \/ ArmStops \/ UNCHANGED vars
    <3>1. UNCHANGED <<policy, step>>
      BY <2>1 DEF Outside, Probe, ProbeRaises, Prime, Report, ArmStops, vars, robot
    <3> QED
      BY <3>1 DEF policy, Counting, Action, P!AttemptsAreCalls, P!Finished, P!Visiting,
         P!LastResult
  <2>2. CASE Look
    <3>1. /\ pc \in {"observe", "postObserve"} /\ pc' = IF pc = "observe" THEN "goal" ELSE "postGoal"
          /\ UNCHANGED <<current, attempt, calls, step>>
      BY <2>2 DEF Look, Observing, robot
    <3> QED
      BY <3>1 DEF Counting, Action, P!AttemptsAreCalls, P!Finished, P!Visiting
  <2>3. CASE Ends
    <3>1. PICK status, blame, reason, last : P!Return(status, calls, blame, reason, last)
      BY <2>3, EndsReport
    <3>2. results \in Seq(NodeResults) BY DEF TypeInv, P!TypeOK, NodeResults
    <3> DEFINE r == [node |-> current, status |-> status, attempts |-> calls,
                     constraint |-> blame, reason |-> reason, phases |-> phases']
    <3>3. results' = Append(results, r) BY <3>1 DEF P!Return
    <3>4. r.node = current /\ r.attempts = calls OBVIOUS
    <3> HIDE DEF r
    <3>5. P!LastResult' = r BY <3>2, <3>3 DEF P!LastResult
    <3>6. pc' \in {"visit", "done"} BY <3>1 DEF P!Return
    <3>7. calls' = calls /\ calls <= MaxAttempts[current] /\ step' = step /\ pc # "control"
      BY <2>3, EndsReport DEF Ends, LookRaises, Observing, Endings, P!ObserveFails,
         P!PostObserveFails, P!GoalHolds, P!NotControllerResult, P!UnknownConstraint,
         P!ControllerFails, P!Accepted, P!PostGoalHolds, P!AttemptsExhausted, P!PostGoalOpen
    <3> QED BY <3>4, <3>5, <3>6, <3>7 DEF Counting, P!AttemptsAreCalls, P!Visiting
  <2>4. CASE Goes
    <3>0. step' = step BY <2>4 DEF Goes, Decide, robot
    <3>1. CASE P!Visit
      <4>1. current' \in Nodes /\ attempt' = 1 /\ calls' = 0 /\ pc' = "observe" /\ pc = "visit"
        BY <3>1 DEF P!Visit, TypeInv, P!TypeOK
      <4>2. MaxAttempts[current'] \in Nat \ {0} BY <4>1, NodeFacts
      <4> QED
        BY <3>0, <4>1, <4>2 DEF Counting, P!AttemptsAreCalls, P!Finished, P!Visiting
    <3>2. CASE P!Complete \/ P!Exceed
      BY <3>0, <3>2 DEF P!Complete, P!Exceed, P!frame, Counting, P!AttemptsAreCalls,
         P!Finished, P!Visiting, P!LastResult
    <3>3. CASE P!GoalOpen \/ P!ControllerOk
      BY <3>0, <3>3 DEF P!GoalOpen, P!ControllerOk, P!Accepted, P!frame, Counting, Action,
         P!AttemptsAreCalls, P!Finished, P!Visiting
    <3>4. CASE P!ControllerRetry \/ P!PostGoalRetry
      <4>1. /\ P!Visiting /\ pc \in {"controlled", "postGoal"} /\ pc' = "observe"
            /\ attempt < MaxAttempts[current] /\ attempt' = attempt + 1
            /\ UNCHANGED <<current, calls>>
        BY <3>4 DEF P!ControllerRetry, P!Accepted, P!PostGoalRetry, P!PostGoalOpen, P!Retry,
           P!Visiting
      <4> QED
        BY <2>0, <3>0, <4>1 DEF Counting, P!AttemptsAreCalls, P!Finished, P!Visiting
    <3> QED BY <2>4, <3>1, <3>2, <3>3, <3>4 DEF Goes, P!RunLoop
  <2>5. CASE Answers
    <3>1. /\ pc = "control" /\ pc' = "controlled" /\ step' = "idle"
          /\ UNCHANGED <<current, attempt>>
          /\ calls' = IF step = "idle" THEN calls + 1 ELSE calls
      BY <2>5 DEF Answers, Unresolved, PickHole, CommandFails, NotSettled, StateUnread,
         Settled, Controlling, Answer, Counting
    <3> QED
      BY <2>0, <3>1 DEF Counting, P!AttemptsAreCalls, P!Finished, P!Visiting
  <2>6. CASE Proceeds
    <3>1. /\ pc = "control" /\ pc' = "control" /\ step' # "idle" /\ Action = "pick"
          /\ UNCHANGED <<current, attempt>>
          /\ calls' = IF step = "idle" THEN calls + 1 ELSE calls
      <4>1. CASE PickStarts BY <4>1 DEF PickStarts, Controlling
      <4>2. CASE Command BY <4>2 DEF Command, Controlling, After, policy, Counting
      <4>3. CASE Settled /\ step = "reached"
        BY <4>3 DEF Settled, Controlling, After, policy, Counting
      <4> QED BY <2>6, <4>1, <4>2, <4>3 DEF Proceeds
    <3> QED
      BY <2>0, <3>1 DEF Counting, Action, P!AttemptsAreCalls, P!Finished, P!Visiting
  <2> QED BY <2>1, <2>2, <2>3, <2>4, <2>5, <2>6, NextSplit
<1> QED BY <1>1, <1>2, Typed, PTL DEF Spec
=============================================================================
