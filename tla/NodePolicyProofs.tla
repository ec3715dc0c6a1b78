-------------------------- MODULE NodePolicyProofs --------------------------
(***************************************************************************)
(* Theorems about NodePolicy, for every graph, retry bound and visit       *)
(* budget that the constructors of models.py and runner.py accept.         *)
(***************************************************************************)
EXTENDS NodePolicy, TLAPS

USE DEF ValidGraph, ValidNodes

(* A node is being visited exactly between Visit and Return.               *)
TypeInv == TypeOK /\ (Visiting => current \in Nodes)

TypedReturn ==
  /\ results' \in Seq(NodeResults)
  /\ phases' \in Seq(Phase)
  /\ pc' \in {"visit", "done"}
  /\ current' \in Nodes \cup {NoNode}
  /\ outcome' \in {"running", "succeeded", "failed", "exceeded"}
  /\ world' \in SUBSET Nodes

(* A node result of the right types keeps the state well typed, whichever  *)
(* return statement of _run_node produced it.                              *)
LEMMA ReturnType ==
  ASSUME TypeInv, Visiting,
         NEW status \in {"succeeded", "skipped", "failed"}, NEW attempts \in Nat,
         NEW blame \in Blames \cup {NoId}, NEW reason \in Reasons, NEW last \in Phase,
         Return(status, attempts, blame, reason, last)
  PROVE  TypedReturn
<1>1. current \in Nodes BY DEF TypeInv
<1>2. phases' \in Seq(Phase) BY DEF TypeInv, TypeOK, Return
<1>3. [node |-> current, status |-> status, attempts |-> attempts,
       constraint |-> blame, reason |-> reason, phases |-> phases'] \in NodeResults
  BY <1>1, <1>2 DEF NodeResults
<1>4. results' \in Seq(NodeResults) BY <1>3 DEF TypeInv, TypeOK, Return
<1>5. current' \in Nodes \cup {NoNode} /\ pc' \in {"visit", "done"}
  BY <1>1, GraphAssumption DEF Return, TypeInv, TypeOK
<1> QED BY <1>2, <1>4, <1>5 DEF Return, TypeInv, TypeOK, TypedReturn

(* _failure always finds a constraint to blame.                            *)
LEMMA FailReturns ==
  ASSUME TypeInv, Visiting, NEW attempts \in Nat, NEW blame \in Blames \cup {NoId},
         NEW reason \in Reasons, Fail(attempts, blame, reason)
  PROVE  \E b \in Blames : Return("failed", attempts, b, reason, "FAILED")
<1>1. current \in Nodes BY DEF TypeInv
<1>2. FirstConstraint[current] \in Blames BY <1>1, NodeAssumption DEF Blames
<1> QED BY <1>2 DEF Fail

LEMMA FailType ==
  ASSUME TypeInv, Visiting, NEW attempts \in Nat, NEW blame \in Blames \cup {NoId},
         NEW reason \in Reasons, Fail(attempts, blame, reason)
  PROVE  TypedReturn
<1>1. PICK b \in Blames : Return("failed", attempts, b, reason, "FAILED")
  BY FailReturns
<1> HIDE DEF Return
<1> QED BY <1>1, ReturnType DEF Phase

(* Every variable keeps its type: the state of the policy stays one that   *)
(* NodeRunResult, ControllerResult and NodePhase can hold.                 *)
THEOREM Typing == Spec => []TypeInv
<1>1. Init => TypeInv
  BY GraphAssumption DEF Init, TypeInv, TypeOK, Visiting, Phase
<1>2. TypeInv /\ [Next]_vars => TypeInv'
  <2> SUFFICES ASSUME TypeInv, [Next]_vars PROVE TypeInv'
    OBVIOUS
  <2>e. entry \in Entries /\ UNCHANGED entry BY DEF Next, vars, TypeInv, TypeOK
  <2>a. attempt \in Nat /\ attempt - 1 \in Nat /\ NoId \in Blames \cup {NoId}
    BY DEF TypeOK, TypeInv
  <2>b. Visiting => current \in Nodes /\ Contract(current) \in Blames \cup {NoId}
    BY DEF Blames, TypeInv
  <2>1. CASE Visit
    BY <2>e, <2>1 DEF Visit, Phase, TypeOK, TypeInv, Visiting
  <2>2. CASE Complete
    BY <2>e, <2>2 DEF Complete, frame, TypeOK, TypeInv, Visiting
  <2>3. CASE Exceed
    BY <2>e, <2>3 DEF Exceed, frame, TypeOK, TypeInv, Visiting
  <2>4. CASE Observe
    BY <2>e, <2>4 DEF Observe, frame, TypeOK, TypeInv, Visiting
  <2>5. CASE ObserveFails
    <3>1. Fail(attempt - 1, NoId, "observe failed") /\ Visiting
      BY <2>5 DEF ObserveFails, Visiting
    <3>2. TypedReturn BY <3>1, <2>a, <2>b, FailType DEF Reasons
    <3> QED BY <2>e, <2>5, <3>2 DEF ObserveFails, frame, TypedReturn, TypeOK, TypeInv, Visiting
  <2>6. CASE GoalHolds
    <3>1. Return("skipped", attempt - 1, NoId, "", "SUCCEEDED") /\ Visiting
      BY <2>6 DEF GoalHolds, Visiting
    <3>2. TypedReturn BY <3>1, <2>a, <2>b, ReturnType DEF Phase, Reasons
    <3> QED BY <2>e, <2>6, <3>2 DEF GoalHolds, frame, TypedReturn, TypeOK, TypeInv, Visiting
  <2>7. CASE GoalOpen
    BY <2>e, <2>7 DEF GoalOpen, frame, Phase, TypeOK, TypeInv, Visiting
  <2>8. CASE GoalCheckFails
    <3>1. Fail(attempt - 1, NoId, "goal check failed") /\ Visiting
      BY <2>8 DEF GoalCheckFails, Visiting
    <3>2. TypedReturn BY <3>1, <2>a, <2>b, FailType DEF Reasons
    <3> QED BY <2>e, <2>8, <3>2 DEF GoalCheckFails, frame, TypedReturn, TypeOK, TypeInv, Visiting
  <2>9. CASE Control
    BY <2>e, <2>9 DEF Control, TypeOK, TypeInv, Visiting
  <2>10. CASE NotControllerResult
    <3>1. Fail(attempt, Contract(current), "not a ControllerResult") /\ Visiting
      BY <2>10 DEF NotControllerResult, Visiting
    <3>2. TypedReturn BY <3>1, <2>a, <2>b, FailType DEF Reasons
    <3> QED BY <2>e, <2>10, <3>2 DEF NotControllerResult, frame, TypedReturn, TypeOK, TypeInv, Visiting
  <2>11. CASE UnknownConstraint
    <3>1. Fail(attempt, Contract(current), "unknown constraint") /\ Visiting
      BY <2>11 DEF UnknownConstraint, Visiting
    <3>2. TypedReturn BY <3>1, <2>a, <2>b, FailType DEF Reasons
    <3> QED BY <2>e, <2>11, <3>2 DEF UnknownConstraint, frame, TypedReturn, TypeOK, TypeInv, Visiting
  <2>c. ASSUME Accepted PROVE lastConstraint' \in Ids \cup {NoId}
    BY <2>c DEF Accepted, TypeOK, TypeInv, Reports
  <2>12. CASE ControllerOk
    BY <2>e, <2>12, <2>c DEF ControllerOk, Accepted, Phase, TypeOK, TypeInv, Visiting
  <2>13. CASE ControllerRetry
    BY <2>e, <2>13, <2>c DEF ControllerRetry, Retry, Accepted, Phase, TypeOK, TypeInv, Visiting
  <2>14. CASE ControllerFails
    <3>1. Fail(attempt, lastConstraint', "controller failed") /\ Visiting
      BY <2>14 DEF ControllerFails, Accepted, Visiting
    <3>2. lastConstraint' \in Ids \cup {NoId} BY <2>14, <2>c DEF ControllerFails
    <3>3. lastConstraint' \in Blames \cup {NoId} BY <3>2 DEF Blames
    <3>4. TypedReturn BY <3>1, <3>3, <2>a, FailType DEF Reasons
    <3> QED BY <2>e, <2>14, <3>2, <3>4 DEF ControllerFails, TypedReturn, TypeOK, TypeInv, Visiting
  <2>15. CASE PostObserve
    BY <2>e, <2>15 DEF PostObserve, frame, TypeOK, TypeInv, Visiting
  <2>16. CASE PostObserveFails
    <3>1. Fail(attempt, NoId, "post-observe failed") /\ Visiting
      BY <2>16 DEF PostObserveFails, Visiting
    <3>2. TypedReturn BY <3>1, <2>a, <2>b, FailType DEF Reasons
    <3> QED BY <2>e, <2>16, <3>2 DEF PostObserveFails, frame, TypedReturn, TypeOK, TypeInv, Visiting
  <2>17. CASE PostGoalHolds
    <3>1. Return("succeeded", attempt, NoId, "", "SUCCEEDED") /\ Visiting
      BY <2>17 DEF PostGoalHolds, Visiting
    <3>2. TypedReturn BY <3>1, <2>a, <2>b, ReturnType DEF Phase, Reasons
    <3> QED BY <2>e, <2>17, <3>2 DEF PostGoalHolds, frame, TypedReturn, TypeOK, TypeInv, Visiting
  <2>18. CASE PostGoalCheckFails
    <3>1. Fail(attempt, NoId, "postcondition check failed") /\ Visiting
      BY <2>18 DEF PostGoalCheckFails, Visiting
    <3>2. TypedReturn BY <3>1, <2>a, <2>b, FailType DEF Reasons
    <3> QED BY <2>e, <2>18, <3>2 DEF PostGoalCheckFails, frame, TypedReturn, TypeOK, TypeInv, Visiting
  <2>d. ASSUME PostGoalOpen PROVE lastConstraint' \in Ids /\ MaxAttempts[current] \in Nat
    BY <2>d, NodeAssumption DEF PostGoalOpen, TypeInv, Visiting
  <2>19. CASE PostGoalRetry
    BY <2>e, <2>19, <2>d DEF PostGoalRetry, PostGoalOpen, Retry, Phase, TypeOK, TypeInv, Visiting
  <2>20. CASE AttemptsExhausted
    <3>1. /\ Fail(MaxAttempts[current], lastConstraint', "goal not satisfied after controller")
          /\ Visiting
      BY <2>20 DEF AttemptsExhausted, PostGoalOpen, Visiting
    <3>2. lastConstraint' \in Ids /\ MaxAttempts[current] \in Nat
      BY <2>20, <2>d DEF AttemptsExhausted
    <3>3. lastConstraint' \in Blames \cup {NoId} BY <3>2 DEF Blames
    <3>4. TypedReturn BY <3>1, <3>2, <3>3, FailType DEF Reasons
    <3> QED BY <2>e, <2>20, <3>2, <3>4 DEF AttemptsExhausted, TypedReturn, TypeOK, TypeInv, Visiting
  <2>21. CASE UNCHANGED vars BY <2>e, <2>21 DEF vars, frame, TypeOK, TypeInv, Visiting
  <2> QED
    BY <2>1, <2>2, <2>3, <2>4, <2>5, <2>6, <2>7, <2>8, <2>9, <2>10, <2>11, <2>12,
       <2>13, <2>14, <2>15, <2>16, <2>17, <2>18, <2>19, <2>20, <2>21
    DEF Next, Steps, RunLoop, BeforeControl, OnControl, AfterControl
<1> QED BY <1>1, <1>2, PTL DEF Spec

-----------------------------------------------------------------------------
(* Every action that ends a visit is a Return of some result.              *)

Ending == \/ ObserveFails \/ GoalHolds \/ GoalCheckFails \/ NotControllerResult
          \/ UnknownConstraint \/ ControllerFails \/ PostObserveFails
          \/ PostGoalHolds \/ PostGoalCheckFails \/ AttemptsExhausted

Continuing == \/ Observe \/ GoalOpen \/ Control \/ ControllerOk \/ ControllerRetry
              \/ PostObserve \/ PostGoalRetry

LEMMA NextSplit == Next => RunLoop \/ Ending \/ Continuing
BY Zenon DEF Next, Steps, BeforeControl, OnControl, AfterControl, Ending, Continuing

(* What the step between two attempts relies on: an observation describes  *)
(* the scene until the controller is called.                               *)
Evidence == /\ pc \in {"goal", "postGoal"} => observation = world
            /\ ActsOnFreshEvidence

LEMMA EvidenceHolds == Spec => []Evidence
<1>1. Init => Evidence
  BY DEF Init, Evidence, ActsOnFreshEvidence
<1>2. Evidence /\ [Next]_vars => Evidence'
  <2> SUFFICES ASSUME Evidence, [Next]_vars PROVE Evidence'
    OBVIOUS
  <2>1. CASE RunLoop
    BY <2>1 DEF RunLoop, Visit, Complete, Exceed, Evidence, ActsOnFreshEvidence
  <2>2. CASE Ending
    <3>1. pc' \in {"visit", "done"}
      BY <2>2 DEF Ending, ObserveFails, GoalHolds, GoalCheckFails, NotControllerResult,
         UnknownConstraint, ControllerFails, PostObserveFails, PostGoalHolds,
         PostGoalCheckFails, AttemptsExhausted, Fail, Return
    <3> QED BY <3>1 DEF Evidence, ActsOnFreshEvidence
  <2>3. CASE Continuing
    <3>1. CASE Observe \/ PostObserve
      BY <3>1 DEF Observe, PostObserve, Evidence, ActsOnFreshEvidence
    <3>2. CASE GoalOpen BY <3>2 DEF GoalOpen, Evidence, ActsOnFreshEvidence
    <3>3. CASE Control \/ ControllerOk
      BY <3>3 DEF Control, ControllerOk, Evidence, ActsOnFreshEvidence
    <3>4. CASE ControllerRetry \/ PostGoalRetry
      BY <3>4 DEF ControllerRetry, PostGoalRetry, Retry, Evidence, ActsOnFreshEvidence
    <3> QED BY <2>3, <3>1, <3>2, <3>3, <3>4 DEF Continuing
  <2>4. CASE UNCHANGED vars BY <2>4 DEF vars, Evidence, ActsOnFreshEvidence
  <2> QED BY <2>1, <2>2, <2>3, <2>4, NextSplit
<1> QED BY <1>1, <1>2, PTL DEF Spec

(* The controller is only ever called on an observation of the scene as it *)
(* is, and only for a node whose goal does not hold.                       *)
THEOREM FreshEvidence == Spec => []ActsOnFreshEvidence
<1>1. Evidence => ActsOnFreshEvidence BY DEF Evidence
<1> QED BY <1>1, EvidenceHolds, PTL

-----------------------------------------------------------------------------
(* While a node is being visited its attempts and its controller calls     *)
(* differ by the call this attempt has not made yet.                       *)
Counting ==
  Visiting => /\ attempt <= MaxAttempts[current]
              /\ calls = IF pc \in {"observe", "goal", "control"}
                           THEN attempt - 1 ELSE attempt

(* Which attempts count each return statement of _run_node reports: the    *)
(* number of calls the visit made.                                         *)
LEMMA EndingReports ==
  ASSUME TypeInv, Counting, Ending
  PROVE  /\ Visiting /\ calls <= MaxAttempts[current]
         /\ \E status, blame, reason, last : Return(status, calls, blame, reason, last)
         /\ calls' = calls
<1>1. attempt \in Nat \ {0} /\ calls \in Nat /\ (Visiting => MaxAttempts[current] \in Nat)
  BY NodeAssumption DEF TypeInv, TypeOK
<1>2. CASE ObserveFails \/ GoalHolds \/ GoalCheckFails
  <2>1. Visiting /\ calls = attempt - 1 /\ calls' = calls
    BY <1>2 DEF ObserveFails, GoalHolds, GoalCheckFails, Counting, Visiting, frame
  <2>2. \E status, blame, reason, last : Return(status, attempt - 1, blame, reason, last)
    BY <1>2 DEF ObserveFails, GoalHolds, GoalCheckFails, Fail
  <2>3. calls <= MaxAttempts[current] BY <1>1, <2>1 DEF Counting
  <2> QED BY <2>1, <2>2, <2>3
<1>3. CASE \/ NotControllerResult \/ UnknownConstraint \/ ControllerFails
           \/ PostObserveFails \/ PostGoalHolds \/ PostGoalCheckFails
  <2>1. Visiting /\ calls = attempt /\ calls' = calls
    BY <1>3 DEF NotControllerResult, UnknownConstraint, ControllerFails, Accepted,
       PostObserveFails, PostGoalHolds, PostGoalCheckFails, Counting, Visiting, frame
  <2>2. \E status, blame, reason, last : Return(status, attempt, blame, reason, last)
    BY <1>3 DEF NotControllerResult, UnknownConstraint, ControllerFails,
       PostObserveFails, PostGoalHolds, PostGoalCheckFails, Fail
  <2>3. calls <= MaxAttempts[current] BY <1>1, <2>1 DEF Counting
  <2> QED BY <2>1, <2>2, <2>3
<1>4. CASE AttemptsExhausted
  <2>1. /\ Visiting /\ calls = attempt /\ calls' = calls
        /\ attempt = MaxAttempts[current]
    BY <1>4 DEF AttemptsExhausted, PostGoalOpen, Counting, Visiting
  <2>2. \E status, blame, reason, last :
          Return(status, MaxAttempts[current], blame, reason, last)
    BY <1>4 DEF AttemptsExhausted, Fail
  <2> QED BY <1>1, <2>1, <2>2
<1> QED BY <1>2, <1>3, <1>4 DEF Ending

(* Every NodeRunResult reports exactly the controller calls its visit made *)
(* and a node is never controlled more often than its max_attempts.        *)
THEOREM AttemptBudget == Spec => []AttemptsAreCalls
<1>1. Init => Counting /\ AttemptsAreCalls
  BY DEF Init, Counting, AttemptsAreCalls, Visiting, Finished
<1>2. TypeInv /\ Counting /\ AttemptsAreCalls /\ TypeInv' /\ [Next]_vars
        => Counting' /\ AttemptsAreCalls'
  <2> SUFFICES ASSUME TypeInv, Counting, AttemptsAreCalls, TypeInv', [Next]_vars
               PROVE  Counting' /\ AttemptsAreCalls'
    OBVIOUS
  <2>0. /\ attempt \in Nat \ {0} /\ calls \in Nat /\ results \in Seq(NodeResults)
        /\ current \in Nodes => MaxAttempts[current] \in Nat \ {0}
        /\ Visiting => current \in Nodes
    BY NodeAssumption DEF TypeInv, TypeOK
  <2>1. CASE Visit
    <3>1. current' \in Nodes /\ Visiting' /\ attempt' = 1 /\ calls' = 0 /\ pc' = "observe"
      BY <2>1 DEF Visit, TypeInv, TypeOK, Visiting
    <3>2. MaxAttempts[current'] \in Nat \ {0} BY <3>1, NodeAssumption
    <3> QED BY <3>1, <3>2 DEF Counting, AttemptsAreCalls, Finished
  <2>2. CASE Complete \/ Exceed
    BY <2>2 DEF Complete, Exceed, frame, Counting, AttemptsAreCalls, Finished, Visiting,
       LastResult
  <2>3. CASE Ending
    <3>1. PICK status, blame, reason, last : Return(status, calls, blame, reason, last)
      BY <2>3, EndingReports
    <3>2. ~Visiting' /\ LastResult'.attempts = calls /\ LastResult'.node = current
      BY <2>0, <3>1 DEF Return, Visiting, LastResult
    <3>3. calls' = calls /\ calls <= MaxAttempts[current] BY <2>3, EndingReports
    <3> QED BY <3>2, <3>3 DEF Counting, AttemptsAreCalls
  <2>4. CASE Continuing
    <3>0. Visiting' /\ Visiting /\ current' = current
      BY <2>4 DEF Continuing, Observe, GoalOpen, Control, ControllerOk, ControllerRetry,
         Accepted, PostObserve, PostGoalRetry, PostGoalOpen, Retry, Visiting, frame
    <3>1. CASE Observe \/ GoalOpen \/ PostObserve \/ ControllerOk
      BY <3>0, <3>1 DEF Observe, GoalOpen, PostObserve, ControllerOk, Accepted, frame,
         Counting, AttemptsAreCalls, Finished
    <3>2. CASE Control
      BY <3>0, <3>2, <2>0 DEF Control, Counting, AttemptsAreCalls, Finished
    <3>3. CASE ControllerRetry \/ PostGoalRetry
      BY <3>0, <3>3, <2>0 DEF ControllerRetry, Accepted, PostGoalRetry, PostGoalOpen, Retry,
         Counting, AttemptsAreCalls, Finished
    <3> QED BY <2>4, <3>1, <3>2, <3>3 DEF Continuing
  <2>5. CASE UNCHANGED vars
    BY <2>5 DEF vars, frame, Counting, AttemptsAreCalls, Finished, Visiting, LastResult
  <2> QED BY <2>1, <2>2, <2>3, <2>4, <2>5, NextSplit DEF RunLoop
<1> QED BY <1>1, <1>2, Typing, PTL DEF Spec

-----------------------------------------------------------------------------
(* Until the visit ends, what the node may be blamed on is its own.        *)
Blaming ==
  Visiting => lastConstraint \in Attributable[current] \cup {NoId}

Blamable(n) == Attributable[n] \cup {Contract(n)}

(* Each return statement of _run_node that fails blames the node itself.   *)
LEMMA EndingBlames ==
  ASSUME TypeInv, Blaming, Ending
  PROVE  /\ Visiting
         /\ \E status, attempts, blame, reason, last :
              /\ Return(status, attempts, blame, reason, last)
              /\ status = "failed" => blame \in Blamable(current)
<1>0. Visiting
  BY DEF Ending, ObserveFails, GoalHolds, GoalCheckFails, NotControllerResult,
     UnknownConstraint, ControllerFails, Accepted, PostObserveFails, PostGoalHolds,
     PostGoalCheckFails, AttemptsExhausted, PostGoalOpen, Visiting
<1>1. /\ FirstConstraint[current] \in Blamable(current)
      /\ Attributable[current] \subseteq Ids /\ NoId \notin Ids
      /\ Contract(current) # NoId
  BY <1>0, NodeAssumption, ContractAssumption DEF TypeInv, Blamable
<1>2. CASE GoalHolds \/ PostGoalHolds
  <2>1. \E status \in {"skipped", "succeeded"} : \E attempts, blame, reason, last :
          Return(status, attempts, blame, reason, last)
    BY <1>2 DEF GoalHolds, PostGoalHolds
  <2>2. \A status \in {"skipped", "succeeded"} : status # "failed" OBVIOUS
  <2> QED BY <1>0, <2>1, <2>2
<1>3. ASSUME NEW attempts, NEW blame \in Blamable(current) \cup {NoId}, NEW reason,
             Fail(attempts, blame, reason)
      PROVE  \E b \in Blamable(current) : Return("failed", attempts, b, reason, "FAILED")
  BY <1>1, <1>3 DEF Fail
<1>4. CASE ObserveFails \/ GoalCheckFails \/ PostObserveFails \/ PostGoalCheckFails
  <2>1. \E attempts, reason : Fail(attempts, NoId, reason)
    BY <1>4 DEF ObserveFails, GoalCheckFails, PostObserveFails, PostGoalCheckFails
  <2> QED BY <1>0, <1>3, <2>1
<1>5. CASE NotControllerResult \/ UnknownConstraint
  <2>1. \E attempts, reason : Fail(attempts, Contract(current), reason)
    BY <1>5 DEF NotControllerResult, UnknownConstraint
  <2>2. Contract(current) \in Blamable(current) BY DEF Blamable
  <2> QED BY <1>0, <1>3, <2>1, <2>2
<1>6. CASE ControllerFails \/ AttemptsExhausted
  <2>1. lastConstraint' \in Blamable(current) \cup {NoId}
    BY <1>0, <1>1, <1>6 DEF ControllerFails, Accepted, AttemptsExhausted, PostGoalOpen,
       Blaming, Blamable
  <2>2. \E attempts, reason : Fail(attempts, lastConstraint', reason)
    BY <1>6 DEF ControllerFails, AttemptsExhausted
  <2> QED BY <1>0, <1>3, <2>1, <2>2
<1> QED BY <1>2, <1>4, <1>5, <1>6 DEF Ending

(* A failed node is never blamed on a constraint of another node, nor on   *)
(* an identifier its controller made up.                                   *)
THEOREM OwnBlame == Spec => []BlameIsAttributable
<1>1. Init => Blaming /\ BlameIsAttributable
  BY DEF Init, Blaming, BlameIsAttributable, Visiting
<1>2. TypeInv /\ Blaming /\ BlameIsAttributable /\ [Next]_vars
        => Blaming' /\ BlameIsAttributable'
  <2> SUFFICES ASSUME TypeInv, Blaming, BlameIsAttributable, [Next]_vars
               PROVE  Blaming' /\ BlameIsAttributable'
    OBVIOUS
  <2>0. results \in Seq(NodeResults) /\ (Visiting => current \in Nodes)
    BY DEF TypeInv, TypeOK
  <2>1. CASE RunLoop
    BY <2>1 DEF RunLoop, Visit, Complete, Exceed, frame, Blaming, BlameIsAttributable,
       Visiting
  <2>2. CASE Ending
    <3>1. PICK status, attempts, blame, reason, last :
            /\ Return(status, attempts, blame, reason, last)
            /\ status = "failed" => blame \in Blamable(current)
      BY <2>2, EndingBlames
    <3>2. /\ ~Visiting'
          /\ DOMAIN results' = 1..(Len(results) + 1)
          /\ \A i \in 1..Len(results) : results'[i] = results[i]
          /\ results'[Len(results) + 1].node = current
          /\ results'[Len(results) + 1].status = status
          /\ results'[Len(results) + 1].constraint = blame
      BY <2>0, <3>1 DEF Return, Visiting
    <3>3. ASSUME NEW i \in DOMAIN results', results'[i].status = "failed"
          PROVE  results'[i].constraint \in Blamable(results'[i].node)
      <4>1. CASE i \in 1..Len(results)
        BY <2>0, <3>2, <3>3, <4>1 DEF BlameIsAttributable, Blamable
      <4>2. CASE i = Len(results) + 1 BY <3>1, <3>2, <3>3, <4>2
      <4> QED BY <2>0, <3>2, <4>1, <4>2
    <3> QED BY <3>2, <3>3 DEF Blaming, BlameIsAttributable, Blamable
  <2>3. CASE Continuing
    <3>1. results' = results /\ current' = current /\ Visiting
      BY <2>3 DEF Continuing, Observe, GoalOpen, Control, ControllerOk, ControllerRetry,
         Accepted, PostObserve, PostGoalRetry, PostGoalOpen, Retry, Visiting
    <3>2. lastConstraint' \in Attributable[current] \cup {NoId}
      <4>1. CASE Observe \/ GoalOpen \/ Control \/ PostObserve
        BY <3>1, <4>1 DEF Observe, GoalOpen, Control, PostObserve, frame, Blaming
      <4>2. CASE ControllerOk \/ ControllerRetry
        BY <3>1, <4>2 DEF ControllerOk, ControllerRetry, Accepted, Blaming
      <4>3. CASE PostGoalRetry
        BY <2>0, <3>1, <4>3, NodeAssumption DEF PostGoalRetry, PostGoalOpen
      <4> QED BY <2>3, <4>1, <4>2, <4>3 DEF Continuing
    <3> QED BY <3>1, <3>2 DEF Blaming, BlameIsAttributable
  <2>4. CASE UNCHANGED vars
    BY <2>4 DEF vars, frame, Blaming, BlameIsAttributable, Visiting
  <2> QED BY <2>1, <2>2, <2>3, <2>4, NextSplit
<1> QED BY <1>1, <1>2, Typing, PTL DEF Spec

-----------------------------------------------------------------------------
(* The phase a visit is in at each of its calls.                           *)
PhaseAt ==
  /\ pc \in {"observe", "goal"} => phases[Len(phases)] = "RESOLVING_HOLES"
  /\ pc \in {"control", "controlled"} => phases[Len(phases)] = "EXECUTING"
  /\ pc \in {"postObserve", "postGoal"} => phases[Len(phases)] = "VERIFYING"

Phasing == phases # <<>> /\ LegalPath(phases) /\ PhaseAt

(* track() extends a legal path by a legal phase. *)
LEMMA TrackOne ==
  ASSUME NEW path \in Seq(Phase), path # <<>>, LegalPath(path),
         NEW p \in Phase, LegalStep(path[Len(path)], p)
  PROVE  /\ Append(path, p) \in Seq(Phase) /\ Append(path, p) # <<>>
         /\ LegalPath(Append(path, p))
         /\ Append(path, p)[Len(Append(path, p))] = p
BY DEF LegalPath

LEMMA TrackThree ==
  ASSUME NEW path \in Seq(Phase), path # <<>>, LegalPath(path),
         NEW p \in Phase, NEW q \in Phase, NEW r \in Phase,
         LegalStep(path[Len(path)], p), LegalStep(p, q), LegalStep(q, r)
  PROVE  /\ path \o <<p, q, r>> # <<>>
         /\ LegalPath(path \o <<p, q, r>>)
         /\ (path \o <<p, q, r>>)[Len(path \o <<p, q, r>>)] = r
<1>1. path \o <<p, q, r>> = Append(Append(Append(path, p), q), r) OBVIOUS
<1>2. /\ Append(path, p) \in Seq(Phase) /\ Append(path, p) # <<>>
      /\ LegalPath(Append(path, p)) /\ Append(path, p)[Len(Append(path, p))] = p
  BY TrackOne
<1> DEFINE s == Append(path, p)
<1>3. /\ Append(s, q) \in Seq(Phase) /\ Append(s, q) # <<>>
      /\ LegalPath(Append(s, q)) /\ Append(s, q)[Len(Append(s, q))] = q
  BY <1>2, TrackOne
<1> DEFINE t == Append(s, q)
<1>4. /\ Append(t, r) # <<>>
      /\ LegalPath(Append(t, r)) /\ Append(t, r)[Len(Append(t, r))] = r
  BY <1>3, TrackOne
<1> QED BY <1>1, <1>4

(* The steps _run_node asks advance_phase for, and the retry's own reset.  *)
LEMMA StepsAllowed ==
  /\ LegalStep("READY", "RESOLVING_HOLES")
  /\ LegalStep("RESOLVING_HOLES", "CANDIDATES_READY")
  /\ LegalStep("CANDIDATES_READY", "ADMITTED")
  /\ LegalStep("ADMITTED", "EXECUTING")
  /\ LegalStep("EXECUTING", "VERIFYING")
  /\ LegalStep("RESOLVING_HOLES", "SUCCEEDED")
  /\ LegalStep("VERIFYING", "SUCCEEDED")
  /\ LegalStep("EXECUTING", "RECOVERABLE")
  /\ LegalStep("VERIFYING", "RECOVERABLE")
  /\ LegalStep("RECOVERABLE", "READY")
  /\ \A p \in {"RESOLVING_HOLES", "EXECUTING", "VERIFYING"} : LegalStep(p, "FAILED")
BY DEF LegalStep, Allowed, Phase

(* No visit ever drives the node state machine into a transition its table *)
(* refuses, so advance_phase never raises out of run.                      *)
THEOREM LegalPhases == Spec => []PhasesLegal
<1>1. Init => Phasing /\ PhasesLegal
  BY DEF Init, Phasing, PhaseAt, PhasesLegal, LegalPath
<1>2. TypeInv /\ Phasing /\ PhasesLegal /\ [Next]_vars => Phasing' /\ PhasesLegal'
  <2> SUFFICES ASSUME TypeInv, Phasing, PhasesLegal, [Next]_vars
               PROVE  Phasing' /\ PhasesLegal'
    OBVIOUS
  <2>0. results \in Seq(NodeResults) /\ phases \in Seq(Phase)
    BY DEF TypeInv, TypeOK
  <2>1. CASE RunLoop
    <3>1. CASE Visit
      <4>1. phases' = <<"READY", "RESOLVING_HOLES">> /\ pc' = "observe" /\ results' = results
        BY <3>1 DEF Visit
      <4>2. LegalPath(phases') BY <4>1, StepsAllowed DEF LegalPath
      <4> QED BY <4>1, <4>2 DEF Phasing, PhaseAt, PhasesLegal
    <3>2. CASE Complete \/ Exceed
      BY <3>2 DEF Complete, Exceed, Phasing, PhaseAt, PhasesLegal
    <3> QED BY <2>1, <3>1, <3>2 DEF RunLoop
  <2>2. CASE Ending
    <3>1. \E last \in {"SUCCEEDED", "FAILED"} :
            /\ LegalStep(phases[Len(phases)], last)
            /\ \E status, attempts, blame, reason :
                 Return(status, attempts, blame, reason, last)
      <4>1. CASE GoalHolds \/ PostGoalHolds
        <5>1. LegalStep(phases[Len(phases)], "SUCCEEDED")
          BY <4>1, StepsAllowed DEF GoalHolds, PostGoalHolds, Phasing, PhaseAt
        <5>2. \E status, attempts, blame, reason :
                Return(status, attempts, blame, reason, "SUCCEEDED")
          BY <4>1 DEF GoalHolds, PostGoalHolds
        <5> QED BY <5>1, <5>2
      <4>2. CASE ~(GoalHolds \/ PostGoalHolds)
        <5>1. phases[Len(phases)] \in {"RESOLVING_HOLES", "EXECUTING", "VERIFYING"}
          BY <2>2, <4>2 DEF Ending, ObserveFails, GoalCheckFails, NotControllerResult,
             UnknownConstraint, ControllerFails, Accepted, PostObserveFails,
             PostGoalCheckFails, AttemptsExhausted, PostGoalOpen, Phasing, PhaseAt
        <5>2. \E attempts, blame, reason : Fail(attempts, blame, reason)
          BY <2>2, <4>2 DEF Ending, ObserveFails, GoalCheckFails, NotControllerResult,
             UnknownConstraint, ControllerFails, PostObserveFails, PostGoalCheckFails,
             AttemptsExhausted
        <5>3. \E status, attempts, blame, reason :
                Return(status, attempts, blame, reason, "FAILED")
          BY <5>2 DEF Fail
        <5> QED BY <5>1, <5>3, StepsAllowed
      <4> QED BY <4>1, <4>2
    <3>2. PICK last \in {"SUCCEEDED", "FAILED"} :
            /\ LegalStep(phases[Len(phases)], last)
            /\ \E status, attempts, blame, reason :
                 Return(status, attempts, blame, reason, last)
      BY <3>1
    <3>3. /\ phases' = Append(phases, last) /\ pc' \in {"visit", "done"}
          /\ \E r : results' = Append(results, r) /\ r.phases = phases'
      BY <3>2 DEF Return
    <3>4. phases' # <<>> /\ LegalPath(phases')
      BY <2>0, <3>2, <3>3, TrackOne DEF Phasing, Phase
    <3>5. ASSUME NEW i \in DOMAIN results' PROVE LegalPath(results'[i].phases)
      <4>1. PICK r : results' = Append(results, r) /\ r.phases = phases' BY <3>3
      <4>2. CASE i \in DOMAIN results
        <5>1. results'[i] = results[i] BY <2>0, <4>1, <4>2
        <5> QED BY <4>2, <5>1 DEF PhasesLegal
      <4>3. CASE i \notin DOMAIN results
        <5>1. results'[i] = r BY <2>0, <3>5, <4>1, <4>3
        <5> QED BY <3>4, <4>1, <5>1
      <4> QED BY <4>2, <4>3
    <3> QED BY <3>3, <3>4, <3>5 DEF Phasing, PhaseAt, PhasesLegal
  <2>3. CASE Continuing
    <3>0. results' = results
      BY <2>3 DEF Continuing, Observe, GoalOpen, Control, ControllerOk, ControllerRetry,
         PostObserve, PostGoalRetry, Retry
    <3>1. CASE Observe \/ Control \/ PostObserve
      BY <3>0, <3>1 DEF Observe, Control, PostObserve, Phasing, PhaseAt, PhasesLegal
    <3>2. CASE GoalOpen
      <4>1. /\ phases' = phases \o <<"CANDIDATES_READY", "ADMITTED", "EXECUTING">>
            /\ pc' = "control" /\ phases[Len(phases)] = "RESOLVING_HOLES"
        BY <3>2 DEF GoalOpen, Phasing, PhaseAt
      <4>2. /\ phases # <<>> /\ LegalPath(phases) /\ LegalStep(phases[Len(phases)], "CANDIDATES_READY")
            /\ "CANDIDATES_READY" \in Phase /\ "ADMITTED" \in Phase /\ "EXECUTING" \in Phase
        BY <4>1, StepsAllowed DEF Phasing, Phase
      <4>3. LegalStep("CANDIDATES_READY", "ADMITTED") /\ LegalStep("ADMITTED", "EXECUTING") BY StepsAllowed
      <4>4. phases' # <<>> /\ LegalPath(phases') /\ phases'[Len(phases')] = "EXECUTING"
        BY <2>0, <4>1, <4>2, <4>3, TrackThree
      <4> QED BY <3>0, <4>1, <4>4 DEF Phasing, PhaseAt, PhasesLegal
    <3>3. CASE ControllerOk
      <4>1. /\ phases' = Append(phases, "VERIFYING")
            /\ pc' = "postObserve" /\ phases[Len(phases)] = "EXECUTING"
        BY <3>3 DEF ControllerOk, Accepted, Phasing, PhaseAt
      <4>2. phases' # <<>> /\ LegalPath(phases') /\ phases'[Len(phases')] = "VERIFYING"
        BY <2>0, <4>1, TrackOne, StepsAllowed DEF Phasing, Phase
      <4> QED BY <3>0, <4>1, <4>2 DEF Phasing, PhaseAt, PhasesLegal
    <3>4. CASE ControllerRetry \/ PostGoalRetry
      <4>1. /\ phases' = phases \o <<"RECOVERABLE", "READY", "RESOLVING_HOLES">>
            /\ pc' = "observe" /\ phases[Len(phases)] \in {"EXECUTING", "VERIFYING"}
        BY <3>4 DEF ControllerRetry, Accepted, PostGoalRetry, PostGoalOpen, Retry,
           Phasing, PhaseAt
      <4>2. /\ phases # <<>> /\ LegalPath(phases) /\ LegalStep(phases[Len(phases)], "RECOVERABLE")
            /\ "RECOVERABLE" \in Phase /\ "READY" \in Phase /\ "RESOLVING_HOLES" \in Phase
        BY <4>1, StepsAllowed DEF Phasing, Phase
      <4>3. LegalStep("RECOVERABLE", "READY") /\ LegalStep("READY", "RESOLVING_HOLES") BY StepsAllowed
      <4>4. phases' # <<>> /\ LegalPath(phases') /\ phases'[Len(phases')] = "RESOLVING_HOLES"
        BY <2>0, <4>1, <4>2, <4>3, TrackThree
      <4> QED BY <3>0, <4>1, <4>4 DEF Phasing, PhaseAt, PhasesLegal
    <3> QED BY <2>3, <3>1, <3>2, <3>3, <3>4 DEF Continuing
  <2>4. CASE UNCHANGED vars BY <2>4 DEF vars, Phasing, PhaseAt, PhasesLegal
  <2> QED BY <2>1, <2>2, <2>3, <2>4, NextSplit
<1> QED BY <1>1, <1>2, Typing, PTL DEF Spec

-----------------------------------------------------------------------------
(* Where the walk of PolicyContract stands while run is in its loop.       *)
Walking ==
  /\ pc # "done" => outcome = "running" /\ current = Promise!Due
  /\ Visiting => Len(results) < MaxNodeVisits
  /\ Len(results) <= MaxNodeVisits

LEMMA WalkOfResults ==
  ASSUME NEW rs \in Seq(NodeResults)
  PROVE  /\ WalkOf(rs) \in Seq([node: Nodes, done: BOOLEAN])
         /\ Len(WalkOf(rs)) = Len(rs)
         /\ \A i \in 1..Len(rs) :
              WalkOf(rs)[i] = [node |-> rs[i].node, done |-> rs[i].status # "failed"]
<1>1. \A i \in 1..Len(rs) : rs[i] \in NodeResults OBVIOUS
<1>2. \A i \in 1..Len(rs) :
        [node |-> rs[i].node, done |-> rs[i].status # "failed"] \in [node: Nodes, done: BOOLEAN]
  BY <1>1 DEF NodeResults
<1>3. DOMAIN rs = 1..Len(rs) /\ Len(rs) \in Nat OBVIOUS
<1>4. WalkOf(rs) \in [1..Len(rs) -> [node: Nodes, done: BOOLEAN]]
  BY <1>2, <1>3 DEF WalkOf
<1> QED BY <1>3, <1>4 DEF WalkOf

(* Recording a node result extends the walk by that node.                  *)
LEMMA ReturnExtendsWalk ==
  ASSUME TypeInv, Walking, Visiting, TypeInv',
         NEW status \in {"succeeded", "skipped", "failed"},
         NEW attempts, NEW blame, NEW reason, NEW last,
         Return(status, attempts, blame, reason, last), UNCHANGED entry
  PROVE  /\ Promise!Record(status # "failed")
         /\ Promise!Working
         /\ UNCHANGED world
         /\ Verdict' = IF status = "failed" THEN "failed" ELSE Verdict
         /\ Walking'
<1>1. /\ current = Promise!Due /\ outcome = "running" /\ current \in Nodes
      /\ Len(results) < MaxNodeVisits /\ results \in Seq(NodeResults)
      /\ MaxNodeVisits \in Nat
  BY GraphAssumption DEF Walking, Visiting, TypeInv, TypeOK
<1>2. PICK r : /\ results' = Append(results, r) /\ r.node = current /\ r.status = status
  BY DEF Return
<1>a. results' \in Seq(NodeResults) BY DEF TypeInv, TypeOK
<1> DEFINE T == [node: Nodes, done: BOOLEAN]
<1>b. Walk \in Seq(T) /\ Len(Walk) = Len(results) BY <1>1, WalkOfResults DEF Walk
<1>c. Walk' = WalkOf(results') BY DEF Walk
<1>d. Walk' \in Seq(T) /\ Len(Walk') = Len(results') BY <1>a, <1>c, WalkOfResults
<1>e. Len(results') = Len(results) + 1 BY <1>1, <1>2
<1>3. /\ Len(Walk) = Len(results) /\ Len(Walk') = Len(results')
      /\ Len(results') = Len(results) + 1
      /\ Walk \in Seq(T) /\ Walk' \in Seq(T)
  BY <1>b, <1>d, <1>e
<1> DEFINE w == [node |-> current, done |-> status # "failed"]
<1>f. w \in T BY <1>1
<1>4. \A i \in 1..Len(results) : results'[i] = results[i] BY <1>1, <1>2
<1>5. results'[Len(results) + 1] = r BY <1>1, <1>2
<1>6. \A i \in 1..Len(Walk') : Walk'[i] = Append(Walk, w)[i]
  <2> SUFFICES ASSUME NEW i \in 1..Len(Walk') PROVE Walk'[i] = Append(Walk, w)[i]
    OBVIOUS
  <2>1. Walk'[i] = [node |-> results'[i].node, done |-> results'[i].status # "failed"]
    BY <1>3, <1>a, WalkOfResults DEF Walk
  <2>2. CASE i \in 1..Len(results)
    <3>1. Walk[i] = [node |-> results[i].node, done |-> results[i].status # "failed"]
      BY <1>1, <2>2, WalkOfResults DEF Walk
    <3>2. Append(Walk, w)[i] = Walk[i] BY <1>3, <2>2
    <3> QED BY <1>4, <2>1, <2>2, <3>1, <3>2
  <2>3. CASE i = Len(results) + 1
    <3>1. Walk'[i] = w BY <1>2, <1>5, <2>1, <2>3
    <3>2. Append(Walk, w)[i] = w BY <1>3, <2>3
    <3> QED BY <3>1, <3>2
  <2> QED BY <1>1, <1>3, <2>2, <2>3
<1>7. Len(Append(Walk, w)) = Len(Walk') BY <1>3
<1>8. Walk' = Append(Walk, w)
  <2> HIDE DEF w, T
  <2>1. Append(Walk, w) \in Seq(T) BY <1>3, <1>f
  <2> QED BY <1>3, <1>6, <1>7, <2>1
<1>9. Promise!Record(status # "failed") BY <1>1, <1>8 DEF Promise!Record
<1>10. Promise!Working
  BY <1>1, <1>3, GraphAssumption DEF Promise!Working, Verdict
<1>11. UNCHANGED world /\ Verdict' = IF status = "failed" THEN "failed" ELSE Verdict
  BY <1>1 DEF Return, Verdict
<1>12. Walking'
  <2>1. ~Visiting' /\ Len(results') <= MaxNodeVisits
    BY <1>1, <1>3 DEF Return, Visiting
  <2>2. ASSUME pc' # "done" PROVE outcome' = "running" /\ current' = Promise!Due'
    <3>1. status # "failed" /\ current' = NextOf[current] /\ outcome' = outcome
      BY <2>2 DEF Return
    <3>2. Walk'[Len(Walk')].node = current
      BY <1>1, <1>3, <1>8
    <3>3. Walk' # <<>> BY <1>1, <1>3
    <3> QED BY <1>1, <3>1, <3>2, <3>3 DEF Promise!Due
  <2> QED BY <2>1, <2>2 DEF Walking
<1> QED BY <1>9, <1>10, <1>11, <1>12

(* The policy implements what it promises: see PolicyContract.  A node is  *)
(* accepted only while its goal holds in the scene, the scene is moved     *)
(* only for a node whose goal does not hold, the results are a walk of the *)
(* graph that stops at the first failure, and success is its end.          *)
THEOREM Implements == Spec => KeepsPromise
<1>1. Init => Promise!Init /\ Walking
  <2> SUFFICES ASSUME Init PROVE Promise!Init /\ Walking
    OBVIOUS
  <2>1. Walk = <<>> /\ Verdict = "running" BY DEF Init, Walk, WalkOf, Verdict
  <2>2. Promise!Due = entry BY <2>1 DEF Promise!Due
  <2> QED BY <2>1, <2>2, GraphAssumption DEF Init, Promise!Init, Walking, Visiting
<1>2. /\ TypeInv /\ TypeInv' /\ Evidence /\ Walking /\ [Next]_vars
      => Walking' /\ [Promise!Next]_Promise!vars
  <2> SUFFICES ASSUME TypeInv, TypeInv', Evidence, Walking, [Next]_vars
               PROVE  Walking' /\ [Promise!Next]_Promise!vars
    OBVIOUS
  <2>0. /\ current \in Nodes \cup {NoNode} /\ MaxNodeVisits \in Nat
        /\ results \in Seq(NodeResults)
        /\ Visiting => current \in Nodes
        /\ Len(Walk) = Len(results)
    BY GraphAssumption, WalkOfResults DEF TypeInv, TypeOK, Walk
  <2>e. UNCHANGED entry BY DEF Next, vars
  <2>s. ASSUME UNCHANGED <<results, outcome>> PROVE UNCHANGED <<Walk, Verdict, Promise!Due>>
    BY <2>e, <2>s DEF Walk, Verdict, Promise!Due
  <2>1. CASE Visit
    <3>1. UNCHANGED <<results, outcome, current, world>> BY <2>1 DEF Visit
    <3>2. Walking' BY <2>0, <2>1, <2>s, <3>1 DEF Visit, Walking, Visiting
    <3> QED BY <2>e, <2>s, <3>1, <3>2 DEF Promise!vars
  <2>2. CASE Complete
    <3>1. /\ Verdict = "running" /\ Verdict' = "succeeded" /\ Promise!Due = NoNode
          /\ UNCHANGED <<results, world, Walk>>
      BY <2>2 DEF Complete, Walking, Verdict, Walk
    <3>2. Promise!Complete BY <3>1 DEF Promise!Complete
    <3>3. Walking' BY <2>0, <2>2, <3>1 DEF Complete, Walking, Visiting
    <3> QED BY <2>e, <3>2, <3>3 DEF Promise!Next, Promise!Steps
  <2>3. CASE Exceed
    <3>1. /\ Verdict = "running" /\ Verdict' = "failed" /\ Len(Walk) = MaxNodeVisits
          /\ UNCHANGED <<results, world, Walk>>
      BY <2>0, <2>3 DEF Exceed, Walking, Verdict, Walk
    <3>2. Promise!Exhaust BY <3>1 DEF Promise!Exhaust
    <3>3. Walking' BY <2>0, <2>3, <3>1 DEF Exceed, Walking, Visiting
    <3> QED BY <2>e, <3>2, <3>3 DEF Promise!Next, Promise!Steps
  <2>4. CASE Ending
    <3>1. Visiting
      BY <2>4 DEF Ending, ObserveFails, GoalHolds, GoalCheckFails, NotControllerResult,
         UnknownConstraint, ControllerFails, Accepted, PostObserveFails, PostGoalHolds,
         PostGoalCheckFails, AttemptsExhausted, PostGoalOpen, Visiting
    <3>2. CASE GoalHolds \/ PostGoalHolds
      <4>1. PICK status \in {"skipped", "succeeded"} : \E attempts, blame, reason, last :
              Return(status, attempts, blame, reason, last)
        BY <3>2 DEF GoalHolds, PostGoalHolds
      <4>2. current \in world BY <3>2 DEF GoalHolds, PostGoalHolds, Evidence
      <4>3. status # "failed" OBVIOUS
      <4>4. /\ Promise!Record(TRUE) /\ Promise!Working /\ Verdict' = Verdict /\ world' = world
            /\ Walking'
        BY <3>1, <4>1, <4>3, <2>e, ReturnExtendsWalk
      <4>5. Promise!Due \in world BY <3>1, <4>2 DEF Walking, Visiting
      <4>6. Promise!Accept BY <4>4, <4>5 DEF Promise!Accept
      <4> QED BY <2>e, <4>4, <4>6 DEF Promise!Next, Promise!Steps
    <3>3. CASE ~(GoalHolds \/ PostGoalHolds)
      <4>1. \E attempts, blame, reason : Fail(attempts, blame, reason)
        BY <2>4, <3>3 DEF Ending, ObserveFails, GoalCheckFails, NotControllerResult,
           UnknownConstraint, ControllerFails, PostObserveFails, PostGoalCheckFails,
           AttemptsExhausted
      <4>2. \E attempts, blame, reason, last : Return("failed", attempts, blame, reason, last)
        BY <4>1 DEF Fail
      <4>3. /\ Promise!Record("failed" # "failed") /\ Promise!Working /\ world' = world
            /\ Verdict' = "failed" /\ Walking'
        BY <3>1, <4>2, <2>e, ReturnExtendsWalk
      <4>4. Promise!GiveUp BY <4>3 DEF Promise!GiveUp
      <4> QED BY <2>e, <4>3, <4>4 DEF Promise!Next, Promise!Steps
    <3> QED BY <3>2, <3>3
  <2>5. CASE Control
    <3>1. /\ UNCHANGED <<results, outcome, current>> /\ world' \in SUBSET Nodes
          /\ Visiting /\ Visiting' /\ pc = "control"
      BY <2>5 DEF Control, Visiting
    <3>2. current \notin world BY <3>1 DEF Evidence, ActsOnFreshEvidence
    <3>3. /\ Promise!Due = current /\ outcome = "running" /\ current \in Nodes
          /\ Len(results) < MaxNodeVisits
      BY <2>0, <3>1 DEF Walking, Visiting
    <3>4. Promise!Working BY <2>0, <3>3, GraphAssumption DEF Promise!Working, Verdict
    <3>5. Promise!Move BY <2>s, <3>1, <3>2, <3>3, <3>4 DEF Promise!Move
    <3>6. Walking' BY <2>0, <2>s, <3>1, <3>3 DEF Walking
    <3> QED BY <2>e, <3>5, <3>6 DEF Promise!Next, Promise!Steps
  <2>6. CASE Continuing /\ ~Control
    <3>1. UNCHANGED <<results, outcome, current, world>> /\ Visiting /\ Visiting'
      BY <2>6 DEF Continuing, Observe, GoalOpen, ControllerOk, ControllerRetry, Accepted,
         PostObserve, PostGoalRetry, PostGoalOpen, Retry, Visiting
    <3>2. Walking' BY <2>s, <3>1 DEF Walking, Visiting
    <3> QED BY <2>e, <2>s, <3>1, <3>2 DEF Promise!vars
  <2>7. CASE UNCHANGED vars
    <3>1. UNCHANGED <<results, outcome, current, world, pc>> BY <2>7 DEF vars
    <3> QED BY <2>e, <2>s, <3>1 DEF Promise!vars, Walking, Visiting
  <2> QED BY <2>1, <2>2, <2>3, <2>4, <2>5, <2>6, <2>7, NextSplit DEF RunLoop
<1>3. Spec => []Evidence
  BY EvidenceHolds
<1> QED BY <1>1, <1>2, <1>3, Typing, PTL DEF Spec, KeepsPromise, Promise!Spec
=============================================================================
