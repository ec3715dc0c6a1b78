------------------------ MODULE StagedExperimentProofs ------------------------
(***************************************************************************)
(* The ledger of a staged experiment, the parents of its stages, what a    *)
(* passing pick rests on and the samplers, for any plan and lifecycle and  *)
(* any faults of the pipeline.                                             *)
(***************************************************************************)
EXTENDS StagedExperiment, FiniteSetTheorems, TLAPS

Given == [plan: Plans, maintained: Lifecycles, execute: BOOLEAN, bound: BOOLEAN,
          native: SUBSET {"pick", "home"}]
AllFacts == {"holding", "robot_home"}

Ledger ==
  /\ given \in Given /\ index \in Nat \ {0} /\ gate \in BOOLEAN /\ parent \in Nat
  /\ prefix \in Seq(Kinds) /\ results \in Seq(Stages)
  /\ state \in [after: Kinds \cup {"initial"}, completed: Seq(Kinds), facts: SUBSET AllFacts]
  /\ Len(results) = index - 1 /\ index - 1 <= Len(given.plan)

(* Where the main thread is: a stage is only worked at behind an open gate.*)
Place ==
  /\ pc \in {"gate", "suite", "join", "judge", "done", "raised"}
  /\ pc \in {"suite", "join", "judge"} => gate /\ index \in DOMAIN given.plan /\ Stage \in given.native
  /\ pc = "done" => index \notin DOMAIN given.plan

(* The first k stages passed, the next one did not if there is one, and    *)
(* the rest was skipped.                                                   *)
StatusAt(k) ==
  /\ \A i \in 1..Len(results) : results[i].status = "passed" <=> i <= k
  /\ \A i \in 1..Len(results) : results[i].status = "skipped" <=> i > k + 1
  /\ gate <=> k = Len(results)
CompletedAt(k) == Len(state.completed) = k /\ \A i \in 1..k : state.completed[i] = results[i].stage
FactsAt(k) == state.facts = UNION { Facts(results[i].stage) : i \in 1..k }

FrontAt(k) == StatusAt(k) /\ CompletedAt(k) /\ FactsAt(k)

Frontier == \E k \in 0..Len(results) : FrontAt(k)

(* The parent of the next stage, while the gate is open.                   *)
Parent ==
  gate /\ parent # 0 => parent <= Len(results) /\ results[parent].stage \in given.maintained

LInv == Ledger /\ Place /\ Frontier /\ Parent /\ ParentsPassed /\ PickIsOwn

LEMMA PlanType == \A g \in Given : g.plan \in Seq(Kinds)
  BY PlanAssumption DEF PlanAssumption, Given

LEMMA StageType == Ledger /\ index \in DOMAIN given.plan => Stage \in Kinds
  BY PlanType DEF Ledger, Stage

LEMMA FactsType == \A kind : Facts(kind) \subseteq AllFacts
  BY DEF Facts, AllFacts

-----------------------------------------------------------------------------
(* A stage that was worked at joins the results.                           *)

LEMMA RecordKeeps ==
  ASSUME LInv, gate, index \in DOMAIN given.plan,
         NEW how \in {"passed", "failed", "blocked", "dry_run"}, NEW candidate \in BOOLEAN,
         NEW own \in BOOLEAN, NEW still \in BOOLEAN,
         Record(how, candidate, own, still),
         how = "passed" /\ Stage = "pick" => own /\ still
  PROVE  LInv'
<1> DEFINE r == [stage |-> Stage, status |-> how, parent |-> parent, candidate |-> candidate,
                 replay |-> IF candidate THEN Replay(how = "passed") ELSE <<>>,
                 own |-> own, still |-> still]
<1>0. Ledger /\ Place /\ Frontier /\ Parent /\ ParentsPassed /\ PickIsOwn
  BY DEF LInv
<1>n. PICK n \in Nat : n = Len(results)
  BY <1>0 DEF Ledger
<1>1. /\ given' = given /\ index' = index + 1 /\ pc' = "gate" /\ (gate' <=> how = "passed")
      /\ results' = Append(results, r)
      /\ state' = StateAfter(Stage, how = "passed")
      /\ prefix' = IF candidate /\ how = "passed" THEN Append(prefix, Stage) ELSE prefix
      /\ parent' = IF candidate /\ Maintains(Stage) THEN index ELSE parent
  BY DEF Record
<1>2. Stage \in Kinds /\ n = Len(results) /\ n = index - 1 /\ n \in Nat /\ index \in Nat /\ parent \in Nat
      /\ index <= Len(given.plan) /\ Len(given.plan) \in Nat
  BY <1>0, <1>n, StageType, PlanType DEF Ledger
<1>3. r \in Stages
  <2>1. Replay(how = "passed") \in Seq(Kinds)
    BY <1>0, <1>2 DEF Replay, Ledger
  <2> QED  BY <1>2, <2>1 DEF Stages
<1>4. /\ results' \in Seq(Stages) /\ Len(results') = n + 1 /\ results'[n + 1] = r
      /\ \A i \in 1..n : results'[i] = results[i]
  BY <1>0, <1>1, <1>2, <1>3 DEF Ledger
<1>5. Ledger'
  <2>1. state' \in [after: Kinds \cup {"initial"}, completed: Seq(Kinds), facts: SUBSET AllFacts]
    BY <1>0, <1>1, <1>2, FactsType DEF StateAfter, Ledger
  <2>2. prefix' \in Seq(Kinds) /\ parent' \in Nat
    BY <1>0, <1>1, <1>2 DEF Ledger
  <2>3. gate' \in BOOLEAN
    BY <1>1, Zenon DEF Record
  <2>4. given' \in Given /\ given' = given
    BY <1>0, <1>1 DEF Ledger
  <2>5. index' \in Nat \ {0} /\ Len(results') = index' - 1 /\ index' - 1 <= Len(given.plan)
    BY <1>1, <1>2, <1>4
  <2> QED  BY <1>4, <2>1, <2>2, <2>3, <2>4, <2>5 DEF Ledger
<1>6. Place'
  BY <1>1 DEF Place
<1>7. PICK k \in 0..n : FrontAt(k)
  BY <1>0, <1>n DEF Frontier
<1>8. k = n /\ \A i \in 1..n : results[i].status = "passed"
  BY <1>2, <1>7 DEF FrontAt, StatusAt
<1>9. Frontier'
  <2>1. CASE how = "passed"
    <3>1. state' = [after |-> Stage, completed |-> Append(state.completed, Stage),
                    facts |-> state.facts \cup Facts(Stage)]
      BY <1>1, <2>1 DEF StateAfter
    <3>2. CompletedAt(n + 1)'
      <4>1. /\ state.completed \in Seq(Kinds) /\ Len(state.completed) = n
            /\ \A i \in 1..n : state.completed[i] = results[i].stage
        BY <1>0, <1>7, <1>8 DEF Ledger, FrontAt, CompletedAt
      <4>2. state'.completed = Append(state.completed, Stage) /\ results'[n + 1].stage = Stage
        BY <1>4, <3>1
      <4>3. /\ Len(state'.completed) = n + 1 /\ state'.completed[n + 1] = Stage
            /\ \A i \in 1..n : state'.completed[i] = state.completed[i]
        BY <1>2, <4>1, <4>2
      <4>4. \A i \in 1..(n + 1) : i = n + 1 \/ i \in 1..n
        BY <1>2
      <4> QED  BY <1>4, <4>1, <4>2, <4>3, <4>4 DEF CompletedAt
    <3>3. state'.facts = UNION { Facts(results'[i].stage) : i \in 1..(n + 1) }
      <4>1. state.facts = UNION { Facts(results[i].stage) : i \in 1..n }
        BY <1>7, <1>8 DEF FrontAt, FactsAt
      <4>2. \A f : f \in UNION { Facts(results[i].stage) : i \in 1..n }
                     <=> \E i \in 1..n : f \in Facts(results[i].stage)
        OBVIOUS
      <4>3. \A f : f \in UNION { Facts(results'[i].stage) : i \in 1..(n + 1) }
                     <=> \E i \in 1..(n + 1) : f \in Facts(results'[i].stage)
        OBVIOUS
      <4>4. \A f : (\E i \in 1..(n + 1) : f \in Facts(results'[i].stage))
                     <=> f \in Facts(Stage) \/ \E i \in 1..n : f \in Facts(results[i].stage)
        <5>1. \A i \in 1..(n + 1) : i = n + 1 \/ i \in 1..n
          BY <1>2
        <5>2. n + 1 \in 1..(n + 1) /\ \A i \in 1..n : i \in 1..(n + 1)
          BY <1>2
        <5> QED  BY <1>4, <5>1, <5>2
      <4>5. \A f : f \in state'.facts <=> f \in UNION { Facts(results'[i].stage) : i \in 1..(n + 1) }
        BY <3>1, <4>1, <4>2, <4>3, <4>4
      <4> QED  BY <4>5
    <3>4. StatusAt(n + 1)'
      <4>1. \A i \in 1..Len(results') : i \in 1..n \/ i = n + 1
        BY <1>2, <1>4
      <4>2. \A i \in 1..Len(results') : results'[i].status = "passed" /\ i <= n + 1 /\ ~(i > n + 2)
        BY <1>2, <1>4, <1>8, <2>1, <4>1
      <4>3. gate' /\ n + 1 = Len(results')
        BY <1>1, <1>4, <2>1
      <4> QED  BY <1>2, <4>2, <4>3 DEF StatusAt
    <3>5. n + 1 \in 0..Len(results')
      BY <1>2, <1>4
    <3> QED  BY <3>2, <3>3, <3>4, <3>5 DEF Frontier, FrontAt, FactsAt
  <2>2. CASE how # "passed"
    <3>1. state' = state
      BY <1>1, <2>2 DEF StateAfter
    <3>2. UNION { Facts(results'[i].stage) : i \in 1..n } = UNION { Facts(results[i].stage) : i \in 1..n }
      BY <1>4
    <3>3. FrontAt(n)'
      <4>1. \A i \in 1..Len(results') : i \in 1..n \/ i = n + 1
        BY <1>2, <1>4
      <4>2. results'[n + 1].status = how
        BY <1>4
      <4>3. \A i \in 1..n : results[i].status = "passed" /\ results'[i] = results[i] /\ i <= n
        BY <1>2, <1>4, <1>8
      <4>4. how # "skipped" /\ ~gate' /\ Len(results') = n + 1
        BY <1>1, <1>4, <2>2
      <4>5. StatusAt(n)'
        BY <1>2, <2>2, <4>1, <4>2, <4>3, <4>4 DEF StatusAt
      <4>6. CompletedAt(n)'
        BY <1>4, <1>7, <1>8, <3>1 DEF FrontAt, CompletedAt
      <4>7. FactsAt(n)'
        BY <1>7, <1>8, <3>1, <3>2 DEF FrontAt, FactsAt
      <4> QED  BY <4>5, <4>6, <4>7 DEF FrontAt
    <3>4. n \in 0..Len(results')
      BY <1>2, <1>4
    <3> QED  BY <3>3, <3>4 DEF Frontier
  <2> QED  BY <2>1, <2>2
<1>10. Parent'
  <2>1. CASE candidate /\ Maintains(Stage)
    BY <1>1, <1>2, <1>4, <2>1 DEF Parent, Maintains
  <2>2. CASE ~(candidate /\ Maintains(Stage))
    BY <1>0, <1>1, <1>2, <1>4, <2>2 DEF Parent
  <2> QED  BY <2>1, <2>2
<1>11. ParentsPassed'
  <2> SUFFICES ASSUME NEW i \in 1..(n + 1), results'[i].status # "skipped", results'[i].parent # 0
               PROVE  /\ results'[i].parent < i /\ results'[i].parent \in Passed'
                      /\ results'[results'[i].parent].stage \in given'.maintained
    BY <1>4 DEF ParentsPassed
  <2>1. \A j \in Passed : j \in Passed' /\ j \in 1..n
    BY <1>0, <1>2, <1>4 DEF Passed, Ledger
  <2>2. CASE i = n + 1
    <3>1. results'[i].parent = parent /\ parent \in 1..n
      BY <1>0, <1>2, <1>4, <2>2 DEF Parent
    <3>2. parent \in Passed
      BY <1>0, <1>2, <1>8, <3>1 DEF Passed, Ledger
    <3>3. results[parent].stage \in given.maintained
      BY <1>0, <1>2, <3>1 DEF Parent
    <3>4. results'[parent] = results[parent] /\ parent < n + 1 /\ given' = given
      BY <1>1, <1>2, <1>4, <3>1
    <3> QED  BY <2>1, <2>2, <3>1, <3>2, <3>3, <3>4
  <2>3. CASE i # n + 1
    <3>1. i \in 1..n /\ results'[i] = results[i] /\ i \in DOMAIN results
      BY <1>0, <1>2, <1>4, <2>3 DEF Ledger
    <3>2. /\ results[i].parent < i /\ results[i].parent \in Passed
          /\ results[results[i].parent].stage \in given.maintained
      BY <1>0, <3>1 DEF ParentsPassed
    <3> QED  BY <1>1, <1>4, <2>1, <3>1, <3>2
  <2> QED  BY <2>2, <2>3
<1>12. PickIsOwn'
  <2> SUFFICES ASSUME NEW i \in 1..(n + 1), results'[i].status = "passed", results'[i].stage = "pick"
               PROVE  results'[i].own /\ results'[i].still
    BY <1>4 DEF PickIsOwn, Passed
  <2>1. CASE i = n + 1
    BY <1>4, <2>1
  <2>2. CASE i # n + 1
    <3>1. i \in 1..n /\ results'[i] = results[i] /\ i \in DOMAIN results
      BY <1>0, <1>2, <1>4, <2>2 DEF Ledger
    <3> QED  BY <1>0, <3>1 DEF PickIsOwn, Passed
  <2> QED  BY <2>1, <2>2
<1> QED  BY <1>5, <1>6, <1>9, <1>10, <1>11, <1>12 DEF LInv

(* A stage that is skipped joins them too; nothing else changes.           *)
LEMMA SkipKeeps ==
  ASSUME LInv, Skip
  PROVE  LInv'
<1> DEFINE r == [stage |-> Stage, status |-> "skipped", parent |-> parent, candidate |-> FALSE,
                 replay |-> <<>>, own |-> FALSE, still |-> FALSE]
<1>0. Ledger /\ Place /\ Frontier /\ Parent /\ ParentsPassed /\ PickIsOwn
  BY DEF LInv
<1>n. PICK n \in Nat : n = Len(results)
  BY <1>0 DEF Ledger
<1>1. /\ pc = "gate" /\ index \in DOMAIN given.plan /\ ~gate
      /\ UNCHANGED <<given, pc, gate, state, prefix, parent>>
      /\ index' = index + 1 /\ results' = Append(results, r)
  BY DEF Skip, AtStage
<1>2. Stage \in Kinds /\ n = Len(results) /\ n = index - 1 /\ index \in Nat /\ parent \in Nat
      /\ index <= Len(given.plan) /\ Len(given.plan) \in Nat
  BY <1>0, <1>1, <1>n, StageType, PlanType DEF Ledger
<1>3. r \in Stages
  <2>1. <<>> \in Seq(Kinds)
    OBVIOUS
  <2> QED  BY <1>2, <2>1 DEF Stages
<1>4. /\ results' \in Seq(Stages) /\ Len(results') = n + 1 /\ results'[n + 1] = r
      /\ \A i \in 1..n : results'[i] = results[i]
  BY <1>0, <1>1, <1>2, <1>3 DEF Ledger
<1>5. Ledger' /\ Place'
  <2>1. /\ index' \in Nat \ {0} /\ Len(results') = index' - 1 /\ index' - 1 <= Len(given.plan)
        /\ UNCHANGED <<given, gate, parent, prefix, state, pc>>
    BY <1>1, <1>2, <1>4
  <2>2. Ledger'
    BY <1>0, <1>4, <2>1 DEF Ledger
  <2>3. Place'
    BY <1>0, <1>1 DEF Place
  <2> QED  BY <2>2, <2>3
<1>7. PICK k \in 0..n : FrontAt(k)
  BY <1>0, <1>n DEF Frontier
<1>8. k < n
  BY <1>1, <1>2, <1>7 DEF FrontAt, StatusAt
<1>9. Frontier'
  <2>1. UNION { Facts(results'[i].stage) : i \in 1..k } = UNION { Facts(results[i].stage) : i \in 1..k }
    BY <1>4, <1>8
  <2>2. FrontAt(k)'
    <3>1. \A i \in 1..Len(results') : i \in 1..n \/ i = n + 1
      BY <1>2, <1>4
    <3>2. results'[n + 1].status = "skipped" /\ n + 1 > k + 1 /\ Len(results') = n + 1 /\ ~gate'
      BY <1>1, <1>2, <1>4, <1>8
    <3>3. /\ \A i \in 1..n : results[i].status = "passed" <=> i <= k
          /\ \A i \in 1..n : results[i].status = "skipped" <=> i > k + 1
      BY <1>2, <1>7 DEF FrontAt, StatusAt
    <3>4. StatusAt(k)'
      BY <1>2, <1>4, <1>8, <3>1, <3>2, <3>3 DEF StatusAt
    <3>5. CompletedAt(k)'
      <4>1. state' = state /\ \A i \in 1..k : results'[i] = results[i]
        BY <1>1, <1>4, <1>8
      <4> QED  BY <1>7, <4>1 DEF FrontAt, CompletedAt
    <3>6. FactsAt(k)'
      BY <1>1, <1>7, <2>1 DEF FrontAt, FactsAt
    <3> QED  BY <3>4, <3>5, <3>6 DEF FrontAt
  <2>3. k \in 0..Len(results')
    BY <1>2, <1>4
  <2> QED  BY <2>2, <2>3 DEF Frontier
<1>10. Parent'
  BY <1>1 DEF Parent
<1>11. ParentsPassed' /\ PickIsOwn'
  <2>1. \A i \in 1..(n + 1) : i = n + 1 \/ (i \in DOMAIN results /\ results'[i] = results[i])
    BY <1>0, <1>2, <1>4 DEF Ledger
  <2>2. \A i \in Passed : i \in Passed' /\ results'[i] = results[i]
    BY <1>0, <1>2, <1>4 DEF Passed, Ledger
  <2>3. DOMAIN results' = 1..(n + 1)
    BY <1>4
  <2>4. ParentsPassed'
    <3> SUFFICES ASSUME NEW i \in 1..(n + 1), results'[i].status # "skipped", results'[i].parent # 0
                 PROVE  /\ results'[i].parent < i /\ results'[i].parent \in Passed'
                        /\ results'[results'[i].parent].stage \in given'.maintained
      BY <2>3 DEF ParentsPassed
    <3>1. i \in DOMAIN results /\ results'[i] = results[i]
      BY <1>4, <2>1
    <3>2. /\ results[i].parent < i /\ results[i].parent \in Passed
          /\ results[results[i].parent].stage \in given.maintained
      BY <1>0, <3>1 DEF ParentsPassed
    <3> QED  BY <1>1, <2>2, <3>1, <3>2
  <2>5. PickIsOwn'
    BY <1>0, <1>4, <2>1, <2>3 DEF PickIsOwn, Passed
  <2> QED  BY <2>4, <2>5
<1> QED  BY <1>5, <1>9, <1>10, <1>11 DEF LInv

(* A step that leaves the ledger alone.                                    *)
LEMMA FrameKeeps ==
  ASSUME LInv, UNCHANGED <<given, index, ledger>>, Place'
  PROVE  LInv'
<1>1. UNCHANGED <<given, index, gate, state, prefix, parent, results>>
  BY DEF ledger
<1>2. Ledger'
  BY <1>1 DEF LInv, Ledger
<1>3. Frontier'
  <2>1. PICK k \in 0..Len(results) : FrontAt(k)
    BY DEF LInv, Frontier
  <2>2. FrontAt(k)'
    BY <1>1, <2>1 DEF FrontAt, StatusAt, CompletedAt, FactsAt
  <2> QED  BY <1>1, <2>1, <2>2 DEF Frontier
<1>4. Parent' /\ ParentsPassed' /\ PickIsOwn'
  BY <1>1 DEF LInv, Parent, ParentsPassed, PickIsOwn, Passed
<1> QED  BY <1>2, <1>3, <1>4 DEF LInv

-----------------------------------------------------------------------------
(* The suite of a pick.                                                    *)

(* One skill is anywhere in the pipeline, whoever submitted it.            *)
OneSkill == queued = 0 \/ running = 0

Picking == given.execute /\ Stage = "pick"

Owned(s) == s.ok => s.of = 1 /\ Idle

(* What the reset of a pick's suite made sure of, up to the judgement.     *)
OwnPick ==
  pc \in {"suite", "join", "judge"} /\ Picking =>
    /\ episode = 1
    /\ suiteAt \in {"home", "submit"} => Idle /\ status = NoStatus
    /\ suiteAt = "wait" => queued \in {0, 1} /\ running \in {0, 1} /\ Owned(status)
    /\ suiteAt = "evaluate" /\ ~error => Owned(result)
    /\ suiteAt # "done" => reports = <<>>
    /\ suiteAt = "done" /\ reports[1].outcome.source # "pipeline" => reports[1].skill.of = 1 /\ Idle

LEMMA PipelineKeeps ==
  ASSUME OneSkill, OwnPick, PipelineSteps, UNCHANGED <<given, pc, index, suite>>
  PROVE  OneSkill' /\ OwnPick'
<1>1. OneSkill'
  BY DEF PipelineSteps, Starts, Moves, Ends, OneSkill
<1>2. UNCHANGED <<suiteAt, episode, error, result, reports, Picking>>
  BY DEF suite, Picking, Stage
<1>3. ~Idle
  BY DEF PipelineSteps, Starts, Moves, Ends, Idle
<1>4. ASSUME queued \in {0, 1}, running \in {0, 1}, Owned(status)
      PROVE  queued' \in {0, 1} /\ running' \in {0, 1} /\ Owned(status)'
  <2>1. CASE Starts
    BY <1>3, <1>4, <2>1 DEF Starts, Owned
  <2>2. CASE Moves
    BY <1>3, <1>4, <2>2 DEF Moves, Owned
  <2>3. CASE Ends
    <3>1. PICK ok \in BOOLEAN : status' = [of |-> running, ok |-> ok]
      BY <2>3 DEF Ends
    <3> QED  BY <1>4, <2>3, <3>1 DEF Ends, OneSkill, Owned, Idle
  <2> QED  BY <2>1, <2>2, <2>3 DEF PipelineSteps
<1>5. OwnPick'
  <2> SUFFICES ASSUME pc \in {"suite", "join", "judge"}, Picking
               PROVE  /\ episode = 1
                      /\ suiteAt \in {"home", "submit"} => Idle' /\ status' = NoStatus
                      /\ suiteAt = "wait" => queued' \in {0, 1} /\ running' \in {0, 1} /\ Owned(status)'
                      /\ suiteAt = "evaluate" /\ ~error => Owned(result)'
                      /\ suiteAt # "done" => reports = <<>>
                      /\ suiteAt = "done" /\ reports[1].outcome.source # "pipeline" =>
                                              reports[1].skill.of = 1 /\ Idle'
    BY <1>2 DEF OwnPick
  <2>1. suiteAt = "evaluate" /\ ~error => Owned(result)'
    BY <1>2, <1>3 DEF OwnPick, Owned
  <2> QED  BY <1>3, <1>4, <2>1 DEF OwnPick
<1> QED  BY <1>1, <1>5

(* What a step of a suite, of either kind, does to the skills.             *)
LEMMA SuiteKeepsOne ==
  ASSUME OneSkill, Fresh!RunnerSteps \/ Kept!RunnerSteps
  PROVE  OneSkill'
<1>1. CASE Fresh!RunnerSteps
  BY <1>1 DEF OneSkill, Fresh!RunnerSteps, Fresh!Publish, Fresh!ResetLayout, Fresh!ResetPipeline,
     Fresh!GoHome, Fresh!Submit, Fresh!PollDone, Fresh!PollRaises, Fresh!EvaluationRaises,
     Fresh!Evaluate, Fresh!Accept, Fresh!Idle, Fresh!LayoutIsReset, Fresh!PipelineIsReset, Fresh!pipeline
<1>2. CASE Kept!RunnerSteps
  BY <1>2 DEF OneSkill, Kept!RunnerSteps, Kept!Publish, Kept!ResetLayout, Kept!ResetPipeline,
     Kept!GoHome, Kept!Submit, Kept!PollDone, Kept!PollRaises, Kept!EvaluationRaises,
     Kept!Evaluate, Kept!Accept, Kept!Idle, Kept!LayoutIsReset, Kept!PipelineIsReset, Kept!pipeline
<1> QED  BY <1>1, <1>2

LEMMA PickGoesOn ==
  ASSUME OneSkill, OwnPick, pc = "suite", Picking, Fresh!RunnerSteps, UNCHANGED <<given, pc, index>>
  PROVE  OwnPick'
<1>1. /\ episode = 1
      /\ suiteAt \in {"home", "submit"} => Idle /\ status = NoStatus
      /\ suiteAt = "wait" => queued \in {0, 1} /\ running \in {0, 1} /\ Owned(status)
      /\ suiteAt = "evaluate" /\ ~error => Owned(result)
      /\ suiteAt # "done" => reports = <<>>
  BY DEF OwnPick
<1> DEFINE Goal == /\ episode' = 1
                   /\ suiteAt' \in {"home", "submit"} => Idle' /\ status' = NoStatus
                   /\ suiteAt' = "wait" => queued' \in {0, 1} /\ running' \in {0, 1} /\ Owned(status)'
                   /\ suiteAt' = "evaluate" /\ ~error' => Owned(result)'
                   /\ suiteAt' # "done" => reports' = <<>>
                   /\ suiteAt' = "done" /\ reports'[1].outcome.source # "pipeline" =>
                                            reports'[1].skill.of = 1 /\ Idle'
<1> SUFFICES Goal
  BY DEF OwnPick, NoStatus
<1>2. CASE Fresh!Publish
  <2>1. Fresh!Resets(episode)
    BY <1>1 DEF Fresh!Resets, Fresh!TaskOf
  <2> QED  BY <1>1, <1>2, <2>1 DEF Fresh!Publish, Fresh!Goto
<1>3. CASE Fresh!ResetLayout
  BY <1>1, <1>3 DEF Fresh!ResetLayout, Fresh!Goto, Fresh!Raise
<1>4. CASE Fresh!ResetPipeline
  BY <1>1, <1>4 DEF Fresh!ResetPipeline, Fresh!Goto, Fresh!Raise, Fresh!PipelineIsReset, Fresh!NoStatus,
                    NoStatus, Idle
<1>5. CASE Fresh!GoHome
  BY <1>1, <1>5 DEF Fresh!GoHome, Fresh!Goto, Fresh!Raise, Fresh!pipeline, NoStatus, Idle
<1>6. CASE Fresh!Submit
  <2>1. /\ status' = status /\ episode' = episode /\ reports' = reports /\ suiteAt = "submit"
        /\ (suiteAt' = "wait" \/ (suiteAt' = "evaluate" /\ error' = TRUE))
    BY <1>6 DEF Fresh!Submit, Fresh!Accept, Fresh!pipeline
  <2>2. queued' \in {0, 1} /\ running' \in {0, 1}
    BY <1>1, <1>6, <2>1 DEF Fresh!Submit, Fresh!Accept, Fresh!pipeline, Idle
  <2>3. Owned(status)'
    BY <1>1, <2>1 DEF Owned, NoStatus
  <2> QED  BY <1>1, <2>1, <2>2, <2>3
<1>7. CASE Fresh!PollDone
  <2>1. /\ suiteAt = "wait" /\ suiteAt' = "evaluate" /\ result' = status
        /\ UNCHANGED <<queued, running, status, episode, reports>>
    BY <1>7 DEF Fresh!PollDone, Fresh!pipeline
  <2>2. Owned(result)'
    BY <1>1, <2>1 DEF Owned, Idle
  <2> QED  BY <1>1, <2>1, <2>2
<1>8. CASE Fresh!PollRaises
  BY <1>1, <1>8 DEF Fresh!PollRaises, Fresh!Raise
<1>9. CASE Fresh!EvaluationRaises
  BY <1>1, <1>9 DEF Fresh!EvaluationRaises, Fresh!Goto
<1>10. CASE Fresh!Evaluate
  <2>1. PICK predicate \in Fresh!Verdicts, verifier \in Fresh!Verdicts :
          reports' = Append(reports, Fresh!Report(suiteAt = "evaluate", predicate, verifier))
    BY <1>10 DEF Fresh!Evaluate
  <2>2. reports = <<>> /\ UNCHANGED <<queued, running, status>>
    BY <1>1, <1>10 DEF Fresh!Evaluate, Fresh!pipeline
  <2>3. reports'[1] = Fresh!Report(suiteAt = "evaluate", predicate, verifier)
    BY <2>1, <2>2
  <2>4. reports'[1].outcome.source # "pipeline" => suiteAt = "evaluate" /\ ~error /\ result.ok
    BY <2>3 DEF Fresh!Report, Fresh!Outcome, Fresh!PipelineSucceeded
  <2>5. reports'[1].skill = result
    BY <2>3 DEF Fresh!Report
  <2>6. reports'[1].outcome.source # "pipeline" => reports'[1].skill.of = 1 /\ Idle'
    BY <1>1, <2>2, <2>4, <2>5 DEF Owned, Idle
  <2>7. episode' = 1 /\ suiteAt' = "done"
    BY <1>1, <1>10 DEF Fresh!Evaluate, Fresh!More, Fresh!Episodes
  <2> QED  BY <2>6, <2>7
<1> QED  BY <1>2, <1>3, <1>4, <1>5, <1>6, <1>7, <1>8, <1>9, <1>10 DEF Fresh!RunnerSteps

-----------------------------------------------------------------------------
(* The whole invariant.                                                    *)

(* The suite is over when its stage is judged.                             *)
SuiteOver ==
  /\ pc = "join" => suiteAt \in {"done", "aborted"}
  /\ pc = "judge" => suiteAt = "done"

Inv == LInv /\ OneSkill /\ OwnPick /\ SuiteOver

LEMMA InitInv == Init => Inv
<1> SUFFICES ASSUME Init PROVE Inv
  OBVIOUS
<1>0. /\ given \in Given /\ pc = "gate" /\ index = 1 /\ gate = TRUE /\ prefix = <<>> /\ parent = 0
      /\ results = <<>> /\ queued = 0
      /\ state = [after |-> "initial", completed |-> <<>>, facts |-> {}]
  BY DEF Init, Given
<1>1. Ledger
  <2>1. <<>> \in Seq(Kinds) /\ <<>> \in Seq(Stages)
    OBVIOUS
  <2>2. gate \in BOOLEAN
    BY <1>0
  <2>3. Len(given.plan) \in Nat
    BY <1>0, PlanType
  <2> QED  BY <1>0, <2>1, <2>2, <2>3 DEF Ledger
<1>2. Place /\ Parent /\ ParentsPassed /\ PickIsOwn
  BY <1>0 DEF Place, Parent, ParentsPassed, PickIsOwn, Passed
<1>3. FrontAt(0)
  <2>1. UNION { Facts(results[i].stage) : i \in 1..0 } = {}
    OBVIOUS
  <2> QED  BY <1>0, <2>1 DEF FrontAt, StatusAt, CompletedAt, FactsAt
<1>4. Frontier
  BY <1>0, <1>3 DEF Frontier
<1> QED  BY <1>0, <1>1, <1>2, <1>4 DEF Inv, LInv, OneSkill, OwnPick, SuiteOver

(* A stage is recorded: the pipeline stays as it is, and no suite runs.    *)
LEMMA RecordStep ==
  ASSUME Inv, LInv', UNCHANGED pipeline, pc' = "gate"
  PROVE  Inv'
  BY DEF Inv, OneSkill, OwnPick, SuiteOver, pipeline

LEMMA BindKeeps ==
  ASSUME Inv, Bind \/ Block \/ Skip
  PROVE  Inv'
<1>1. CASE Bind
  <2>1. PICK how \in {"passed", "failed"} : Record(how, FALSE, TRUE, FALSE)
    BY <1>1 DEF Bind
  <2>2. gate /\ index \in DOMAIN given.plan /\ Stage # "pick"
    BY <1>1 DEF Bind, AtStage
  <2>3. LInv'
    BY <2>1, <2>2, RecordKeeps DEF Inv
  <2> QED  BY <1>1, <2>1, <2>3, RecordStep DEF Bind, Record
<1>2. CASE Block
  <2>1. gate /\ index \in DOMAIN given.plan /\ Record("blocked", FALSE, FALSE, FALSE)
    BY <1>2 DEF Block, AtStage
  <2>2. LInv'
    BY <2>1, RecordKeeps DEF Inv
  <2> QED  BY <1>2, <2>1, <2>2, RecordStep DEF Block, Record
<1>3. CASE Skip
  <2>1. pc' = "gate"
    BY <1>3 DEF Skip, AtStage
  <2> QED  BY <1>3, <2>1, SkipKeeps, RecordStep DEF Skip, Inv
<1> QED  BY <1>1, <1>2, <1>3

(* A pick that passes is judged by the report of its suite.                *)
LEMMA JudgeKeeps ==
  ASSUME Inv, Judge
  PROVE  Inv'
<1>1. pc = "judge" /\ gate /\ index \in DOMAIN given.plan /\ suiteAt = "done"
  BY DEF Judge, Inv, LInv, Place, SuiteOver
<1>2. PICK how \in {"passed", "failed", "dry_run"}, own \in BOOLEAN, still \in BOOLEAN :
        /\ Record(how, TRUE, own, still)
        /\ how = "passed" => StagePasses
        /\ own = (StagePasses /\ reports[1].skill.of = 1) /\ still = Idle
  <2>1. (StagePasses /\ reports[1].skill.of = 1) \in BOOLEAN /\ Idle \in BOOLEAN
    BY DEF Idle
  <2> QED  BY <2>1 DEF Judge
<1>3. how = "passed" /\ Stage = "pick" => own /\ still
  <2> SUFFICES ASSUME how = "passed", Stage = "pick" PROVE own /\ still
    OBVIOUS
  <2>1. StagePasses /\ Picking
    BY <1>2 DEF StagePasses, Picking
  <2>2. reports[1].outcome.source # "pipeline" => reports[1].skill.of = 1 /\ Idle
    BY <1>1, <2>1 DEF Inv, OwnPick
  <2>3. (StagePasses /\ reports[1].skill.of = 1) /\ Idle
    BY <2>1, <2>2 DEF StagePasses
  <2> QED  BY <1>2, <2>3
<1>4. LInv'
  BY <1>1, <1>2, <1>3, RecordKeeps DEF Inv
<1> QED  BY <1>2, <1>4, RecordStep DEF Judge, Record

(* A suite starts with no report and every earlier skill renamed.          *)
LEMMA StartKeeps ==
  ASSUME Inv, StartStage
  PROVE  Inv'
<1>1. /\ pc = "gate" /\ index \in DOMAIN given.plan /\ gate /\ Stage \in given.native
      /\ pc' = "suite" /\ UNCHANGED <<given, index, ledger>>
      /\ suiteAt' = "publish" /\ episode' = 1 /\ reports' = <<>>
      /\ queued' = Earlier(queued) /\ running' = Earlier(running)
  BY DEF StartStage, AtStage
<1>2. Place'
  BY <1>1 DEF Place, Stage, ledger
<1>3. LInv'
  BY <1>1, <1>2, FrameKeeps DEF Inv
<1>4. OneSkill'
  BY <1>1 DEF Inv, OneSkill, Earlier
<1>5. OwnPick' /\ SuiteOver'
  BY <1>1 DEF OwnPick, SuiteOver
<1> QED  BY <1>3, <1>4, <1>5 DEF Inv

(* The main thread's other steps around a stage.                           *)
LEMMA ControlKeeps ==
  ASSUME Inv, StageRaises \/ StopSampler \/ Join \/ Finish
  PROVE  Inv'
<1>1. UNCHANGED <<given, index, ledger, pipeline, suite>>
  BY DEF StageRaises, StopSampler, Join, Finish
<1>2. \/ pc' = "raised"
      \/ pc = "suite" /\ pc' = "join" /\ suiteAt \in {"done", "aborted"}
      \/ pc = "join" /\ pc' = "judge" /\ suiteAt # "aborted"
      \/ pc = "gate" /\ pc' = "done" /\ index \notin DOMAIN given.plan
  BY DEF StageRaises, StopSampler, Join, Finish
<1>3. Place'
  BY <1>1, <1>2 DEF Inv, LInv, Place, Stage, ledger
<1>4. LInv'
  BY <1>1, <1>3, FrameKeeps DEF Inv
<1>5. OneSkill' /\ SuiteOver'
  BY <1>1, <1>2 DEF Inv, OneSkill, SuiteOver, pipeline, suite
<1>6. OwnPick'
  <2>1. UNCHANGED <<queued, running, status, suiteAt, episode, error, result, reports, Idle, Picking>>
    BY <1>1 DEF pipeline, suite, Idle, Picking, Stage
  <2>2. pc' \in {"suite", "join", "judge"} => pc \in {"suite", "join", "judge"}
    BY <1>2
  <2> QED  BY <2>1, <2>2 DEF Inv, OwnPick, Owned
<1> QED  BY <1>4, <1>5, <1>6 DEF Inv

LEMMA SuiteKeeps ==
  ASSUME Inv, SuiteSteps
  PROVE  Inv'
<1>1. /\ pc = "suite" /\ UNCHANGED <<given, pc, index, ledger>>
      /\ suiteAt \notin {"done", "aborted"}
      /\ \/ given.execute /\ Resets(Stage) /\ Fresh!RunnerSteps
         \/ given.execute /\ ~Resets(Stage) /\ Kept!RunnerSteps
         \/ ~given.execute /\ UNCHANGED pipeline
  BY DEF SuiteSteps
<1>2. Place'
  BY <1>1 DEF Inv, LInv, Place, Stage, ledger
<1>3. LInv'
  BY <1>1, <1>2, FrameKeeps DEF Inv
<1>4. OneSkill'
  <2>1. CASE Fresh!RunnerSteps \/ Kept!RunnerSteps
    BY <2>1, SuiteKeepsOne DEF Inv
  <2>2. CASE UNCHANGED pipeline
    BY <2>2 DEF Inv, OneSkill, pipeline
  <2> QED  BY <1>1, <2>1, <2>2
<1>5. OwnPick'
  <2>1. CASE Picking
    <3>1. Resets(Stage) /\ given.execute
      BY <2>1 DEF Picking, Resets
    <3> QED  BY <1>1, <2>1, <3>1, PickGoesOn DEF Inv
  <2>2. CASE ~Picking
    BY <1>1, <2>2 DEF OwnPick, Picking, Stage
  <2> QED  BY <2>1, <2>2
<1>6. SuiteOver'
  BY <1>1 DEF SuiteOver
<1> QED  BY <1>3, <1>4, <1>5, <1>6 DEF Inv

(* The steps of the others: a sampler's are none of the ledger's business. *)
LEMMA OthersKeep ==
  ASSUME Inv, UNCHANGED <<given, pc, index, ledger, suite>>, PipelineSteps \/ UNCHANGED pipeline
  PROVE  Inv'
<1>1. Place'
  BY DEF Inv, LInv, Place, Stage, ledger
<1>2. LInv'
  BY <1>1, FrameKeeps DEF Inv
<1>3. SuiteOver'
  BY DEF Inv, SuiteOver, suite
<1>4. OneSkill' /\ OwnPick'
  <2>1. CASE PipelineSteps
    BY <2>1, PipelineKeeps DEF Inv
  <2>2. CASE UNCHANGED pipeline
    <3>1. UNCHANGED <<queued, running, status, suiteAt, episode, error, result, reports, Idle, Picking>>
      BY <2>2 DEF pipeline, suite, Idle, Picking, Stage
    <3> QED  BY <3>1 DEF Inv, OneSkill, OwnPick, Owned
  <2> QED  BY <2>1, <2>2
<1> QED  BY <1>2, <1>3, <1>4 DEF Inv

LEMMA StepInv == Inv /\ [Next]_vars => Inv'
<1> SUFFICES ASSUME Inv, [Next]_vars PROVE Inv'
  OBVIOUS
<1>1. CASE StageSteps
  BY <1>1, BindKeeps, StartKeeps, ControlKeeps, SuiteKeeps, JudgeKeeps DEF StageSteps
<1>2. CASE \E i \in DOMAIN samplers : SamplerSteps(i)
  BY <1>2, OthersKeep DEF SamplerSteps
<1>3. CASE PipelineSteps /\ UNCHANGED <<given, pc, index, ledger, samplers, suite>>
  BY <1>3, OthersKeep
<1>4. CASE UNCHANGED vars
  BY <1>4, OthersKeep DEF vars
<1> QED  BY <1>1, <1>2, <1>3, <1>4 DEF Next

THEOREM Invariance == Spec => []Inv
BY InitInv, StepInv, PTL DEF Spec

-----------------------------------------------------------------------------
(* For any plan, whatever was left in the pipeline and however it behaves: *)
(* a pick only passes on the end of its own skill, in a scene at rest.     *)
THEOREM OwnPicks == Spec => []PickIsOwn
<1>1. Inv => PickIsOwn  BY DEF Inv, LInv
<1> QED  BY <1>1, Invariance, PTL

(* A stage that ran descends from the caller's parent or from one that     *)
(* passed and is maintained.                                               *)
THEOREM PassedParents == Spec => []ParentsPassed
<1>1. Inv => ParentsPassed  BY DEF Inv, LInv
<1> QED  BY <1>1, Invariance, PTL

(* From the number of stages that passed, what the records say of it.      *)
LEMMA FrontIsOne ==
  ASSUME Inv
  PROVE  FrontAgrees
<1>0. Ledger /\ Place /\ Frontier
  BY DEF Inv, LInv
<1>1. PICK k \in 0..Len(results) : FrontAt(k)
  BY <1>0 DEF Frontier
<1>2. Len(results) \in Nat /\ k \in Nat /\ DOMAIN results = 1..Len(results)
  BY <1>0 DEF Ledger
<1>10. /\ \A i \in 1..Len(results) : results[i].status = "passed" <=> i <= k
       /\ \A i \in 1..Len(results) : results[i].status = "skipped" <=> i > k + 1
  BY <1>1 DEF FrontAt, StatusAt, CompletedAt, FactsAt
<1>11. k <= Len(results)
  BY <1>1, <1>2
<1>3. Passed = 1..k
  <2>1. \A i : i \in Passed <=> i \in 1..Len(results) /\ results[i].status = "passed"
    BY <1>2 DEF Passed
  <2>2. \A i : i \in 1..k <=> i \in 1..Len(results) /\ i <= k
    BY <1>2, <1>11
  <2>3. \A i : i \in Passed <=> i \in 1..k
    BY <1>10, <2>1, <2>2
  <2> QED  BY <2>3
<1>4. Cardinality(1..k) = k
  <2>1. 1 \in Int /\ k \in Int
    BY <1>2
  <2>2. Cardinality(1..k) = IF 1 > k THEN 0 ELSE k - 1 + 1
    BY <2>1, FS_Interval, Zenon
  <2> QED  BY <1>2, <2>2
<1>5. \A i \in Passed : 1..i \subseteq Passed
  BY <1>2, <1>3
<1>6. \A i \in DOMAIN results : results[i].status = "skipped" <=> i > Cardinality(Passed) + 1
  BY <1>1, <1>2, <1>3, <1>4 DEF FrontAt, StatusAt, CompletedAt, FactsAt
<1>7. state.completed = PassedUpTo(Len(results))
  <2>1. Passed \cap 1..Len(results) = 1..k
    BY <1>2, <1>3
  <2>2. PassedUpTo(Len(results)) = [i \in 1..k |-> results[i].stage]
    BY <1>4, <2>1 DEF PassedUpTo
  <2>3. state.completed \in Seq(Kinds)
    BY <1>0 DEF Ledger
  <2>4. state.completed = [i \in 1..k |-> state.completed[i]]
    BY <1>1, <2>3 DEF FrontAt, StatusAt, CompletedAt, FactsAt
  <2> QED  BY <1>1, <2>2, <2>4 DEF FrontAt, StatusAt, CompletedAt, FactsAt
<1>8. state.facts = UNION { Facts(results[i].stage) : i \in Passed }
  BY <1>1, <1>3 DEF FrontAt, StatusAt, CompletedAt, FactsAt
<1>9. pc = "done" => (Success <=> Passed # {} /\ Cardinality(Passed) = Len(given.plan))
  <2> SUFFICES ASSUME pc = "done"
               PROVE  Success <=> Passed # {} /\ Cardinality(Passed) = Len(given.plan)
    OBVIOUS
  <2>1. Len(results) = Len(given.plan)
    <3>1. given.plan \in Seq(Kinds) /\ index \notin DOMAIN given.plan
      BY <1>0, PlanType DEF Ledger, Place
    <3>2. index \in Nat /\ index # 0 /\ Len(given.plan) \in Nat /\ index \notin 1..Len(given.plan)
      BY <1>0, <3>1 DEF Ledger
    <3> QED  BY <1>0, <3>2 DEF Ledger
  <2>2. Passed # {} <=> k # 0
    BY <1>2, <1>3
  <2>3. results # <<>> <=> Len(results) # 0
    BY <1>0 DEF Ledger
  <2>4. (\A i \in DOMAIN results : results[i].status \in {"passed", "skipped"}) <=> k = Len(results)
    <3>1. ASSUME k = Len(results) PROVE \A i \in DOMAIN results : results[i].status = "passed"
      BY <1>1, <1>2, <3>1 DEF FrontAt, StatusAt, CompletedAt, FactsAt
    <3>2. ASSUME k # Len(results)
          PROVE  k + 1 \in DOMAIN results /\ results[k + 1].status \notin {"passed", "skipped"}
      <4>2. k \in Nat /\ Len(results) \in Nat /\ k <= Len(results) /\ k # Len(results)
        BY <1>2, <1>11, <3>2
      <4>3. \A a, b \in Nat : a <= b /\ a # b => a + 1 \in 1..b /\ ~(a + 1 <= a) /\ ~(a + 1 > a + 1)
        OBVIOUS
      <4>1. k + 1 \in 1..Len(results) /\ ~(k + 1 <= k) /\ ~(k + 1 > k + 1)
        BY <4>2, <4>3
      <4> QED  BY <1>2, <1>10, <4>1
    <3> QED  BY <3>1, <3>2
  <2> QED  BY <1>2, <1>3, <1>4, <2>1, <2>2, <2>3, <2>4 DEF Success
<1> QED  BY <1>5, <1>6, <1>7, <1>8, <1>9 DEF FrontAgrees

(* The results, the state and the verdict agree on how far the experiment  *)
(* came.                                                                   *)
THEOREM FrontIsAgreed == Spec => []FrontAgrees
<1>1. Inv => FrontAgrees  BY FrontIsOne
<1> QED  BY <1>1, Invariance, PTL

-----------------------------------------------------------------------------
(* The replays.                                                            *)

(* The prefix that a candidate is packaged with runs what passed so far.   *)
Replays ==
  /\ Runs(prefix, Skilled(Len(results)))
  /\ \A i \in DOMAIN results : results[i].candidate => Runs(results[i].replay, Skilled(i))

(* A result joins the others; the stage it is of joins those that a replay *)
(* runs if it passed and has a skill.                                      *)
LEMMA SkilledGrows ==
  ASSUME NEW n \in Nat, results \in Seq(Stages), Len(results) = n, NEW r \in Stages,
         results' = Append(results, r)
  PROVE  /\ DOMAIN results' = 1..(n + 1) /\ results'[n + 1] = r
         /\ \A i \in 1..n : results'[i] = results[i] /\ Skilled(i)' = Skilled(i)
         /\ Skilled(n) \in SUBSET (1..n)
         /\ Skilled(n + 1)' = IF r.status = "passed" /\ r.stage # "bind"
                              THEN Skilled(n) \cup {n + 1} ELSE Skilled(n)
<1>1. /\ DOMAIN results' = 1..(n + 1) /\ results'[n + 1] = r /\ DOMAIN results = 1..n
      /\ \A i \in 1..n : results'[i] = results[i]
  OBVIOUS
<1>2. \A i \in 1..n : Skilled(i)' = Skilled(i)
  BY <1>1 DEF Skilled, Passed
<1>3. \A i : i \in 1..(n + 1) <=> i \in 1..n \/ i = n + 1
  OBVIOUS
<1>4. \A i : i \in Skilled(n) <=> i \in 1..n /\ results[i].status = "passed" /\ results[i].stage # "bind"
  BY <1>1 DEF Skilled, Passed
<1>5. \A i : i \in Skilled(n + 1)' <=>
            i \in 1..(n + 1) /\ results'[i].status = "passed" /\ results'[i].stage # "bind"
  BY <1>1 DEF Skilled, Passed
<1>6. Skilled(n) \in SUBSET (1..n)
  BY <1>4
<1>7. CASE r.status = "passed" /\ r.stage # "bind"
  <2>1. \A i : i \in Skilled(n + 1)' <=> i \in Skilled(n) \cup {n + 1}
    BY <1>1, <1>3, <1>4, <1>5, <1>7
  <2>2. Skilled(n + 1)' = Skilled(n) \cup {n + 1}
    BY <2>1
  <2> QED  BY <1>1, <1>2, <1>6, <1>7, <2>2, Zenon
<1>8. CASE ~(r.status = "passed" /\ r.stage # "bind")
  <2>1. \A i : i \in Skilled(n + 1)' <=> i \in Skilled(n)
    BY <1>1, <1>3, <1>4, <1>5, <1>8
  <2>2. Skilled(n + 1)' = Skilled(n)
    BY <2>1
  <2> QED  BY <1>1, <1>2, <1>6, <1>8, <2>2, Zenon
<1> QED  BY <1>7, <1>8, Zenon

(* Runs, of the results after a step.                                      *)
RunsThen(replay, stages) ==
  /\ Len(replay) = Cardinality(stages)
  /\ \A i \in stages : replay[Cardinality(stages \cap 1..i)] = results'[i].stage

(* What was replayed stays as it is, whatever result comes after it.       *)
LEMMA RunsStay ==
  ASSUME NEW n \in Nat, NEW S \in SUBSET (1..n), NEW s,
         \A i \in 1..n : results'[i] = results[i]
  PROVE  Runs(s, S) <=> RunsThen(s, S)
  BY DEF Runs, RunsThen

(* One more stage joins those that are run, behind all of them.            *)
LEMMA RunsOneMore ==
  ASSUME NEW n \in Nat, NEW S \in SUBSET (1..n), NEW s \in Seq(Kinds), NEW kind \in Kinds,
         RunsThen(s, S), results'[n + 1].stage = kind
  PROVE  RunsThen(Append(s, kind), S \cup {n + 1})
<1>0. Len(s) = Cardinality(S) /\ \A i \in S : s[Cardinality(S \cap 1..i)] = results'[i].stage
  BY DEF RunsThen
<1>1. IsFiniteSet(1..n)
  BY FS_Interval
<1>2. IsFiniteSet(S) /\ Cardinality(S) \in Nat
  BY <1>1, FS_Subset, FS_CardinalityType
<1>3. n + 1 \notin S
  OBVIOUS
<1>4. Cardinality(S \cup {n + 1}) = Cardinality(S) + 1
  BY <1>2, <1>3, FS_AddElement
<1>5. (S \cup {n + 1}) \cap 1..(n + 1) = S \cup {n + 1}
  <2>1. \A i \in S : i \in 1..(n + 1)
    OBVIOUS
  <2>2. n + 1 \in 1..(n + 1)
    OBVIOUS
  <2> QED  BY <2>1, <2>2, Zenon
<1>6. /\ Len(Append(s, kind)) = Len(s) + 1 /\ Append(s, kind)[Len(s) + 1] = kind
      /\ \A m \in 1..Len(s) : Append(s, kind)[m] = s[m]
  OBVIOUS
<1>7. ASSUME NEW i \in S
      PROVE  Append(s, kind)[Cardinality((S \cup {n + 1}) \cap 1..i)] = results'[i].stage
  <2>1. (S \cup {n + 1}) \cap 1..i = S \cap 1..i
    OBVIOUS
  <2>2. S \cap 1..i \subseteq S
    OBVIOUS
  <2>3. IsFiniteSet(S \cap 1..i) /\ Cardinality(S \cap 1..i) <= Cardinality(S)
        /\ Cardinality(S \cap 1..i) \in Nat
    BY <1>2, <2>2, FS_Subset, FS_CardinalityType
  <2>4. i \in S \cap 1..i
    OBVIOUS
  <2>5. Cardinality(S \cap 1..i) # 0
    BY <2>3, <2>4, FS_EmptySet
  <2>6. Cardinality(S \cap 1..i) \in 1..Len(s)
    BY <1>0, <2>3, <2>5
  <2> QED  BY <1>0, <1>6, <2>1, <2>6
<1>8. Append(s, kind)[Cardinality((S \cup {n + 1}) \cap 1..(n + 1))] = results'[n + 1].stage
  BY <1>0, <1>4, <1>5, <1>6
<1>9. \A i \in S \cup {n + 1} : i \in S \/ i = n + 1
  OBVIOUS
<1>10. \A i \in S \cup {n + 1} :
         Append(s, kind)[Cardinality((S \cup {n + 1}) \cap 1..i)] = results'[i].stage
  BY <1>7, <1>8, <1>9
<1> QED  BY <1>0, <1>4, <1>6, <1>10 DEF RunsThen

(* A stage is recorded.                                                    *)
LEMMA ReplayGrows ==
  ASSUME Inv, Replays, NEW r \in Stages, results' = Append(results, r),
         \/ /\ r.status = "passed" /\ r.stage # "bind" /\ r.candidate
            /\ r.replay = Append(prefix, r.stage) /\ prefix' = Append(prefix, r.stage)
         \/ /\ r.status # "passed" \/ r.stage = "bind"
            /\ prefix' = prefix /\ (r.candidate => r.replay = prefix)
  PROVE  Replays'
<1>1. PICK n \in Nat : n = Len(results)
  BY DEF Inv, LInv, Ledger
<1>2. results \in Seq(Stages) /\ prefix \in Seq(Kinds) /\ r.stage \in Kinds
  BY DEF Inv, LInv, Ledger, Stages
<1> DEFINE S == Skilled(n)
           T == Skilled(n + 1)'
<1>3. /\ DOMAIN results' = 1..(n + 1) /\ results'[n + 1] = r
      /\ \A i \in 1..n : results'[i] = results[i] /\ Skilled(i)' = Skilled(i)
      /\ S \in SUBSET (1..n)
      /\ T = IF r.status = "passed" /\ r.stage # "bind" THEN S \cup {n + 1} ELSE S
  BY <1>1, <1>2, SkilledGrows, Zenon
<1>4. Len(results') = n + 1
  BY <1>1, <1>2
<1>5. Runs(prefix, S)
  BY <1>1 DEF Replays
<1>6. RunsThen(prefix', T) /\ (r.candidate => RunsThen(r.replay, T))
  <2>1. CASE r.status = "passed" /\ r.stage # "bind"
    <3>1. prefix' = Append(prefix, r.stage) /\ r.replay = Append(prefix, r.stage) /\ T = S \cup {n + 1}
      BY <1>3, <2>1
    <3>2. RunsThen(prefix, S)
      BY <1>3, <1>5, RunsStay
    <3>3. RunsThen(Append(prefix, r.stage), S \cup {n + 1})
      <4> HIDE DEF S, T
      <4> QED  BY <1>2, <1>3, <3>2, RunsOneMore, Zenon
    <3> QED  BY <3>1, <3>3, Zenon
  <2>2. CASE ~(r.status = "passed" /\ r.stage # "bind")
    <3>1. prefix' = prefix /\ (r.candidate => r.replay = prefix)
      BY <2>2, Zenon
    <3>5. T = S
      BY <1>3, <2>2, Zenon
    <3>2. RunsThen(prefix, S)
      BY <1>3, <1>5, RunsStay
    <3> QED  BY <3>1, <3>2, <3>5, Zenon
  <2> QED  BY <2>1, <2>2
<1>7. ASSUME NEW i \in 1..(n + 1), results'[i].candidate
      PROVE  RunsThen(results'[i].replay, Skilled(i)')
  <2>1. CASE i = n + 1
    BY <1>3, <1>6, <1>7, <2>1
  <2>2. CASE i # n + 1
    <3>1. i \in 1..n /\ i \in DOMAIN results
      BY <1>1, <1>2, <2>2
    <3>2. Runs(results[i].replay, Skilled(i))
      BY <1>3, <1>7, <3>1 DEF Replays
    <3>3. Skilled(i) \in SUBSET (1..n)
      BY <1>1, <1>2 DEF Skilled, Passed
    <3> QED  BY <1>3, <3>1, <3>2, <3>3, RunsStay
  <2> QED  BY <2>1, <2>2
<1>8. Replays' <=> /\ RunsThen(prefix', Skilled(Len(results))')
                   /\ \A i \in DOMAIN results' : results'[i].candidate =>
                        RunsThen(results'[i].replay, Skilled(i)')
  BY DEF Replays, Runs, RunsThen
<1>9. Skilled(Len(results))' = T
  BY <1>4
<1> QED  BY <1>3, <1>6, <1>7, <1>8, <1>9

(* What is recorded of a stage that has a skill, or does not.              *)
LEMMA RecordReplays ==
  ASSUME Inv, Replays, index \in DOMAIN given.plan,
         NEW how \in {"passed", "failed", "blocked", "dry_run"}, NEW candidate \in BOOLEAN,
         NEW own \in BOOLEAN, NEW still \in BOOLEAN,
         Record(how, candidate, own, still),
         candidate <=> Stage # "bind"
  PROVE  Replays'
<1> DEFINE r == [stage |-> Stage, status |-> how, parent |-> parent, candidate |-> candidate,
                 replay |-> IF candidate THEN Replay(how = "passed") ELSE <<>>,
                 own |-> own, still |-> still]
<1>1. /\ results' = Append(results, r)
      /\ prefix' = IF candidate /\ how = "passed" THEN Append(prefix, Stage) ELSE prefix
  BY DEF Record
<1>2. Stage \in Kinds /\ prefix \in Seq(Kinds) /\ parent \in Nat
  BY StageType DEF Inv, LInv, Ledger
<1>3. Replay(how = "passed") = IF how = "passed" THEN Append(prefix, Stage) ELSE prefix
  BY DEF Replay
<1>4. r \in Stages
  <2>1. Append(prefix, Stage) \in Seq(Kinds) /\ <<>> \in Seq(Kinds)
    BY <1>2
  <2>2. Replay(how = "passed") \in Seq(Kinds)
    BY <1>2, <1>3, <2>1, Zenon
  <2> QED  BY <1>2, <2>1, <2>2 DEF Stages
<1>5. \/ /\ r.status = "passed" /\ r.stage # "bind" /\ r.candidate
         /\ r.replay = Append(prefix, r.stage) /\ prefix' = Append(prefix, r.stage)
      \/ /\ r.status # "passed" \/ r.stage = "bind"
         /\ prefix' = prefix /\ (r.candidate => r.replay = prefix)
  BY <1>1, <1>3
<1> HIDE DEF r
<1> QED  BY <1>1, <1>4, <1>5, ReplayGrows, Zenon

(* No step but those that record a stage is about replays.                 *)
LEMMA ReplayStep == Inv /\ Replays /\ [Next]_vars => Replays'
<1> SUFFICES ASSUME Inv, Replays, [Next]_vars PROVE Replays'
  OBVIOUS
<1>1. CASE Bind
  <2>1. PICK how \in {"passed", "failed"} : Record(how, FALSE, TRUE, FALSE)
    BY <1>1 DEF Bind
  <2> QED  BY <1>1, <2>1, RecordReplays DEF Bind, AtStage
<1>2. CASE Block
  <2> DEFINE r == [stage |-> Stage, status |-> "blocked", parent |-> parent, candidate |-> FALSE,
                   replay |-> <<>>, own |-> FALSE, still |-> FALSE]
  <2>1. results' = Append(results, r) /\ prefix' = prefix /\ index \in DOMAIN given.plan
    BY <1>2 DEF Block, Record, AtStage
  <2>2. Stage \in Kinds /\ parent \in Nat /\ <<>> \in Seq(Kinds)
    BY <2>1, StageType DEF Inv, LInv, Ledger
  <2>3. r \in Stages
    BY <2>2 DEF Stages
  <2>4. r.status # "passed" /\ ~r.candidate
    OBVIOUS
  <2> HIDE DEF r
  <2> QED  BY <2>1, <2>3, <2>4, ReplayGrows, Zenon
<1>3. CASE Skip
  <2> DEFINE r == [stage |-> Stage, status |-> "skipped", parent |-> parent, candidate |-> FALSE,
                   replay |-> <<>>, own |-> FALSE, still |-> FALSE]
  <2>1. results' = Append(results, r) /\ prefix' = prefix /\ index \in DOMAIN given.plan
    BY <1>3 DEF Skip, AtStage
  <2>2. Stage \in Kinds /\ parent \in Nat /\ <<>> \in Seq(Kinds)
    BY <2>1, StageType DEF Inv, LInv, Ledger
  <2>3. r \in Stages
    BY <2>2 DEF Stages
  <2>4. r.status # "passed" /\ ~r.candidate
    OBVIOUS
  <2> HIDE DEF r
  <2> QED  BY <2>1, <2>3, <2>4, ReplayGrows, Zenon
<1>4. CASE Judge
  <2>1. Stage \in given.native /\ given.native \subseteq {"pick", "home"} /\ index \in DOMAIN given.plan
    BY <1>4 DEF Judge, Inv, LInv, Place, Ledger, Given
  <2>2. (StagePasses /\ reports[1].skill.of = 1) \in BOOLEAN /\ Idle \in BOOLEAN
    BY DEF Idle
  <2>3. PICK how \in {"passed", "failed", "dry_run"}, own \in BOOLEAN, still \in BOOLEAN :
          Record(how, TRUE, own, still)
    BY <1>4, <2>2 DEF Judge
  <2> QED  BY <2>1, <2>3, RecordReplays
<1>5. CASE UNCHANGED <<results, prefix>>
  BY <1>5 DEF Replays, Runs, Skilled, Passed
<1> QED
  BY <1>1, <1>2, <1>3, <1>4, <1>5 DEF Next, StageSteps, StartStage, StageRaises, SuiteSteps, StopSampler,
     Join, Finish, SamplerSteps, ledger, vars

(* The records of how far an experiment came agree: the front as above,    *)
(* and every replay with it.                                               *)
THEOREM LedgerIsAgreed == Spec => []LedgerAgrees
<1>1. Init => Replays
  <2> SUFFICES ASSUME Init PROVE Replays
    OBVIOUS
  <2>1. results = <<>> /\ prefix = <<>>
    BY DEF Init
  <2>2. Passed = {}
    BY <2>1 DEF Passed
  <2>3. Skilled(Len(results)) = {}
    BY <2>2 DEF Skilled
  <2>4. Cardinality({}) = 0
    BY FS_EmptySet
  <2> QED  BY <2>1, <2>3, <2>4 DEF Replays, Runs
<1>2. Inv /\ Replays => LedgerAgrees
  BY FrontIsOne DEF LedgerAgrees, Replays
<1> QED  BY <1>1, <1>2, ReplayStep, Invariance, PTL DEF Spec

-----------------------------------------------------------------------------
(* The samplers.                                                           *)

(* A sample is late only once, and by one that was being taken.            *)
Sampling ==
  /\ given \in Given
  /\ samplers \in [DOMAIN given.plan ->
       [thread: {"none", "waiting", "sampling", "over"}, stop: BOOLEAN, late: {0, 1}]]
  /\ \A i \in DOMAIN samplers :
       samplers[i].thread = "sampling" \/ ~samplers[i].stop => samplers[i].late = 0

LEMMA SamplerMoves ==
  ASSUME Sampling, NEW i \in DOMAIN samplers, Sample(i) \/ Capture(i) \/ Leave(i), given' = given
  PROVE  Sampling'
<1>1. CASE Sample(i)
  BY <1>1 DEF Sampling, Sample
<1>2. CASE Leave(i)
  BY <1>2 DEF Sampling, Leave
<1>3. CASE Capture(i)
  <2>1. samplers[i].late = 0
    BY <1>3 DEF Sampling, Capture
  <2>2. samplers' = [samplers EXCEPT ![i].thread = "waiting", ![i].late = IF samplers[i].stop THEN 1 ELSE 0]
    BY <1>3, <2>1 DEF Capture
  <2> QED  BY <2>1, <2>2 DEF Sampling
<1> QED  BY <1>1, <1>2, <1>3

LEMMA SamplerStep == Sampling /\ [Next]_vars => Sampling'
<1> SUFFICES ASSUME Sampling, [Next]_vars PROVE Sampling'
  OBVIOUS
<1>1. CASE StartStage
  BY <1>1 DEF StartStage, AtStage, Sampling
<1>2. CASE StopSampler
  BY <1>2 DEF StopSampler, Sampling
<1>3. CASE \E i \in DOMAIN samplers : SamplerSteps(i)
  BY <1>3, SamplerMoves DEF SamplerSteps
<1>4. CASE UNCHANGED <<given, samplers>>
  BY <1>4 DEF Sampling
<1> QED
  BY <1>1, <1>2, <1>3, <1>4 DEF Next, StageSteps, Skip, Bind, Block, StageRaises, SuiteSteps, Join, Judge,
     Finish, Record, vars

(* However slow a sampler's thread is, it writes one sample at most after  *)
(* it was stopped.                                                         *)
THEOREM LateOnce == Spec => []OneLateSample
<1>1. Init => Sampling
  BY DEF Init, Sampling, Given, NoSampler
<1>2. Sampling => OneLateSample
  BY DEF Sampling, OneLateSample
<1> QED  BY <1>1, <1>2, SamplerStep, PTL DEF Spec
=============================================================================
