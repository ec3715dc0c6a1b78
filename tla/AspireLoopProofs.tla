-------------------------- MODULE AspireLoopProofs --------------------------
(***************************************************************************)
(* What any number of invocations of run_aspire, stopped at any moment,    *)
(* leave behind: typed state, a success only of the generation that ended  *)
(* the search, a line of parents that goes back, and no better parent.     *)
(***************************************************************************)
EXTENDS AspireLoop, FiniteSetTheorems, TLAPS

(* Reports are of the past, and of what their id says.                     *)
Filed ==
  /\ IsFiniteSet(reports)
  /\ \A r \in reports :
       /\ r.run <= invocation /\ (r.run = invocation => r.gen <= generation)
       /\ r.by = Id(r.run, r.gen, r.cand) \/ r.by.cand = 0
  /\ pc \in {"history", "attempt"} =>
       \A r \in reports : r.run = invocation => r.gen < generation

(* A running search has not reached the threshold before.                  *)
Searching ==
  /\ success => /\ pc \in {"record", "idle"} /\ mode = "execute" /\ finalRun = generation
  /\ pc # "idle" /\ mode = "execute" =>
       \A r \in OfRun(invocation) :
         r.gen < generation => ~MeetsThreshold(OfGeneration(r.run, r.gen))
  /\ pc = "record" /\ mode = "execute" /\ ~success =>
       \A r \in OfGeneration(invocation, generation) :
         ~MeetsThreshold(OfGeneration(r.run, r.gen))

(* A success on disk is of a search that is over.                          *)
Settled ==
  manifest.success =>
    /\ manifest.run <= invocation /\ (manifest.run = invocation => pc = "idle")
    /\ \A r \in OfRun(manifest.run) :
         /\ r.gen <= manifest.final
         /\ r.gen < manifest.final => ~MeetsThreshold(OfGeneration(r.run, r.gen))

(* Every parent chosen or used is of an earlier generation.                *)
Lines ==
  /\ pc = "attempt" =>
       parent.cand = 0 \/ \A c \in 1..Population : Earlier(parent, Id(invocation, generation, c))
  /\ LineageGoesBack

Core == TypeOK /\ Filed /\ Searching /\ Settled

(* Reports S of a suite that went over every task with every package.      *)
Complete(S) ==
  /\ S # {} /\ \A r \in S : r.by.cand # 0
  /\ \A r \in S : \A t \in 1..NTasks : \E o \in S : o.cand = r.cand /\ o.task = t

(* A suite is complete before it is distilled, one that was stopped never  *)
(* gets there, and a manifest that says success is of a complete one.      *)
Whole ==
  LET current == OfGeneration(invocation, generation)
      final == OfGeneration(manifest.run, manifest.final)
  IN /\ pc = "suite" => \A r \in current : r.by.cand # 0 /\ r.cand \in packages
     /\ pc = "distill" => Complete(current)
     /\ pc = "record" /\ success => Complete(current) /\ MeetsThreshold(current)
     /\ manifest.success => Complete(final) /\ MeetsThreshold(final)

-----------------------------------------------------------------------------
LEMMA Constants ==
  /\ 1 \in 1..NGenerations /\ 1 \in 1..Population /\ 1 \in 1..MaxAttempts
  /\ NInvocations \in Nat \ {0} /\ NGenerations \in Nat \ {0} /\ Population \in Nat \ {0}
  /\ MaxAttempts \in Nat \ {0} /\ NTasks \in Nat \ {0}
  /\ Seed \in Ids
  /\ \A i \in 1..NInvocations : \A g \in 1..NGenerations : \A c \in 1..Population :
       Id(i, g, c) \in Ids /\ Torn(g) \in Ids /\ Torn(g).cand = 0
BY LoopAssumption DEF Seed, Ids, Id, Torn, PrefixOf

LEMMA Numbers ==
  TypeOK => /\ invocation \in Int /\ generation \in Int
            /\ \A r \in reports : r.run \in Int /\ r.gen \in Int
BY Constants DEF TypeOK, Reports

LEMMA HistoryIds == DOMAIN LoadHistory = {r.by : r \in reports}
BY DEF LoadHistory, Merge, Scan, OfRun

LEMMA BestIsKnown ==
  \A board : \A id \in Best(board) : id = Seed \/ id \in DOMAIN board
BY DEF Best

(* What any of the three ends of an attempt leaves alone.                  *)
LEMMA AttemptEffect ==
  ASSUME TypeOK, Accept \/ Reject \/ GenerationFails
  PROVE  /\ pc = "attempt" /\ pc' \in {"attempt", "suite", "record"}
         /\ mode' = mode /\ invocation' = invocation /\ generation' = generation
         /\ history' = history /\ success' = success /\ finalRun' = finalRun
         /\ parent' = parent
         /\ reports' = reports /\ library' = library /\ manifest' = manifest
         /\ lineage' \in {lineage, lineage \union
              {[child |-> Id(invocation, generation, candidate), parent |-> parent]}}
         /\ candidate' \in 1..Population /\ attempt' \in 1..MaxAttempts
         /\ lastError' \in {"none", "policy", "contract", "exception"}
         /\ packages' \subseteq 1..Population
<1>1. attempt < MaxAttempts => attempt + 1 \in 1..MaxAttempts
  BY Constants DEF TypeOK
<1>2. candidate < Population => candidate + 1 \in 1..Population
  BY Constants DEF TypeOK
<1>3. CASE Accept
  <2>1. packages' \subseteq 1..Population BY <1>3 DEF Accept, TypeOK
  <2> QED BY <1>2, <1>3, <2>1, Constants DEF Accept, NextCandidate, TypeOK, disk
<1>4. CASE Reject
  BY <1>1, <1>2, <1>4, Constants DEF Reject, NextCandidate, TypeOK, disk
<1>5. CASE GenerationFails
  BY <1>2, <1>5, Constants DEF GenerationFails, NextCandidate, TypeOK, disk
<1> QED BY <1>3, <1>4, <1>5

(* The report an episode adds, or a stop leaves cut short.                 *)
LEMMA NewReport ==
  ASSUME TypeOK, pc = "suite", NEW e \in First(Pending), NEW ok \in BOOLEAN,
         NEW id \in Ids
  PROVE  Report(id, e[2], e[1], ok) \in Reports
<1>1. e \in (1..NTasks) \X (1..Population) BY DEF First, Pending, Episodes, TypeOK
<1>2. invocation \in 1..NInvocations BY LoopAssumption DEF TypeOK
<1> QED BY <1>1, <1>2 DEF Report, Reports, TypeOK

LEMMA AddedReport ==
  ASSUME TypeOK, (pc = "suite" /\ Evaluated) \/ Stop
  PROVE  \/ reports' = reports
         \/ /\ pc = "suite"
            /\ \E r \in Reports : /\ r.run = invocation /\ r.gen = generation
                                  /\ r.by = Id(r.run, r.gen, r.cand) \/ r.by.cand = 0
                                  /\ reports' = reports \union {r}
<1>1. ASSUME Evaluated PROVE pc = "suite" /\
        \E r \in Reports : /\ r.run = invocation /\ r.gen = generation
                           /\ r.by = Id(r.run, r.gen, r.cand) \/ r.by.cand = 0
                           /\ reports' = reports \union {r}
  <2>1. PICK e \in First(Pending), ok \in BOOLEAN :
          reports' = reports \union {Report(Id(invocation, generation, e[2]), e[2], e[1], ok)}
    BY <1>1 DEF Evaluated
  <2>2. Id(invocation, generation, e[2]) \in Ids
    <3>1. e \in (1..NTasks) \X (1..Population)
      BY <1>1 DEF First, Pending, Episodes, TypeOK
    <3>2. invocation \in 1..NInvocations BY <1>1, LoopAssumption DEF TypeOK, Evaluated
    <3> QED BY <3>1, <3>2, Constants DEF TypeOK
  <2>3. Report(Id(invocation, generation, e[2]), e[2], e[1], ok) \in Reports
    BY <1>1, <2>2, NewReport DEF Evaluated
  <2> QED BY <1>1, <2>1, <2>3 DEF Report, Evaluated
<1>2. ASSUME Stop, reports' # reports PROVE pc = "suite" /\
        \E r \in Reports : /\ r.run = invocation /\ r.gen = generation
                           /\ r.by = Id(r.run, r.gen, r.cand) \/ r.by.cand = 0
                           /\ reports' = reports \union {r}
  <2>1. pc = "suite" BY <1>2 DEF Stop
  <2>2. PICK e \in First(Pending) :
          reports' = reports \union {Report(Torn(generation), e[2], e[1], FALSE)}
    BY <1>2 DEF Stop
  <2>3. Torn(generation) \in Ids /\ Torn(generation).cand = 0
    BY LoopAssumption DEF Torn, Ids, TypeOK
  <2>4. Report(Torn(generation), e[2], e[1], FALSE) \in Reports
    BY <2>1, <2>3, NewReport
  <2> QED BY <2>1, <2>2, <2>3, <2>4 DEF Report
<1> QED BY <1>1, <1>2

-----------------------------------------------------------------------------
LEMMA InitCore == Init => Core /\ Lines
<1> SUFFICES ASSUME Init PROVE Core /\ Lines OBVIOUS
<1>1. TypeOK
  <2>1. DOMAIN history = {} BY DEF Init, Scan
  <2>2. manifest \in [run : 0..NInvocations, generations : 0..NGenerations,
                      success : BOOLEAN, final : 0..NGenerations]
    BY Constants DEF Init, Nothing
  <2>3. success \in BOOLEAN BY Zenon DEF Init
  <2> QED BY <2>1, <2>2, <2>3, Constants DEF Init, TypeOK, Modes
<1>2. Filed BY FS_EmptySet DEF Init, Filed
<1>3. Searching /\ Settled BY DEF Init, Searching, Settled, Nothing
<1>4. Lines BY DEF Init, Lines, LineageGoesBack
<1> QED BY <1>1, <1>2, <1>3, <1>4 DEF Core

LEMMA StepType == TypeOK /\ [Next]_vars => TypeOK'
<1> SUFFICES ASSUME TypeOK, [Next]_vars PROVE TypeOK' OBVIOUS
<1>1. CASE Start
  <2>1. success' \in BOOLEAN BY <1>1, Zenon DEF Start
  <2>2. invocation' \in 0..NInvocations /\ invocation' # 0 /\ finalRun' \in 0..NGenerations
    BY <1>1, Constants DEF Start, TypeOK
  <2> QED BY <1>1, <2>1, <2>2, Constants DEF Start, TypeOK
<1>2. CASE Generate
  <2>1. DOMAIN history' \subseteq Ids
    BY <1>2, HistoryIds DEF Generate, TypeOK, Reports
  <2>2. parent' \in Ids BY <1>2, <2>1, BestIsKnown, Constants DEF Generate
  <2> QED BY <1>2, <2>1, <2>2, Constants DEF Generate, TypeOK, disk
<1>3. CASE Accept \/ Reject \/ GenerationFails
  <2>1. pc = "attempt" /\ invocation \in 1..NInvocations
    BY <1>3, AttemptEffect, LoopAssumption DEF TypeOK
  <2>2. Id(invocation, generation, candidate) \in Ids BY <2>1, Constants DEF TypeOK
  <2>3. lineage' \subseteq [child : Ids, parent : Ids]
    BY <1>3, <2>2, AttemptEffect DEF TypeOK
  <2> QED BY <1>3, <2>1, <2>3, AttemptEffect DEF TypeOK
<1>4. CASE Evaluated
  <2>1. reports' \subseteq Reports BY <1>4, AddedReport DEF TypeOK, Evaluated
  <2> QED BY <1>4, <2>1 DEF Evaluated, TypeOK
<1>5. CASE Distill
  <2>1. success' \in BOOLEAN BY <1>5, Zenon DEF Distill
  <2>2. OfGeneration(invocation, generation) \subseteq reports
    BY DEF OfGeneration, OfRun
  <2> QED BY <1>5, <2>1, <2>2 DEF Distill, TypeOK
<1>6. CASE Record
  BY <1>6, LoopAssumption DEF Record, TypeOK
<1>7. CASE Stop
  <2>1. reports' \subseteq Reports BY <1>7, AddedReport DEF TypeOK
  <2> QED BY <1>7, <2>1 DEF Stop, TypeOK
<1>8. CASE UNCHANGED vars
  BY <1>8 DEF TypeOK, vars, loop, disk
<1> QED BY <1>1, <1>2, <1>3, <1>4, <1>5, <1>6, <1>7, <1>8 DEF Next, Work

LEMMA StepFiled == TypeOK /\ Filed /\ [Next]_vars => Filed'
<1> SUFFICES ASSUME TypeOK, Filed, [Next]_vars PROVE Filed' OBVIOUS
<1>1. CASE Start
  <2>1. \A r \in reports : r.run <= invocation' /\ r.run # invocation'
    BY <1>1, Numbers DEF Start, Filed
  <2>2. reports' = reports BY <1>1 DEF Start
  <2> QED BY <2>1, <2>2 DEF Filed
<1>2. CASE Generate
  BY <1>2 DEF Generate, Filed, disk
<1>3. CASE Accept \/ Reject \/ GenerationFails
  BY <1>3, AttemptEffect DEF Filed
<1>4. CASE Evaluated \/ Stop
  <2>1. \A r : IsFiniteSet(reports \union {r}) BY FS_AddElement DEF Filed
  <2>2. pc' \notin {"history", "attempt"} BY <1>4 DEF Evaluated, Stop
  <2>3. invocation' = invocation /\ generation' = generation BY <1>4 DEF Evaluated, Stop
  <2>4. CASE reports' = reports BY <2>2, <2>3, <2>4 DEF Filed
  <2>5. CASE reports' # reports
    <3>1. PICK r \in Reports : /\ r.run = invocation /\ r.gen = generation
                               /\ r.by = Id(r.run, r.gen, r.cand) \/ r.by.cand = 0
                               /\ reports' = reports \union {r}
      BY <1>4, <2>5, AddedReport DEF Evaluated
    <3>2. IsFiniteSet(reports') BY <2>1, <3>1
    <3>3. r.run <= invocation /\ r.gen <= generation BY <3>1, Numbers
    <3> QED BY <2>2, <2>3, <3>1, <3>2, <3>3 DEF Filed
  <2> QED BY <2>4, <2>5
<1>5. CASE Distill
  BY <1>5 DEF Distill, Filed
<1>6. CASE Record
  <2>1. \A r \in reports : r.run = invocation =>
          /\ r.gen <= generation'
          /\ pc' = "history" => r.gen < generation'
    BY <1>6, Numbers DEF Record, Filed
  <2>2. reports' = reports /\ invocation' = invocation /\ pc' # "attempt"
    BY <1>6 DEF Record
  <2> QED BY <2>1, <2>2 DEF Filed
<1>7. CASE UNCHANGED vars
  BY <1>7 DEF Filed, vars, loop, disk
<1> QED BY <1>1, <1>2, <1>3, <1>4, <1>5, <1>6, <1>7 DEF Next, Work

-----------------------------------------------------------------------------
(* A step that neither adds reports nor changes the run keeps what is said *)
(* of them.                                                                *)
LEMMA StepSettled == Core /\ [Next]_vars => Settled'
<1> SUFFICES ASSUME Core, [Next]_vars PROVE Settled' OBVIOUS
<1> USE DEF Core
<1>1. CASE Start
  BY <1>1, Numbers DEF Start, TypeOK, Settled, OfRun, OfGeneration, MeetsThreshold, Completed
<1>2. CASE Generate
  BY <1>2 DEF Generate, Settled, disk, OfRun, OfGeneration, MeetsThreshold, Completed
<1>3. CASE Accept \/ Reject \/ GenerationFails
  BY <1>3, AttemptEffect DEF Settled, OfRun, OfGeneration, MeetsThreshold, Completed
<1>4. CASE Evaluated \/ Stop
  <2>1. invocation' = invocation /\ manifest' = manifest BY <1>4 DEF Evaluated, Stop
  <2>2. CASE reports' = reports
    BY <1>4, <2>1, <2>2
    DEF Evaluated, Stop, Settled, OfRun, OfGeneration, MeetsThreshold, Completed
  <2>3. CASE reports' # reports /\ manifest.success
    <3>1. PICK r \in Reports : r.run = invocation /\ pc = "suite" /\ reports' = reports \union {r}
      BY <1>4, <2>3, AddedReport DEF Evaluated
    <3>2. manifest.run # invocation BY <2>3, <3>1 DEF Settled
    <3>3. OfRun(manifest.run)' = OfRun(manifest.run) BY <2>1, <3>1, <3>2 DEF OfRun
    <3>4. \A o \in OfRun(manifest.run) : OfGeneration(o.run, o.gen)' = OfGeneration(o.run, o.gen)
      BY <3>1, <3>2 DEF OfRun, OfGeneration
    <3>5. \A S : MeetsThreshold(S)' = MeetsThreshold(S) BY DEF MeetsThreshold, Completed
    <3> QED BY <2>1, <2>3, <3>2, <3>3, <3>4, <3>5 DEF Settled
  <2>4. CASE ~manifest.success BY <2>1, <2>4 DEF Settled
  <2> QED BY <2>2, <2>3, <2>4
<1>5. CASE Distill
  BY <1>5 DEF Distill, Settled, OfRun, OfGeneration, MeetsThreshold, Completed
<1>6. CASE Record
  BY <1>6, Numbers
  DEF Record, Settled, Searching, Filed, OfRun, OfGeneration, MeetsThreshold, Completed
<1>7. CASE UNCHANGED vars
  BY <1>7 DEF vars, loop, disk, Settled, OfRun, OfGeneration, MeetsThreshold, Completed
<1> QED BY <1>1, <1>2, <1>3, <1>4, <1>5, <1>6, <1>7 DEF Next, Work

LEMMA StepSearching == Core /\ [Next]_vars => Searching'
<1> SUFFICES ASSUME Core, [Next]_vars PROVE Searching' OBVIOUS
<1> USE DEF Core
<1>1. CASE Start
  BY <1>1, Numbers DEF Start, Searching, Filed, OfRun
<1>2. CASE Generate
  BY <1>2
  DEF Generate, Searching, disk, OfRun, OfGeneration, MeetsThreshold, Completed
<1>3. CASE Accept \/ Reject \/ GenerationFails
  BY <1>3, AttemptEffect, Numbers
  DEF Searching, Filed, OfRun, OfGeneration, MeetsThreshold, Completed
<1>4. CASE Evaluated
  <2>1. CASE reports' = reports
    BY <1>4, <2>1
    DEF Evaluated, Searching, OfRun, OfGeneration, MeetsThreshold, Completed
  <2>2. CASE reports' # reports
    <3>1. PICK r \in Reports : /\ pc = "suite" /\ r.run = invocation /\ r.gen = generation
                               /\ reports' = reports \union {r}
      BY <1>4, <2>2, AddedReport DEF Evaluated
    <3>2. \A o \in OfRun(invocation)' : o.gen < generation => o \in OfRun(invocation)
      BY <1>4, <3>1, Numbers DEF OfRun, Evaluated
    <3>3. \A o \in OfRun(invocation) : o.gen < generation =>
            {q \in reports' : q.run = o.run /\ q.gen = o.gen}
              = {q \in reports : q.run = o.run /\ q.gen = o.gen}
      BY <3>1, Numbers DEF OfRun
    <3> QED
      BY <1>4, <3>2, <3>3
      DEF Evaluated, Searching, OfRun, OfGeneration, MeetsThreshold, Completed
  <2> QED BY <2>1, <2>2
<1>5. CASE Stop
  BY <1>5 DEF Stop, Searching
<1>6. CASE Distill
  <2>1. /\ pc = "distill" /\ pc' = "record" /\ mode' = mode /\ finalRun' = generation'
        /\ generation' = generation /\ invocation' = invocation /\ reports' = reports
    BY <1>6 DEF Distill
  <2>2. success' => mode = "execute" /\ MeetsThreshold(OfGeneration(invocation, generation))
    BY <1>6, Zenon DEF Distill
  <2>3. mode = "execute" /\ ~success' => ~MeetsThreshold(OfGeneration(invocation, generation))
    BY <1>6, Zenon DEF Distill
  <2>4. \A r \in OfGeneration(invocation, generation) : r.run = invocation /\ r.gen = generation
    BY DEF OfGeneration, OfRun
  <2>5. \A i, g : OfGeneration(i, g)' = OfGeneration(i, g) /\ OfRun(i)' = OfRun(i)
    BY <2>1 DEF OfGeneration, OfRun
  <2>6. \A S : MeetsThreshold(S)' = MeetsThreshold(S) BY DEF MeetsThreshold, Completed
  <2> QED BY <2>1, <2>2, <2>3, <2>4, <2>5, <2>6 DEF Searching
<1>7. CASE Record
  BY <1>7, Numbers
  DEF Record, Searching, Filed, OfRun, OfGeneration, MeetsThreshold, Completed
<1>8. CASE UNCHANGED vars
  BY <1>8 DEF vars, loop, disk, Searching, OfRun, OfGeneration, MeetsThreshold, Completed
<1> QED BY <1>1, <1>2, <1>3, <1>4, <1>5, <1>6, <1>7, <1>8 DEF Next, Work

-----------------------------------------------------------------------------
LEMMA CoreInvariant == Spec => []Core
<1>1. Core /\ [Next]_vars => Core'
  BY StepType, StepFiled, StepSettled, StepSearching DEF Core
<1> QED BY <1>1, InitCore, PTL DEF Spec

(* The state of the loop and what it leaves on disk is always well typed   *)
(* (run_aspire, _run_generation).                                          *)
THEOREM Typing == Spec => []TypeOK
<1>1. Core => TypeOK BY DEF Core
<1> QED BY <1>1, CoreInvariant, PTL

LEMMA SettledStops == Core => StopsAtSuccess
<1> SUFFICES ASSUME Core, manifest.success, NEW r \in OfRun(manifest.run), r.gen < manifest.final
             PROVE  Cardinality(Completed(OfGeneration(r.run, r.gen))) * 100
                      < Needed * Cardinality(OfGeneration(r.run, r.gen))
  BY DEF StopsAtSuccess, Core, Settled
<1> DEFINE S == OfGeneration(r.run, r.gen)
<1>1. ~MeetsThreshold(S) BY DEF Core, Settled
<1>2. S \subseteq reports /\ Completed(S) \subseteq reports BY DEF OfGeneration, OfRun, Completed
<1>3. IsFiniteSet(S) /\ IsFiniteSet(Completed(S))
  BY <1>2, FS_Subset, Zenon DEF Core, Filed
<1>4. Cardinality(S) \in Nat /\ Cardinality(Completed(S)) \in Nat
  BY <1>3, FS_CardinalityType, Zenon
<1>5. \A a, b, n \in Nat : ~(a * 100 >= n * b) => a * 100 < n * b OBVIOUS
<1>6. Needed \in Nat BY LoopAssumption
<1> QED BY <1>1, <1>4, <1>5, <1>6 DEF MeetsThreshold

(* Whatever stops it and whenever, a search whose manifest says success    *)
(* has run nothing after the generation it names, and no generation before *)
(* that one had reached the threshold (the break of run_aspire).           *)
THEOREM StopsFirst == Spec => []StopsAtSuccess
BY CoreInvariant, SettledStops, PTL

-----------------------------------------------------------------------------
LEMMA StepLines == ~SamePrefix /\ Core /\ Lines /\ [Next]_vars => Lines'
<1> SUFFICES ASSUME ~SamePrefix, Core, Lines, [Next]_vars PROVE Lines' OBVIOUS
<1> USE DEF Core
<1>1. CASE Generate
  <2>1. LineageGoesBack' BY <1>1 DEF Generate, Lines, LineageGoesBack
  <2>2. parent' = Seed \/ \E r \in reports : parent' = r.by
    BY <1>1, BestIsKnown, HistoryIds DEF Generate
  <2>3. ASSUME NEW r \in reports, NEW c \in 1..Population
        PROVE  r.by.cand = 0 \/ Earlier(r.by, Id(invocation, generation, c))
    <3>1. r.run < invocation \/ (r.run = invocation /\ r.gen < generation)
      BY <1>1, Numbers DEF Generate, Filed
    <3>2. CASE r.by = Id(r.run, r.gen, r.cand)
      <4>1. r.by.prefix = r.run /\ r.by.gen = r.gen BY <3>2 DEF Id, PrefixOf
      <4>2. /\ Id(invocation, generation, c).prefix = invocation
            /\ Id(invocation, generation, c).gen = generation
        BY DEF Id, PrefixOf
      <4> QED BY <3>1, <4>1, <4>2 DEF Earlier
    <3> QED BY <3>2 DEF Filed
  <2>4. invocation' = invocation /\ generation' = generation BY <1>1 DEF Generate
  <2> QED BY <2>1, <2>2, <2>3, <2>4 DEF Lines, Seed, Id, PrefixOf
<1>2. CASE Accept \/ Reject \/ GenerationFails
  <2>1. candidate \in 1..Population BY DEF TypeOK
  <2>2. LineageGoesBack' BY <1>2, <2>1, AttemptEffect DEF Lines, LineageGoesBack
  <2> QED BY <1>2, <2>2, AttemptEffect DEF Lines
<1>3. CASE Start \/ Evaluated \/ Distill \/ Record \/ Stop
  BY <1>3 DEF Start, Evaluated, Distill, Record, Stop, Lines, LineageGoesBack
<1>4. CASE UNCHANGED vars
  BY <1>4 DEF vars, loop, disk, Lines, LineageGoesBack
<1> QED BY <1>1, <1>2, <1>3, <1>4 DEF Next, Work

(* With a candidate prefix of its own for each invocation, no candidate is *)
(* its own ancestor: a parent is a seed, no candidate, or of an earlier    *)
(* generation (_select_parent_id).                                         *)
THEOREM LineageEnds == ~SamePrefix => (Spec => []LineageGoesBack)
<1> SUFFICES ASSUME ~SamePrefix PROVE Spec => []LineageGoesBack OBVIOUS
<1>1. Core /\ Lines /\ [Next]_vars => Lines' BY StepLines
<1>2. Lines => LineageGoesBack BY DEF Lines
<1> QED BY <1>1, <1>2, InitCore, CoreInvariant, PTL DEF Spec

-----------------------------------------------------------------------------
LEMMA PendingIsFinite == TypeOK => IsFiniteSet(Pending)
<1> SUFFICES ASSUME TypeOK PROVE IsFiniteSet(Pending) OBVIOUS
<1>1. IsFiniteSet(1..NTasks) /\ IsFiniteSet(1..Population)
  BY Constants, FS_Interval
<1>2. IsFiniteSet(packages) BY <1>1, FS_Subset DEF TypeOK
<1>3. IsFiniteSet(Episodes) BY <1>1, <1>2, FS_Product DEF Episodes
<1> QED BY <1>3, FS_Subset DEF Pending

(* The report of the last episode that was pending completes the suite.    *)
LEMMA LastEpisode ==
  ASSUME Core, Whole, Evaluated
  PROVE  LET current == OfGeneration(invocation, generation)
         IN /\ \A r \in current' : r.by.cand # 0 /\ r.cand \in packages
            /\ pc' = "distill" => Complete(current')
<1> DEFINE current == OfGeneration(invocation, generation)
<1>1. PICK e \in First(Pending), ok \in BOOLEAN :
        reports' = reports \union {Report(Id(invocation, generation, e[2]), e[2], e[1], ok)}
  BY DEF Evaluated
<1> DEFINE new == Report(Id(invocation, generation, e[2]), e[2], e[1], ok)
<1>2. e \in Pending /\ e \in Episodes BY <1>1 DEF First, Pending
<1>3. e[1] \in 1..NTasks /\ e[2] \in packages /\ e[2] \in 1..Population
  BY <1>2 DEF Episodes, Core, TypeOK
<1>4. /\ new.run = invocation /\ new.gen = generation /\ new.task = e[1] /\ new.cand = e[2]
      /\ new.by.cand = e[2]
  BY DEF Report, Id
<1>5. invocation' = invocation /\ generation' = generation /\ pc = "suite" BY DEF Evaluated
<1>6. current' = current \union {new}
  BY <1>1, <1>4, <1>5 DEF OfGeneration, OfRun
<1>7. \A r \in current' : r.by.cand # 0 /\ r.cand \in packages
  BY <1>3, <1>4, <1>5, <1>6 DEF Whole
<1>8. ASSUME pc' = "distill" PROVE Complete(current')
  <2>1. Cardinality(Pending) = 1 BY <1>8 DEF Evaluated
  <2>2. Pending = {e}
    BY <1>2, <2>1, PendingIsFinite, FS_Singleton DEF Core
  <2>3. ASSUME NEW c \in packages, NEW t \in 1..NTasks
        PROVE  \E o \in current' : o.cand = c /\ o.task = t
    <3>1. CASE <<t, c>> \in Pending
      <4>1. e[1] = t /\ e[2] = c BY <2>2, <3>1
      <4> QED BY <1>4, <1>6, <4>1
    <3>2. CASE <<t, c>> \notin Pending
      <4>1. <<t, c>> \in Episodes BY <2>3 DEF Episodes
      <4>2. PICK o \in current : <<o.task, o.cand>> = <<t, c>> BY <3>2, <4>1 DEF Pending
      <4> QED BY <1>6, <4>2
    <3> QED BY <3>1, <3>2
  <2> QED BY <1>6, <1>7, <2>3 DEF Complete
<1> QED BY <1>7, <1>8

(* A step that leaves the run, its packages and the reports alone.         *)
LEMMA SameReports ==
  ASSUME UNCHANGED reports
  PROVE  \A i, g : OfGeneration(i, g)' = OfGeneration(i, g)
BY DEF OfGeneration, OfRun

LEMMA SameMeasures ==
  \A S : (Complete(S)' <=> Complete(S)) /\ (MeetsThreshold(S)' <=> MeetsThreshold(S))
BY DEF Complete, MeetsThreshold, Completed

(* What the manifest says is of an invocation that is over.                *)
LEMMA FinalIsKept ==
  ASSUME Core, Whole, Evaluated \/ Stop, manifest.success
  PROVE  /\ manifest' = manifest
         /\ OfGeneration(manifest.run, manifest.final)'
              = OfGeneration(manifest.run, manifest.final)
<1>1. manifest' = manifest /\ pc # "idle" BY DEF Evaluated, Stop
<1>2. manifest.run # invocation BY <1>1 DEF Core, Settled
<1>3. CASE reports' = reports BY <1>1, <1>3 DEF OfGeneration, OfRun
<1>4. CASE reports' # reports
  <2>1. PICK r \in Reports : r.run = invocation /\ reports' = reports \union {r}
    BY <1>4, AddedReport DEF Core, Evaluated
  <2> QED BY <1>1, <1>2, <2>1 DEF OfGeneration, OfRun
<1> QED BY <1>1, <1>3, <1>4

LEMMA StepWhole == Core /\ Whole /\ [Next]_vars => Whole'
<1> SUFFICES ASSUME Core, Whole, [Next]_vars PROVE Whole' OBVIOUS
<1>1. CASE Start
  BY <1>1, SameReports, SameMeasures DEF Start, Whole
<1>2. CASE Generate
  BY <1>2, SameReports, SameMeasures DEF Generate, disk, Whole
<1>3. CASE Accept \/ Reject \/ GenerationFails
  <2>1. ~success BY <1>3, AttemptEffect DEF Core, Searching
  <2>2. OfGeneration(invocation, generation) = {}
    BY <1>3, AttemptEffect, Numbers DEF Core, Filed, OfGeneration, OfRun
  <2> QED BY <1>3, <2>1, <2>2, AttemptEffect, SameReports, SameMeasures DEF Core, Whole
<1>4. CASE Evaluated
  <2>1. pc' \in {"suite", "distill"} /\ packages' = packages BY <1>4 DEF Evaluated
  <2> QED BY <1>4, <2>1, LastEpisode, FinalIsKept, SameMeasures DEF Whole, Evaluated
<1>5. CASE Stop
  <2>1. pc' = "idle" /\ manifest' = manifest BY <1>5 DEF Stop
  <2> QED BY <1>5, <2>1, FinalIsKept, SameMeasures DEF Whole
<1>6. CASE Distill
  BY <1>6, SameReports, SameMeasures DEF Distill, Whole
<1>7. CASE Record
  <2>1. success => finalRun = generation BY DEF Core, Searching
  <2> QED BY <1>7, <2>1, SameReports, SameMeasures DEF Record, Whole
<1>8. CASE UNCHANGED vars
  BY <1>8, SameReports, SameMeasures DEF vars, loop, disk, Whole
<1> QED BY <1>1, <1>2, <1>3, <1>4, <1>5, <1>6, <1>7, <1>8 DEF Next, Work

(* A manifest that says success names a generation all of whose packages   *)
(* were run on all tasks, and enough of whose episodes succeeded: no stop, *)
(* no report cut short and no later invocation makes it untrue (run_aspire,*)
(* _write_aspire_manifest).                                                *)
THEOREM EarnedManifest == Spec => []ManifestIsEarned
<1>1. Init => Whole BY DEF Init, Whole, Nothing
<1>2. Core /\ Whole /\ [Next]_vars => Whole' BY StepWhole
<1>3. Whole => ManifestIsEarned
  BY DEF Whole, ManifestIsEarned, Complete, MeetsThreshold, Torn
<1> QED BY <1>1, <1>2, <1>3, CoreInvariant, PTL DEF Spec
-----------------------------------------------------------------------------
(* The parent of a generation is the first of the leaderboard of what was  *)
(* on disk before it; the reports of this run among them counted twice.    *)
Ranked ==
  Generating =>
    /\ history = Merge(Scan(Past), Scan(Past \intersect OfRun(invocation)))
    /\ parent \in Best(history)

(* What S says of id, whether or not the leaderboard of S lists it.        *)
Tally(S, id) == [trials |-> Cardinality(By(S, id)), completed |-> Cardinality(Completed(By(S, id)))]

LEMMA ScoreIsTally == ASSUME NEW S, NEW id PROVE Score(Scan(S), id) = Tally(S, id)
<1>1. CASE id \in {r.by : r \in S} BY <1>1 DEF Score, Scan, Tally
<1>2. CASE id \notin {r.by : r \in S}
  <2>1. By(S, id) = {} /\ Completed(By(S, id)) = {} BY <1>2 DEF By, Completed
  <2> QED BY <1>2, <2>1, FS_EmptySet DEF Score, Scan, Tally, NoScore
<1> QED BY <1>1, <1>2

(* The reports of an id that are all of this run, or all of earlier ones,  *)
(* are counted all twice or all once.                                      *)
LEMMA CountedAlike ==
  ASSUME Core, Ranked, Generating, NEW id \in DOMAIN history, Unmixed(id)
  PROVE  /\ Tally(Past, id).trials \in Nat /\ Tally(Past, id).completed \in Nat
         /\ \E k \in {1, 2} : /\ history[id].trials = k * Tally(Past, id).trials
                              /\ history[id].completed = k * Tally(Past, id).completed
<1> DEFINE all == Tally(Past, id)
           ours == Tally(Past \intersect OfRun(invocation), id)
<1>1. all.trials \in Nat /\ all.completed \in Nat
  <2>1. By(Past, id) \subseteq reports /\ Completed(By(Past, id)) \subseteq reports
    BY DEF By, Completed, Past
  <2>2. IsFiniteSet(By(Past, id)) /\ IsFiniteSet(Completed(By(Past, id)))
    BY <2>1, FS_Subset, Zenon DEF Core, Filed
  <2> QED BY <2>2, FS_CardinalityType DEF Tally
<1>2. /\ history[id].trials = all.trials + ours.trials
      /\ history[id].completed = all.completed + ours.completed
  <2> DEFINE a == Scan(Past)
             b == Scan(Past \intersect OfRun(invocation))
  <2>1. Score(a, id) = all /\ Score(b, id) = ours BY ScoreIsTally
  <2>2. history = Merge(a, b) BY DEF Ranked
  <2> HIDE DEF a, b
  <2>3. history[id] = [trials |-> Score(a, id).trials + Score(b, id).trials,
                       completed |-> Score(a, id).completed + Score(b, id).completed]
    BY <2>2 DEF Merge
  <2> QED BY <2>1, <2>3
<1>3. CASE By(Past, id) \subseteq OfRun(invocation)
  <2>1. By(Past \intersect OfRun(invocation), id) = By(Past, id) BY <1>3 DEF By
  <2>2. ours = all BY <2>1 DEF Tally
  <2>3. /\ history[id].trials = 2 * all.trials
        /\ history[id].completed = 2 * all.completed
    BY <1>1, <1>2, <2>2
  <2> QED BY <1>1, <2>3
<1>4. CASE By(Past, id) \intersect OfRun(invocation) = {}
  <2>1. By(Past \intersect OfRun(invocation), id) = {} BY <1>4 DEF By
  <2>2. ours.trials = 0 /\ ours.completed = 0
    BY <2>1, FS_EmptySet DEF Tally, Completed
  <2>3. /\ history[id].trials = 1 * all.trials
        /\ history[id].completed = 1 * all.completed
    BY <1>1, <1>2, <2>2
  <2> QED BY <1>1, <2>3
<1> QED BY <1>1, <1>3, <1>4 DEF Unmixed

(* A rate does not change when its trials and completions are all doubled. *)
LEMMA SameRates ==
  ASSUME NEW c \in Nat, NEW t \in Nat, NEW d \in Nat, NEW u \in Nat,
         NEW j \in {1, 2}, NEW k \in {1, 2}, c * u < d * t
  PROVE  (j * c) * (k * u) < (k * d) * (j * t)
<1> DEFINE a == c * u  b == d * t
<1>1. (j * c) * (k * u) = (j * k) * a /\ (k * d) * (j * t) = (j * k) * b OBVIOUS
<1>2. a \in Nat /\ b \in Nat /\ a < b OBVIOUS
<1>3. j * k \in {1, 2, 4} OBVIOUS
<1> HIDE DEF a, b
<1> QED BY <1>1, <1>2, <1>3

LEMMA RankedIsUnbeaten == Core /\ Ranked => ParentIsUnbeaten
<1> SUFFICES ASSUME Core, Ranked, Generating, parent # Seed, NEW id \in DOMAIN history,
                    Unmixed(id), Unmixed(parent),
                    Behind(Tally(Past, parent), Tally(Past, id))
             PROVE  FALSE
  BY Zenon DEF ParentIsUnbeaten, Tally
<1>1. parent \in DOMAIN history /\ ~Behind(history[parent], history[id])
  BY DEF Ranked, Best
<1> DEFINE p == Tally(Past, parent)  q == Tally(Past, id)
<1>2. PICK j \in {1, 2} : /\ history[parent].trials = j * p.trials
                          /\ history[parent].completed = j * p.completed
  BY <1>1, CountedAlike
<1>3. PICK k \in {1, 2} : /\ history[id].trials = k * q.trials
                          /\ history[id].completed = k * q.completed
  BY CountedAlike
<1>4. p.trials \in Nat /\ p.completed \in Nat /\ q.trials \in Nat /\ q.completed \in Nat
  BY <1>1, CountedAlike
<1>5. p.completed * q.trials < q.completed * p.trials BY DEF Behind
<1> HIDE DEF p, q
<1>6. (j * p.completed) * (k * q.trials) < (k * q.completed) * (j * p.trials)
  BY <1>4, <1>5, SameRates
<1> QED BY <1>1, <1>2, <1>3, <1>6 DEF Behind

LEMMA StepRanked == Core /\ Ranked /\ [Next]_vars => Ranked'
<1> SUFFICES ASSUME Core, Ranked, [Next]_vars, Generating' PROVE Ranked' BY DEF Ranked
<1>1. CASE Generate
  <2>1. /\ history' = LoadHistory /\ parent' \in Best(history')
        /\ reports' = reports /\ invocation' = invocation /\ generation' = generation
    BY <1>1 DEF Generate, disk
  <2>2. OfGeneration(invocation, generation) = {}
    BY <1>1, Numbers DEF Generate, Core, Filed, OfGeneration, OfRun
  <2>3. Past' = reports /\ (Past \intersect OfRun(invocation))' = OfRun(invocation)
    BY <2>1, <2>2 DEF Past, OfGeneration, OfRun
  <2>4. LoadHistory = Merge(Scan(Past), Scan(Past \intersect OfRun(invocation)))'
    BY <2>3 DEF LoadHistory, Merge, Scan, Score, By, Completed, NoScore
  <2>5. Best(history)' = Best(history') BY DEF Best, Behind, Seed
  <2> QED BY <2>1, <2>4, <2>5 DEF Ranked
<1>2. ASSUME Generating, history' = history, parent' = parent,
             Past' = Past, (Past \intersect OfRun(invocation))' = Past \intersect OfRun(invocation)
      PROVE  Ranked'
  <2>1. Merge(Scan(Past), Scan(Past \intersect OfRun(invocation)))'
          = Merge(Scan(Past), Scan(Past \intersect OfRun(invocation)))
    BY <1>2 DEF Merge, Scan, Score, By, Completed, NoScore
  <2>2. Best(history)' = Best(history) BY <1>2 DEF Best, Behind, Seed
  <2> QED BY <1>2, <2>1, <2>2 DEF Ranked
<1>3. CASE Accept \/ Reject \/ GenerationFails
  <2>1. Generating BY <1>3, AttemptEffect DEF Core, Generating
  <2> QED BY <1>2, <1>3, <2>1, AttemptEffect DEF Core, Past, OfGeneration, OfRun
<1>4. CASE Evaluated
  <2>1. /\ pc = "suite" /\ history' = history /\ parent' = parent
        /\ invocation' = invocation /\ generation' = generation
    BY <1>4 DEF Evaluated
  <2>2. Past' = Past
    <3>1. CASE reports' = reports BY <2>1, <3>1 DEF Past, OfGeneration, OfRun
    <3>2. CASE reports' # reports
      <4>1. PICK r \in Reports : /\ r.run = invocation /\ r.gen = generation
                                 /\ reports' = reports \union {r}
        BY <1>4, <2>1, <3>2, AddedReport DEF Core
      <4> QED BY <2>1, <4>1 DEF Past, OfGeneration, OfRun
    <3> QED BY <3>1, <3>2
  <2>3. (Past \intersect OfRun(invocation))' = Past \intersect OfRun(invocation)
    <3>1. \A S \in {reports, reports'} : Past \subseteq S =>
            Past \intersect {r \in S : r.run = invocation} = {r \in Past : r.run = invocation}
      OBVIOUS
    <3>2. Past \subseteq reports /\ Past \subseteq reports' BY <2>2 DEF Past
    <3> QED BY <2>1, <2>2, <3>1, <3>2 DEF OfRun
  <2> QED BY <1>2, <2>1, <2>2, <2>3 DEF Generating
<1>5. CASE Distill
  BY <1>2, <1>5 DEF Distill, Generating, Past, OfGeneration, OfRun
<1>6. CASE Start \/ Record \/ Stop
  BY <1>6 DEF Start, Record, Stop, Generating
<1>7. CASE UNCHANGED vars
  BY <1>2, <1>7 DEF vars, loop, disk, Generating, Past, OfGeneration, OfRun
<1> QED BY <1>1, <1>3, <1>4, <1>5, <1>6, <1>7 DEF Next, Work

(* However many generations and invocations have left their reports, and   *)
(* wherever they were stopped, no candidate whose reports are counted alike*)
(* does better than the parent of a generation (_load_history, which adds  *)
(* up two roots one inside the other, and _select_parent_id).              *)
THEOREM Unbeaten == Spec => []ParentIsUnbeaten
<1>1. Init => Ranked BY DEF Init, Ranked, Generating
<1>2. Core /\ Ranked /\ [Next]_vars => Ranked' BY StepRanked
<1> QED BY <1>1, <1>2, RankedIsUnbeaten, CoreInvariant, PTL DEF Spec
=============================================================================
