----------------------------- MODULE AspireLoop -----------------------------
(***************************************************************************)
(* run_aspire (ksm/aspire.py): generations of candidate skills written by  *)
(* a language model, evaluated by run_suite, and ranked by the episode     *)
(* reports found on disk.  Several invocations share one output root; what *)
(* a stopped invocation has written is history for the next one.           *)
(***************************************************************************)
EXTENDS Integers, FiniteSets

CONSTANTS NInvocations, NGenerations, Population, MaxAttempts, NTasks, TopK,
          Needed,      \* success_threshold, in successes per hundred episodes
          SamePrefix   \* every invocation is given the same --candidate-prefix

ASSUME LoopAssumption ==
  /\ {NInvocations, NGenerations, Population, MaxAttempts, NTasks} \subseteq Nat \ {0}
  /\ TopK \in Nat /\ Needed \in 0..100
  /\ SamePrefix \in BOOLEAN

VARIABLES
  mode,      \* the flags evaluate and execute of this invocation
  pc, invocation, generation, candidate, attempt,
  lastError, \* what the next prompt says went wrong with the last answer
  packages,  \* the candidates of this generation that were packaged
  parent,    \* parent_id of this generation's packages
  history,   \* leaderboard of _load_history: id -> trials and completed
  success, finalRun, \* finalRun: the generation of final_suite_run, 0 without one
  reports,   \* on disk: every episode_report.json under the output root
  library,   \* on disk: the reports distilled into this run's skill library
  manifest,  \* on disk: the last aspire_manifest.json
  lineage    \* history variable: [child, parent] of every package ever made

loop == <<mode, pc, invocation, generation, candidate, attempt, lastError, packages, parent,
          history, success, finalRun>>
disk == <<reports, library, manifest>>
vars == <<loop, disk, lineage>>

-----------------------------------------------------------------------------
(* Candidate ids: <prefix>_g<generation>_c<candidate>.  A report that does *)
(* not parse is filed under the name of its episode directory.             *)

PrefixOf(i) == IF SamePrefix THEN 1 ELSE i
Id(i, g, c) == [prefix |-> PrefixOf(i), gen |-> g, cand |-> c]
Seed == [prefix |-> 0, gen |-> 0, cand |-> 0]
Torn(g) == [prefix |-> 0, gen |-> g, cand |-> 0]
Ids == [prefix : 0..NInvocations, gen : 0..NGenerations, cand : 0..Population]

Report(id, c, t, ok) ==
  [by |-> id, run |-> invocation, gen |-> generation, cand |-> c, task |-> t, success |-> ok]
Reports == [by : Ids, run : 1..NInvocations, gen : 1..NGenerations,
            cand : 1..Population, task : 1..NTasks, success : BOOLEAN]

OfRun(i) == {r \in reports : r.run = i}
OfGeneration(i, g) == {r \in OfRun(i) : r.gen = g}
By(S, id) == {r \in S : r.by = id}
Completed(S) == {r \in S : r.success}

-----------------------------------------------------------------------------
(* The leaderboard.                                                        *)

NoScore == [trials |-> 0, completed |-> 0]
Score(board, id) == IF id \in DOMAIN board THEN board[id] ELSE NoScore

(* scan_episode_reports of a directory that holds the reports S.           *)
Scan(S) == [id \in {r.by : r \in S} |->
              [trials |-> Cardinality(By(S, id)),
               completed |-> Cardinality(Completed(By(S, id)))]]

Merge(a, b) ==
  [id \in DOMAIN a \union DOMAIN b |->
     [trials |-> Score(a, id).trials + Score(b, id).trials,
      completed |-> Score(a, id).completed + Score(b, id).completed]]

(* The two roots are scanned one after the other and added up; the second, *)
(* aspire_dir, lies inside the first, output_root.                         *)
LoadHistory == Merge(Scan(reports), Scan(OfRun(invocation)))

Behind(a, b) == a.completed * b.trials < b.completed * a.trials

(* Mutant: the leaderboard is sorted without the minus, the worst first.   *)
WorstFirst(board) ==
  IF TopK = 0 \/ DOMAIN board = {} THEN {Seed}
  ELSE {id \in DOMAIN board : \A other \in DOMAIN board : ~Behind(board[other], board[id])}

(* _select_parent_id: the first of the leaderboard; equal rates are sorted *)
(* by a name this model does not have, so any of them may come first.      *)
Best(board) ==
  IF TopK = 0 \/ DOMAIN board = {} THEN {Seed}
  ELSE {id \in DOMAIN board : \A other \in DOMAIN board : ~Behind(board[id], board[other])}

-----------------------------------------------------------------------------
(* Neither flag; evaluate alone, when an episode is a dry run that does    *)
(* not succeed; or both.                                                   *)
Modes == {"generate", "dry", "execute"}
Nothing == [run |-> 0, generations |-> 0, success |-> FALSE, final |-> 0]

Init ==
  /\ mode = "generate" /\ pc = "idle" /\ invocation = 0 /\ generation = 1 /\ candidate = 1 /\ attempt = 1
  /\ lastError = "none" /\ packages = {} /\ parent = Seed
  /\ history = Scan({}) /\ success = FALSE /\ finalRun = 0
  /\ reports = {} /\ library = {} /\ manifest = Nothing /\ lineage = {}

Start ==
  /\ pc = "idle" /\ invocation < NInvocations
  /\ mode' \in Modes /\ pc' = "history" /\ invocation' = invocation + 1 /\ generation' = 1
  /\ success' = FALSE /\ finalRun' = 0 /\ library' = {}
  /\ UNCHANGED <<candidate, attempt, lastError, packages, parent, history, reports,
                 manifest, lineage>>

Generate ==
  /\ pc = "history" /\ pc' = "attempt"
  /\ history' = LoadHistory /\ parent' \in Best(history')
  /\ candidate' = 1 /\ attempt' = 1 /\ lastError' = "none" /\ packages' = {}
  /\ UNCHANGED <<mode, invocation, generation, success, finalRun, disk, lineage>>

-----------------------------------------------------------------------------
(* The attempts at one candidate.                                          *)

(* The next candidate of the population, or the suite of those packaged.   *)
NextCandidate ==
  /\ lastError' = "none" /\ attempt' = 1
  /\ IF candidate < Population
     THEN pc' = "attempt" /\ candidate' = candidate + 1
     ELSE /\ pc' = IF packages' # {} /\ mode # "generate" THEN "suite" ELSE "record"
          /\ candidate' = candidate
  /\ UNCHANGED <<mode, invocation, generation, history, success, finalRun, disk>>

(* The answer parses and violates neither the policy nor a contract.       *)
Accept ==
  /\ pc = "attempt"
  /\ packages' = packages \union {candidate}
  /\ lineage' = lineage \union
       {[child |-> Id(invocation, generation, candidate), parent |-> parent]}
  /\ NextCandidate /\ UNCHANGED parent

(* Mutant: attempts that are refused are not counted.                      *)
Uncounted ==
  /\ pc = "attempt" /\ lastError' \in {"policy", "contract", "exception"}
  /\ UNCHANGED <<mode, pc, candidate, attempt, packages, invocation, generation, history,
                 success, finalRun, disk, parent, lineage>>

(* An answer that is refused is asked for once more, with the reason.      *)
Reject ==
  /\ pc = "attempt"
  /\ \E why \in {"policy", "contract", "exception"} :
       IF attempt < MaxAttempts
       THEN /\ attempt' = attempt + 1 /\ lastError' = why
            /\ UNCHANGED <<mode, pc, candidate, packages, invocation, generation, history,
                           success, finalRun, disk>>
       ELSE packages' = packages /\ NextCandidate
  /\ UNCHANGED <<parent, lineage>>

(* The client's own failure is not retried; nor is one of the packaging.   *)
GenerationFails ==
  /\ pc = "attempt" /\ packages' = packages
  /\ NextCandidate /\ UNCHANGED <<parent, lineage>>

-----------------------------------------------------------------------------
(* The suite: for every task, every package.                               *)

Episodes == (1..NTasks) \X packages
Pending == {e \in Episodes :
              \A r \in OfGeneration(invocation, generation) : <<r.task, r.cand>> # e}
First(S) == {e \in S : \A o \in S : e[1] < o[1] \/ (e[1] = o[1] /\ e[2] <= o[2])}

Evaluated ==
  /\ pc = "suite" /\ pc' = IF Cardinality(Pending) = 1 THEN "distill" ELSE "suite"
  /\ \E e \in First(Pending), ok \in (IF mode = "execute" THEN BOOLEAN ELSE {FALSE}) :
       reports' = reports \union {Report(Id(invocation, generation, e[2]), e[2], e[1], ok)}
  /\ UNCHANGED <<mode, invocation, generation, candidate, attempt, lastError, packages, parent,
                 history, success, finalRun, library, manifest, lineage>>

(* Mutant: one success is enough.                                          *)
AnySuccess(S) == Completed(S) # {}

(* success_rate over all the episodes of the suite.                        *)
MeetsThreshold(S) == Cardinality(Completed(S)) * 100 >= Needed * Cardinality(S)

Distill ==
  /\ pc = "distill" /\ pc' = "record"
  /\ success' = (mode = "execute" /\ MeetsThreshold(OfGeneration(invocation, generation)))
  /\ finalRun' = generation
  /\ library' = library \union OfGeneration(invocation, generation)
  /\ UNCHANGED <<mode, invocation, generation, candidate, attempt, lastError, packages, parent,
                 history, reports, manifest, lineage>>

Record ==
  /\ pc = "record"
  /\ manifest' = [run |-> invocation, generations |-> generation,
                  success |-> success, final |-> finalRun]
  /\ IF success \/ generation = NGenerations
     THEN pc' = "idle" /\ generation' = generation
     ELSE pc' = "history" /\ generation' = generation + 1
  /\ UNCHANGED <<mode, invocation, candidate, attempt, lastError, packages, parent, history,
                 success, finalRun, reports, library, lineage>>

-----------------------------------------------------------------------------
(* What run_suite or a file operation raises is caught by nobody, and the  *)
(* process may be killed: what is on disk stays, with the report that was  *)
(* being written possibly cut short.                                       *)
Stop ==
  /\ pc # "idle" /\ pc' = "idle"
  /\ \/ UNCHANGED reports
     \/ /\ pc = "suite"
        /\ \E e \in First(Pending) :
             reports' = reports \union {Report(Torn(generation), e[2], e[1], FALSE)}
  /\ UNCHANGED <<mode, invocation, generation, candidate, attempt, lastError, packages, parent,
                 history, success, finalRun, library, manifest, lineage>>

Work == Generate \/ Accept \/ Reject \/ GenerationFails \/ Evaluated \/ Distill \/ Record
Next == Start \/ Work \/ Stop

Spec == Init /\ [][Next]_vars

(* The process runs, and its calls return: the model's answer has a        *)
(* deadline, run_suite ends (SuiteRun).  Nobody need call run_aspire again.*)
FairSpec == Spec /\ WF_vars(Work)

-----------------------------------------------------------------------------
(* Every variable has its type.                                            *)
TypeOK ==
  /\ mode \in Modes /\ pc \in {"idle", "history", "attempt", "suite", "distill", "record"}
  /\ invocation \in 0..NInvocations /\ (pc # "idle" => invocation # 0)
  /\ generation \in 1..NGenerations /\ candidate \in 1..Population
  /\ attempt \in 1..MaxAttempts
  /\ lastError \in {"none", "policy", "contract", "exception"}
  /\ packages \subseteq 1..Population /\ parent \in Ids
  /\ DOMAIN history \subseteq Ids
  /\ success \in BOOLEAN /\ finalRun \in 0..NGenerations
  /\ reports \subseteq Reports /\ library \subseteq Reports
  /\ manifest \in [run : 0..NInvocations, generations : 0..NGenerations,
                   success : BOOLEAN, final : 0..NGenerations]
  /\ lineage \subseteq [child : Ids, parent : Ids]

(* What a generation has to go by: the reports written before it.          *)
Past == reports \ OfGeneration(invocation, generation)
Generating == pc \in {"attempt", "suite", "distill", "record"}

(* The reports of id are all of this run, or all of earlier ones.          *)
Unmixed(id) == \/ By(Past, id) \subseteq OfRun(invocation)
               \/ By(Past, id) \intersect OfRun(invocation) = {}

(* No candidate does better than the parent of a generation: if any other  *)
(* has a higher success rate over everything on disk, one of the two has   *)
(* reports both of this run and of another.  A report cut short is never   *)
(* preferred to a success.                                                 *)
ParentIsUnbeaten ==
  Generating /\ parent # Seed =>
    \A id \in DOMAIN history : Unmixed(id) /\ Unmixed(parent) =>
      ~Behind([trials |-> Cardinality(By(Past, parent)),
               completed |-> Cardinality(Completed(By(Past, parent)))],
              [trials |-> Cardinality(By(Past, id)),
               completed |-> Cardinality(Completed(By(Past, id)))])

Earlier(a, b) == a.prefix < b.prefix \/ (a.prefix = b.prefix /\ a.gen < b.gen)

(* A package's parent is of an earlier generation, of this or an earlier   *)
(* run: following parent_id ends.  (With a prefix used twice an id names   *)
(* two candidates, and one may be its own parent.)                         *)
LineageGoesBack == \A l \in lineage : Earlier(l.parent, l.child) \/ l.parent.cand = 0

(* What aspire_manifest.json says stays true to the reports, whenever the  *)
(* run stops: a success is one of the generation it names as the final one,*)
(* which reached the threshold with every package on every task.           *)
ManifestIsEarned ==
  manifest.success =>
    LET final == OfGeneration(manifest.run, manifest.final)
    IN /\ final # {} /\ \A r \in final : r.by # Torn(r.gen)
       /\ Cardinality(Completed(final)) * 100 >= Needed * Cardinality(final)
       /\ \A r \in final : \A t \in 1..NTasks : \E o \in final : o.cand = r.cand /\ o.task = t

(* The loop stops at the first generation that succeeds: nothing is run    *)
(* after it, and every earlier one is below the threshold.                 *)
StopsAtSuccess ==
  manifest.success =>
    \A r \in OfRun(manifest.run) :
      /\ r.gen <= manifest.final
      /\ r.gen < manifest.final =>
           Cardinality(Completed(OfGeneration(r.run, r.gen))) * 100
             < Needed * Cardinality(OfGeneration(r.run, r.gen))

(* Every invocation comes to an end.                                       *)
Ends == (pc # "idle") ~> (pc = "idle")
=============================================================================
