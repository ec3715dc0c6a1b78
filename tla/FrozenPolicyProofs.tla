------------------------- MODULE FrozenPolicyProofs -------------------------
(***************************************************************************)
(* Theorems about EvalSession and PolicyBuild: what a run of a frozen      *)
(* policy against the EvalServer and a directory of the seed protocol      *)
(* guarantee, for every number of runs, operations, seeds, directories,    *)
(* commands and edits, whatever goes wrong in the exchanges and whatever   *)
(* is interrupted.                                                         *)
(***************************************************************************)
EXTENDS EvalSession, PolicyBuild, ListingProofs

-----------------------------------------------------------------------------
(* EvalSession.  A final record belongs to the run the server started, and *)
(* to one only.                                                            *)

FinalRuns == { finals[i].run : i \in DOMAIN finals }

(* Runs are only ever named after the server started them: a new run is    *)
(* new to the adapter.                                                     *)
Started ==
  /\ session \in 0..run /\ answer.run \in 0..run
  /\ rejected \cup FinalRuns \subseteq 1..run

(* The answer to a reset names a run the adapter has not met, and an       *)
(* operation in progress belongs to the session that began it.             *)
InProgress ==
  /\ stage = "answered" /\ call = "reset" =>
       answer.run \notin rejected \cup FinalRuns \cup {0}
  /\ stage = "running" => call = "skill"
  /\ call \in {"skill", "finalize"} => session # 0
  /\ call = "finalize" => ~poisoned

(* The poison stays while the rejected run is the session's, and the       *)
(* session's run has no final record.                                      *)
Poison ==
  /\ session \in rejected => poisoned
  /\ session \notin FinalRuns

IInv == /\ TypeOK /\ Started /\ InProgress /\ Poison
        /\ RejectedRunsNeverFinal /\ FinalIsOwnAndOnce

(* What Receive and Done leave. *)
LEMMA ReceiveEffect ==
  ASSUME NEW kind, Receive(kind), TypeOK
  PROVE  /\ stage = "answered" /\ call = kind
         /\ call' = "none" /\ stage' = "idle" /\ answer' = NoAnswer
         /\ UNCHANGED <<late, made, run, open, busy, strays>>
BY DEF Receive, Done, server

LEMMA NoAnswerType == NoAnswer \in Answers /\ NoAnswer.run = 0
BY BoundAssumption DEF NoAnswer, Answers

LEMMA InitInv == SessionInit => IInv
<1> SUFFICES ASSUME SessionInit PROVE IInv
  OBVIOUS
<1>a. MaxRuns \in Nat \ {0} /\ MaxCalls \in Nat BY BoundAssumption
<1>b. session \in 0..MaxRuns /\ run \in 0..MaxRuns /\ made \in 0..MaxCalls BY <1>a DEF SessionInit
<1>c. answer \in Answers /\ rejected \subseteq 1..MaxRuns /\ finals = <<>>
  BY NoAnswerType DEF SessionInit
<1>d. /\ poisoned \in BOOLEAN /\ unsettled \in BOOLEAN /\ open \in BOOLEAN /\ busy \in BOOLEAN
  BY Zenon DEF SessionInit
<1>1. TypeOK BY <1>b, <1>c, <1>d DEF SessionInit, TypeOK, Kinds
<1>2. finals = <<>> /\ FinalRuns = {} BY DEF SessionInit, FinalRuns
<1>3. Started BY <1>2, NoAnswerType DEF SessionInit, Started
<1> QED BY <1>1, <1>2, <1>3 DEF SessionInit, IInv, InProgress, Poison,
           RejectedRunsNeverFinal, FinalIsOwnAndOnce

(* A step that leaves what the adapter remembers alone and ends or begins  *)
(* no operation of its own.                                                *)
LEMMA ServerSteps ==
  ASSUME IInv, Server
  PROVE  IInv'
<1> USE BoundAssumption
<1>0. /\ TypeOK /\ Started /\ InProgress /\ Poison
      /\ RejectedRunsNeverFinal /\ FinalIsOwnAndOnce
  BY DEF IInv
<1>1. UNCHANGED client
  BY DEF Server, ServeReset, StartSkill, SkillStops, AnswerSkill, AnswerFinalize, Refuse,
     OtherClientResets, ServeLate, Reply
<1>2. /\ UNCHANGED <<session, poisoned, finals, rejected, unsettled, FinalRuns>>
  BY <1>1 DEF client, FinalRuns
<1>3. RejectedRunsNeverFinal' /\ FinalIsOwnAndOnce' /\ Poison'
  BY <1>0, <1>2 DEF RejectedRunsNeverFinal, FinalIsOwnAndOnce, Poison
<1>4. CASE ServeReset
  <2>1. PICK complete \in Flags, same \in Flags :
          answer' = [NoAnswer EXCEPT !.run = run + 1, !.complete = complete, !.same = same]
    BY <1>4 DEF ServeReset, Reply
  <2>2. /\ run \in Nat /\ run' = run + 1 /\ run' \in 0..MaxRuns
        /\ open' = TRUE /\ busy' = FALSE /\ stage' = "answered"
        /\ UNCHANGED <<call, late, made, strays>> /\ call = "reset"
    BY <1>0, <1>4 DEF ServeReset, NewRun, Reply, TypeOK
  <2>3. answer' \in Answers /\ answer'.run = run'
    BY <2>1, <2>2 DEF NoAnswer, Answers, Flags
  <2>4. TypeOK' BY <1>0, <1>2, <2>2, <2>3 DEF TypeOK
  <2>5. Started' BY <1>0, <1>2, <2>2, <2>3 DEF Started, TypeOK
  <2>6. answer'.run \notin rejected \cup FinalRuns \cup {0}
    BY <1>0, <2>2, <2>3 DEF Started, TypeOK
  <2> QED BY <1>0, <1>2, <1>3, <2>2, <2>4, <2>5, <2>6 DEF IInv, InProgress
<1>5. CASE AnswerSkill \/ AnswerFinalize
  <2>0. Flags \subseteq BOOLEAN BY Zenon DEF Flags
  <2>q. busy \in BOOLEAN BY <1>0 DEF TypeOK
  <2>u. FALSE \in BOOLEAN /\ TRUE \in BOOLEAN OBVIOUS
  <2>v. (~busy) \in BOOLEAN OBVIOUS
  <2>t. FALSE \in BOOLEAN /\ TRUE \in BOOLEAN /\ (~busy) \in BOOLEAN BY <2>u, <2>v
  <2>r. run \in 0..MaxRuns BY <1>0 DEF TypeOK
  <2>1. PICK a \in Answers : Reply(a) /\ a.run = run
    <3>1. CASE AnswerSkill
      <4>1. PICK complete \in Flags, same \in Flags, typed \in Flags, queue \in BOOLEAN,
                 terminal \in BOOLEAN, quiet \in {FALSE, ~busy} :
              Reply([run |-> run, complete |-> complete, same |-> same, queue |-> queue,
                     quiet |-> quiet, terminal |-> terminal, typed |-> typed])
        BY <3>1 DEF AnswerSkill
      <4>2. quiet \in BOOLEAN BY <2>t
      <4>3. [run |-> run, complete |-> complete, same |-> same, queue |-> queue,
             quiet |-> quiet, terminal |-> terminal, typed |-> typed] \in Answers
        BY <2>0, <2>r, <4>2 DEF Answers
      <4> QED BY <4>1, <4>3
    <3>2. CASE AnswerFinalize
      <4>1. PICK complete \in Flags, typed \in Flags :
              Reply([NoAnswer EXCEPT !.run = run, !.complete = complete, !.same = TRUE,
                                     !.quiet = ~busy, !.typed = typed])
        BY <3>2 DEF AnswerFinalize
      <4>2. [NoAnswer EXCEPT !.run = run, !.complete = complete, !.same = TRUE,
                             !.quiet = ~busy, !.typed = typed] \in Answers
        BY <2>0, <2>r, <2>t, NoAnswerType DEF Answers
      <4>3. [NoAnswer EXCEPT !.run = run, !.complete = complete, !.same = TRUE,
                             !.quiet = ~busy, !.typed = typed].run = run
        BY NoAnswerType DEF Answers
      <4> QED BY <4>1, <4>2, <4>3
    <3> QED BY <1>5, <3>1, <3>2
  <2>2. /\ answer' \in Answers /\ answer'.run = run /\ stage' = "answered"
        /\ UNCHANGED <<call, late, made>>
    BY <2>1 DEF Reply
  <2>3. /\ UNCHANGED <<run, busy, strays>> /\ call \in Kinds /\ call # "reset"
    BY <1>0, <1>5 DEF AnswerSkill, AnswerFinalize, server, TypeOK, Kinds, InProgress
  <2>4. open' \in BOOLEAN
    BY <1>0, <1>5, Zenon DEF AnswerSkill, AnswerFinalize, server, TypeOK
  <2>5. call \in Kinds \cup {"none"} /\ call # "none" BY <2>3 DEF Kinds
  <2>6. TypeOK' BY <1>0, <1>2, <2>2, <2>3, <2>4, <2>5 DEF TypeOK
  <2>7. Started' BY <1>0, <1>2, <2>2, <2>3, <2>r DEF Started
  <2>8. InProgress' BY <1>0, <1>2, <2>2, <2>3 DEF InProgress
  <2> QED BY <1>3, <2>6, <2>7, <2>8 DEF IInv
<1>6. CASE StartSkill
  <2>1. /\ stage' = "running" /\ call = "skill" /\ open /\ busy' = TRUE
        /\ UNCHANGED <<call, answer, late, made, run, open, strays>>
    BY <1>6 DEF StartSkill
  <2>2. open' \in BOOLEAN /\ busy' \in BOOLEAN BY <2>1, Zenon
  <2>3. call' \in Kinds \cup {"none"} /\ (stage' = "idle" <=> call' = "none")
    BY <2>1 DEF Kinds
  <2> QED BY <1>0, <1>2, <1>3, <2>1, <2>2, <2>3 DEF IInv, TypeOK, Started, InProgress
<1>7. CASE SkillStops
  <2>1. busy' \in BOOLEAN BY <1>7, Zenon DEF SkillStops
  <2> QED BY <2>1, <1>0, <1>2, <1>3, <1>7 DEF SkillStops, exchange, IInv, TypeOK, Started, InProgress
<1>8. CASE Refuse
  <2>1. /\ call' = "none" /\ stage' = "idle" /\ answer' = NoAnswer
        /\ UNCHANGED <<run, open, busy, strays, late, made>>
    BY <1>8 DEF Refuse, Done, server
  <2> QED BY <1>0, <1>2, <1>3, <2>1, NoAnswerType
          DEF IInv, TypeOK, Started, InProgress
<1>9. CASE OtherClientResets
  <2>1. open' \in BOOLEAN /\ busy' \in BOOLEAN
    BY <1>9, Zenon DEF OtherClientResets, NewRun
  <2> QED BY <2>1, <1>0, <1>2, <1>3, <1>9
          DEF OtherClientResets, NewRun, exchange, IInv, TypeOK, Started, InProgress
<1>10. ASSUME NEW kind \in Kinds, ServeLate(kind) PROVE IInv'
  <2>0. /\ UNCHANGED <<call, stage, answer, made>> /\ late' \subseteq Kinds
    BY <1>0, <1>10 DEF ServeLate, TypeOK
  <2>c. kind = "reset" => run' \in 0..MaxRuns /\ run <= run' /\ open' = TRUE /\ busy' = FALSE
    BY <1>0, <1>10, <2>0 DEF ServeLate, NewRun, TypeOK
  <2>d. kind = "skill" \/ kind = "finalize" =>
          run' = run /\ open' \in BOOLEAN /\ busy' \in BOOLEAN
    BY <1>0, <1>10, Zenon DEF ServeLate, TypeOK
  <2>e. open' \in BOOLEAN /\ busy' \in BOOLEAN BY <2>c, <2>d, Zenon DEF Kinds
  <2>f. run' \in 0..MaxRuns /\ run <= run' BY <1>0, <2>c, <2>d DEF Kinds, TypeOK
  <2>g. strays' \subseteq 0..MaxRuns
    BY <1>0, <1>10 DEF ServeLate, NewRun, TypeOK, Kinds
  <2>1. /\ UNCHANGED <<call, stage, answer, made>> /\ late' \subseteq Kinds
        /\ run' \in 0..MaxRuns /\ run <= run' /\ open' \in BOOLEAN /\ busy' \in BOOLEAN
        /\ strays' \subseteq 0..MaxRuns
    BY <2>0, <2>e, <2>f, <2>g
  <2> QED BY <1>0, <1>2, <1>3, <2>1 DEF IInv, TypeOK, Started, InProgress
<1> QED BY <1>4, <1>5, <1>6, <1>7, <1>8, <1>9, <1>10 DEF Server

LEMMA OperationSteps ==
  ASSUME IInv, Operations
  PROVE  IInv'
<1>0. /\ TypeOK /\ Started /\ InProgress /\ Poison
      /\ RejectedRunsNeverFinal /\ FinalIsOwnAndOnce
  BY DEF IInv
<1>1. UNCHANGED <<session, poisoned, finals, rejected, FinalRuns, run, open, busy, strays>>
  BY DEF Operations, Reset, ExecuteSkill, Finalize, TransportFails, Send, client, server,
     FinalRuns
<1>2. RejectedRunsNeverFinal' /\ FinalIsOwnAndOnce' /\ Poison'
  BY <1>0, <1>1 DEF RejectedRunsNeverFinal, FinalIsOwnAndOnce, Poison
<1>3. CASE TransportFails
  <2>1. /\ call' = "none" /\ stage' = "idle" /\ answer' = NoAnswer /\ made' = made
        /\ late' \subseteq Kinds /\ unsettled' \in BOOLEAN
    BY <1>0, <1>3 DEF TransportFails, Done, TypeOK
  <2> QED BY <1>0, <1>1, <1>2, <2>1, NoAnswerType DEF IInv, TypeOK, Started, InProgress
<1>4. CASE Reset \/ ExecuteSkill \/ Finalize
  <2>1. /\ stage' = "sent" /\ call' \in Kinds /\ made' \in 0..MaxCalls
        /\ UNCHANGED <<answer, late, unsettled>>
        /\ call' \in {"skill", "finalize"} => session # 0
        /\ call' = "finalize" => ~poisoned
    BY <1>0, <1>4, BoundAssumption
    DEF Reset, ExecuteSkill, Finalize, Send, client, TypeOK, Kinds
  <2> QED BY <1>0, <1>1, <1>2, <2>1 DEF IInv, TypeOK, Started, InProgress, Kinds
<1> QED BY <1>3, <1>4 DEF Operations

LEMMA ReturnSteps ==
  ASSUME IInv, Returns
  PROVE  IInv'
<1>0. /\ TypeOK /\ Started /\ InProgress /\ Poison
      /\ RejectedRunsNeverFinal /\ FinalIsOwnAndOnce
  BY DEF IInv
<1>1. /\ call' = "none" /\ stage' = "idle" /\ answer' = NoAnswer /\ stage = "answered"
      /\ UNCHANGED <<late, made, run, open, busy, strays>>
  BY <1>0, ReceiveEffect
  DEF Returns, ResetReturns, ResetRejected, SkillIncomplete, SkillRejected, SkillReturns,
      FinalizeReturns, FinalizeRejected
<1>2. ASSUME UNCHANGED <<session, poisoned, finals, rejected>>, unsettled' \in BOOLEAN
      PROVE  IInv'
  <2>1. UNCHANGED FinalRuns BY <1>2 DEF FinalRuns
  <2>2. RejectedRunsNeverFinal' /\ FinalIsOwnAndOnce' /\ Poison'
    BY <1>0, <1>2, <2>1 DEF RejectedRunsNeverFinal, FinalIsOwnAndOnce, Poison
  <2> QED BY <1>0, <1>1, <1>2, <2>1, <2>2, NoAnswerType
          DEF IInv, TypeOK, Started, InProgress
<1>3. CASE ResetRejected \/ SkillIncomplete \/ SkillReturns \/ FinalizeRejected
  BY <1>0, <1>2, <1>3
  DEF ResetRejected, SkillIncomplete, SkillReturns, FinalizeRejected, client, TypeOK
<1>4. CASE ResetReturns
  <2>1. /\ call = "reset" /\ session' = answer.run /\ poisoned' = FALSE /\ unsettled' = FALSE
        /\ UNCHANGED <<finals, rejected, FinalRuns>>
    BY <1>0, <1>4, ReceiveEffect DEF ResetReturns, FinalRuns
  <2>0. poisoned' \in BOOLEAN /\ unsettled' \in BOOLEAN BY <2>1, Zenon
  <2>2. session' \in 0..MaxRuns /\ session' \in 0..run
    BY <1>0, <2>1 DEF TypeOK, Answers, Started
  <2>3. session' \notin rejected \cup FinalRuns BY <1>0, <1>1, <2>1 DEF InProgress
  <2> QED BY <1>0, <1>1, <2>0, <2>1, <2>2, <2>3, NoAnswerType
          DEF IInv, TypeOK, Started, InProgress, Poison, RejectedRunsNeverFinal,
              FinalIsOwnAndOnce
<1>5. CASE SkillRejected
  <2>1. /\ call = "skill" /\ poisoned' = TRUE /\ rejected' = rejected \cup {session}
        /\ unsettled' = TRUE /\ UNCHANGED <<session, finals, FinalRuns>>
    BY <1>0, <1>5, ReceiveEffect DEF SkillRejected, FinalRuns
  <2>0. poisoned' \in BOOLEAN /\ unsettled' \in BOOLEAN BY <2>1, Zenon
  <2>2. session \in 1..MaxRuns /\ session \in 1..run /\ session \notin FinalRuns
    BY <1>0, <2>1 DEF TypeOK, Started, InProgress, Poison
  <2>3. RejectedRunsNeverFinal'
    BY <1>0, <2>1, <2>2 DEF RejectedRunsNeverFinal, FinalRuns
  <2>4. FinalIsOwnAndOnce' BY <1>0, <2>1 DEF FinalIsOwnAndOnce
  <2> QED BY <1>0, <1>1, <2>0, <2>1, <2>2, <2>3, <2>4, NoAnswerType
          DEF IInv, TypeOK, Started, InProgress, Poison
<1>6. CASE FinalizeReturns
  <2> DEFINE f == [run |-> session, of |-> answer.run, quiet |-> answer.quiet,
                   settled |-> ~unsettled]
             F == [run: 1..MaxRuns, of: 1..MaxRuns, quiet: BOOLEAN, settled: BOOLEAN]
  <2>1. /\ call = "finalize" /\ answer.run = session /\ finals' = Append(finals, f)
        /\ session' = 0 /\ UNCHANGED <<poisoned, rejected, unsettled>>
    BY <1>0, <1>6, ReceiveEffect DEF FinalizeReturns, Matches
  <2>2. session \in 1..MaxRuns /\ session \in 1..run /\ session \notin FinalRuns
        /\ session \notin rejected
    BY <1>0, <2>1 DEF TypeOK, Started, InProgress, Poison
  <2>3. f \in F /\ finals \in Seq(F)
    BY <1>0, <2>1, <2>2 DEF TypeOK, Answers
  <2>4. /\ finals' \in Seq(F)
        /\ DOMAIN finals' = 1..(Len(finals) + 1) /\ DOMAIN finals = 1..Len(finals)
        /\ \A i \in 1..Len(finals) : finals'[i] = finals[i]
        /\ finals'[Len(finals) + 1] = f /\ Len(finals) \in Nat
    <3> HIDE DEF f, F
    <3> QED BY <2>1, <2>3
  <2>5. FinalRuns' = FinalRuns \cup {session}
    <3>1. \A i \in DOMAIN finals' : finals'[i].run \in FinalRuns \cup {session}
      BY <2>4 DEF FinalRuns
    <3>2. \A i \in DOMAIN finals : i \in DOMAIN finals' /\ finals'[i].run = finals[i].run
      BY <2>4
    <3>3. Len(finals) + 1 \in DOMAIN finals' /\ finals'[Len(finals) + 1].run = session
      BY <2>4
    <3> QED BY <3>1, <3>2, <3>3 DEF FinalRuns
  <2>6. RejectedRunsNeverFinal'
    BY <1>0, <2>1, <2>2, <2>4 DEF RejectedRunsNeverFinal
  <2>7. FinalIsOwnAndOnce'
    <3>1. \A i \in DOMAIN finals' : finals'[i].of = finals'[i].run
      BY <1>0, <2>1, <2>4 DEF FinalIsOwnAndOnce
    <3>2. \A i \in 1..Len(finals) : finals'[i].run # session
      BY <2>2, <2>4 DEF FinalRuns
    <3>3. ASSUME NEW i \in DOMAIN finals', NEW j \in DOMAIN finals',
                 finals'[i].run = finals'[j].run
          PROVE  i = j
      <4>1. CASE i \in 1..Len(finals) /\ j \in 1..Len(finals)
        BY <1>0, <2>4, <3>3, <4>1 DEF FinalIsOwnAndOnce
      <4>2. finals'[Len(finals) + 1].run = session BY <2>4
      <4>3. (i = Len(finals) + 1) <=> (j = Len(finals) + 1)
        BY <2>4, <3>2, <3>3, <4>2
      <4> QED BY <2>4, <4>1, <4>3
    <3> QED BY <3>1, <3>3 DEF FinalIsOwnAndOnce
  <2>8. 0 \notin rejected \cup FinalRuns' BY <1>0, <2>2, <2>5 DEF Started
  <2>9. TypeOK' BY <1>0, <1>1, <2>1, <2>4, NoAnswerType, BoundAssumption DEF TypeOK
  <2>10. Started' BY <1>0, <1>1, <2>1, <2>2, <2>5, NoAnswerType DEF Started, TypeOK
  <2> QED BY <1>1, <2>1, <2>6, <2>7, <2>8, <2>9, <2>10 DEF IInv, InProgress, Poison
<1> QED BY <1>3, <1>4, <1>5, <1>6 DEF Returns

LEMMA Inductive == SessionSpec => []IInv
<1>1. IInv /\ [SessionNext]_sessionVars => IInv'
  <2> SUFFICES ASSUME IInv, [SessionNext]_sessionVars PROVE IInv'
    OBVIOUS
  <2>1. CASE UNCHANGED sessionVars
    BY <2>1 DEF sessionVars, client, server, exchange, IInv, TypeOK, Started, InProgress, Poison,
       FinalRuns, RejectedRunsNeverFinal, FinalIsOwnAndOnce
  <2> QED BY <2>1, OperationSteps, ReturnSteps, ServerSteps DEF SessionNext
<1> QED BY <1>1, InitInv, PTL DEF SessionSpec

(* The state of the adapter and of its exchanges stays well typed.         *)
THEOREM Typing == SessionSpec => []TypeOK
<1>1. IInv => TypeOK BY DEF IInv
<1> QED BY <1>1, Inductive, PTL

(* A run in which a skill response was rejected is never finalized.        *)
THEOREM PoisonOutlasts == SessionSpec => []RejectedRunsNeverFinal
<1>1. IInv => RejectedRunsNeverFinal BY DEF IInv
<1> QED BY <1>1, Inductive, PTL

(* A final record is the record of the session's own run, and the only one *)
(* of that run.                                                            *)
THEOREM OwnFinal == SessionSpec => []FinalIsOwnAndOnce
<1>1. IInv => FinalIsOwnAndOnce BY DEF IInv
<1> QED BY <1>1, Inductive, PTL

-----------------------------------------------------------------------------
(* Where nothing can move the robot: in the session's own run as long as   *)
(* each of its skills was proved to have ended and none is on its way, in  *)
(* the run a reset has just begun, and in a run a quiet answer came from.  *)
Own == session # 0 /\ run = session /\ ~unsettled
AtRest ==
  run \notin strays =>
    /\ Own /\ (call = "skill" => stage = "sent") => ~busy
    /\ stage = "answered" /\ answer.run = run /\ (call = "reset" \/ (call = "skill" /\ answer.quiet)) =>
         ~busy

(* The final record on its way to a settled session is a quiet one.        *)
QuietAnswer ==
  stage = "answered" /\ call = "finalize" /\ answer.run = session /\ session \notin strays
    /\ ~unsettled => answer.quiet

Quiet == AtRest /\ QuietAnswer /\ SettledFinalIsQuiet

(* A new run is at rest, and not the one of the session or the answer.     *)
LEMMA NewRunRests ==
  ASSUME IInv, Quiet, OtherClientResets \/ ServeLate("reset")
  PROVE  Quiet'
<1>1. /\ run' = run + 1 /\ busy' = FALSE
      /\ UNCHANGED <<strays, call, stage, answer, session, unsettled, finals>>
  BY DEF OtherClientResets, ServeLate, NewRun, exchange, client
<1> QED BY <1>1 DEF Quiet, AtRest, QuietAnswer, SettledFinalIsQuiet

LEMMA ServerRests ==
  ASSUME IInv, Quiet, Server
  PROVE  Quiet'
<1>0. TypeOK /\ Started /\ InProgress BY DEF IInv
<1>1. CASE ServeReset
  <2>1. /\ busy' = FALSE /\ call' = "reset" /\ UNCHANGED <<session, unsettled, finals, strays>>
    BY <1>1 DEF ServeReset, NewRun, Reply, client
  <2> QED BY <2>1 DEF Quiet, AtRest, QuietAnswer, SettledFinalIsQuiet
<1>2. CASE StartSkill
  <2>1. /\ call' = "skill" /\ stage' = "running"
        /\ UNCHANGED <<session, unsettled, finals, strays, run, answer>>
    BY <1>2 DEF StartSkill, client
  <2> QED BY <2>1 DEF Quiet, AtRest, QuietAnswer, SettledFinalIsQuiet
<1>3. CASE SkillStops
  <2>1. busy' = FALSE /\ UNCHANGED <<call, stage, answer, session, unsettled, finals, strays, run>>
    BY <1>3 DEF SkillStops, exchange, client
  <2> QED BY <2>1 DEF Quiet, AtRest, QuietAnswer, SettledFinalIsQuiet
<1>4. CASE AnswerSkill
  <2>1. /\ call' = "skill" /\ stage' = "answered"
        /\ UNCHANGED <<session, unsettled, finals, strays, run, busy>>
    BY <1>0, <1>4 DEF AnswerSkill, Reply, client, server, InProgress
  <2>2. answer'.quiet => ~busy
    <3>1. PICK complete \in Flags, same \in Flags, typed \in Flags, queue \in BOOLEAN,
               terminal \in BOOLEAN, quiet \in {FALSE, ~busy} :
            Reply([run |-> run, complete |-> complete, same |-> same, queue |-> queue,
                   quiet |-> quiet, terminal |-> terminal, typed |-> typed])
      BY <1>4 DEF AnswerSkill
    <3>2. answer'.quiet = quiet BY <3>1 DEF Reply
    <3> QED BY <3>2, Zenon
  <2> QED BY <2>1, <2>2 DEF Quiet, AtRest, QuietAnswer, SettledFinalIsQuiet
<1>5. CASE AnswerFinalize
  <2>1. /\ call = "finalize" /\ call' = "finalize" /\ stage' = "answered"
        /\ UNCHANGED <<session, unsettled, finals, strays, run, busy>>
    BY <1>5 DEF AnswerFinalize, Reply, client
  <2>2. answer'.quiet = ~busy /\ answer'.run = run
    BY <1>5 DEF AnswerFinalize, Reply, NoAnswer
  <2>3. session # 0 BY <1>0, <2>1 DEF InProgress
  <2>4. AtRest' BY <2>1 DEF Quiet, AtRest, Own
  <2>5. QuietAnswer'
    <3>1. SUFFICES ASSUME run = session, session \notin strays, ~unsettled PROVE answer'.quiet
      BY <2>1, <2>2 DEF QuietAnswer
    <3>2. ~busy BY <2>1, <2>3, <3>1 DEF Quiet, AtRest, Own
    <3> QED BY <2>2, <3>2, Zenon
  <2> QED BY <2>1, <2>4, <2>5 DEF Quiet, SettledFinalIsQuiet
<1>6. CASE Refuse
  <2>1. /\ stage = "sent" /\ call' = "none" /\ stage' = "idle"
        /\ UNCHANGED <<session, unsettled, finals, strays, run, busy>>
    BY <1>6 DEF Refuse, Done, client, server
  <2> QED BY <2>1 DEF Quiet, AtRest, Own, QuietAnswer, SettledFinalIsQuiet
<1>7. CASE OtherClientResets \/ ServeLate("reset")
  BY <1>7, NewRunRests
<1>8. CASE ServeLate("skill")
  <2>1. /\ run' \in strays' /\ strays \subseteq strays'
        /\ UNCHANGED <<call, stage, answer, session, unsettled, finals, run>>
    BY <1>8 DEF ServeLate, client
  <2> QED BY <2>1 DEF Quiet, AtRest, QuietAnswer, SettledFinalIsQuiet
<1>9. CASE ServeLate("finalize")
  <2>1. UNCHANGED <<call, stage, answer, session, unsettled, finals, run, busy, strays>>
    BY <1>9 DEF ServeLate, client
  <2> QED BY <2>1 DEF Quiet, AtRest, Own, QuietAnswer, SettledFinalIsQuiet
<1> QED BY <1>1, <1>2, <1>3, <1>4, <1>5, <1>6, <1>7, <1>8, <1>9 DEF Server, Kinds

LEMMA OperationsRest ==
  ASSUME IInv, Quiet, Operations
  PROVE  Quiet'
<1>1. CASE TransportFails
  <2>1. /\ stage' = "idle" /\ call' = "none" /\ unsettled' = (unsettled \/ call = "skill")
        /\ UNCHANGED <<session, finals, strays, run, busy>>
    BY <1>1 DEF TransportFails, Done, server
  <2>2. ~unsettled' => ~unsettled /\ call # "skill" BY <2>1, Zenon
  <2> QED BY <2>1, <2>2 DEF Quiet, AtRest, Own, QuietAnswer, SettledFinalIsQuiet
<1>2. CASE Reset \/ ExecuteSkill \/ Finalize
  <2>1. /\ stage = "idle" /\ stage' = "sent"
        /\ UNCHANGED <<session, unsettled, finals, strays, run, busy>>
    BY <1>2 DEF Reset, ExecuteSkill, Finalize, Send, server, client
  <2>2. call = "none" BY <2>1 DEF IInv, TypeOK
  <2> QED BY <2>1, <2>2 DEF Quiet, AtRest, Own, QuietAnswer, SettledFinalIsQuiet
<1> QED BY <1>1, <1>2 DEF Operations

LEMMA ReturnsRest ==
  ASSUME IInv, Quiet, Returns
  PROVE  Quiet'
<1>0. TypeOK /\ Started /\ InProgress BY DEF IInv
<1>1. /\ stage = "answered" /\ call' = "none" /\ stage' = "idle"
      /\ UNCHANGED <<run, busy, strays>>
  BY <1>0, ReceiveEffect
  DEF Returns, ResetReturns, ResetRejected, SkillIncomplete, SkillRejected, SkillReturns,
      FinalizeReturns, FinalizeRejected
<1>2. QuietAnswer' BY <1>1 DEF QuietAnswer
<1>3. CASE ResetReturns
  <2>1. call = "reset" /\ session' = answer.run /\ finals' = finals
    BY <1>3 DEF ResetReturns, Receive
  <2> QED BY <1>1, <1>2, <2>1 DEF Quiet, AtRest, Own, SettledFinalIsQuiet
<1>4. CASE ResetRejected \/ FinalizeRejected
  <2>1. call \in {"reset", "finalize"} /\ UNCHANGED <<session, unsettled, finals>>
    BY <1>4 DEF ResetRejected, FinalizeRejected, Receive, client
  <2> QED BY <1>1, <1>2, <2>1 DEF Quiet, AtRest, Own, SettledFinalIsQuiet
<1>5. CASE SkillIncomplete \/ SkillRejected
  <2>1. unsettled' /\ finals' = finals
    BY <1>5 DEF SkillIncomplete, SkillRejected
  <2> QED BY <1>1, <1>2, <2>1 DEF Quiet, AtRest, Own, SettledFinalIsQuiet
<1>6. CASE SkillReturns
  <2>1. /\ call = "skill" /\ answer.run = session /\ answer.quiet
        /\ UNCHANGED <<session, unsettled, finals>>
    BY <1>6 DEF SkillReturns, Receive, Proves, client
  <2> QED BY <1>1, <1>2, <2>1 DEF Quiet, AtRest, Own, SettledFinalIsQuiet
<1>7. CASE FinalizeReturns
  <2> DEFINE f == [run |-> session, of |-> answer.run, quiet |-> answer.quiet,
                   settled |-> ~unsettled]
             F == [run: 1..MaxRuns, of: 1..MaxRuns, quiet: BOOLEAN, settled: BOOLEAN]
  <2>1. /\ call = "finalize" /\ answer.run = session /\ finals' = Append(finals, f)
        /\ session' = 0
    BY <1>7 DEF FinalizeReturns, Receive, Matches
  <2>2. finals \in Seq(F) BY <1>0 DEF TypeOK
  <2>3. f.settled /\ f.of \notin strays => f.quiet
    <3>1. f.settled = ~unsettled /\ f.of = session /\ f.quiet = answer.quiet BY <2>1
    <3>2. session \notin strays /\ ~unsettled => answer.quiet
      BY <1>1, <2>1 DEF Quiet, QuietAnswer
    <3> QED BY <3>1, <3>2, Zenon
  <2>4. /\ DOMAIN finals' = 1..(Len(finals) + 1) /\ DOMAIN finals = 1..Len(finals)
        /\ \A i \in 1..Len(finals) : finals'[i] = finals[i]
        /\ finals'[Len(finals) + 1] = f /\ Len(finals) \in Nat
    <3> HIDE DEF f, F
    <3> QED BY <2>1, <2>2
  <2>5. SettledFinalIsQuiet'
    <3> HIDE DEF f
    <3>1. ASSUME NEW i \in DOMAIN finals', finals'[i].settled, finals'[i].of \notin strays
          PROVE  finals'[i].quiet
      BY <2>3, <2>4, <3>1 DEF Quiet, SettledFinalIsQuiet
    <3> QED BY <1>1, <3>1 DEF SettledFinalIsQuiet
  <2>6. AtRest' BY <1>1, <2>1 DEF AtRest, Own
  <2> QED BY <1>2, <2>5, <2>6 DEF Quiet
<1> QED BY <1>3, <1>4, <1>5, <1>6, <1>7 DEF Returns

(* A session whose every skill was proved to have ended gets the final     *)
(* record of a robot at rest, whatever exchanges were lost and whoever     *)
(* reset the server, unless a skill given up earlier was served in its run *)
(* (execute_skill, finalize).                                              *)
THEOREM SettledIsQuiet == SessionSpec => []SettledFinalIsQuiet
<1>1. SessionInit => Quiet BY DEF SessionInit, Quiet, AtRest, Own, QuietAnswer, SettledFinalIsQuiet
<1>2. IInv /\ Quiet /\ [SessionNext]_sessionVars => Quiet'
  <2> SUFFICES ASSUME IInv, Quiet, [SessionNext]_sessionVars PROVE Quiet'
    OBVIOUS
  <2>1. CASE UNCHANGED sessionVars
    BY <2>1 DEF sessionVars, client, server, exchange, Quiet, AtRest, Own, QuietAnswer,
       SettledFinalIsQuiet
  <2> QED BY <2>1, OperationsRest, ReturnsRest, ServerRests DEF SessionNext
<1>3. Quiet => SettledFinalIsQuiet BY DEF Quiet
<1> QED BY <1>1, <1>2, <1>3, Inductive, PTL DEF SessionSpec

-----------------------------------------------------------------------------
(* PolicyBuild.  What the provers need about a run in progress: it came    *)
(* into an empty directory, and the seeds that have a manifest are those   *)
(* selected and not to do.                                                 *)

(* The files are tables over the directories, and over the seeds.          *)
Tables ==
  /\ snapshot = [d \in Dirs |-> snapshot[d]] /\ selected = [d \in Dirs |-> selected[d]]
  /\ results = [d \in Dirs |-> results[d]] /\ report = [d \in Dirs |-> report[d]]
  /\ manifests = [d \in Dirs |-> manifests[d]]
  /\ \A d \in Dirs : manifests[d] = [s \in Seeds |-> manifests[d][s]]

Places == {"none", "scan", "digest", "before", "call", "after", "manifest"}

BuildTypeOK ==
  /\ command \in [name : {"none", "m1", "seeds"}, at : Places, dir : Dirs]
  /\ todo \in Seq(Seeds) /\ used \subseteq Dirs
  /\ Tables

Distinct(s) == \A i, j \in 1..Len(s) : s[i] = s[j] => i = j
Written(d) == { s \in Seeds : manifests[d][s].there }

(* Nothing is in a directory that was never used.                          *)
Fresh(d) == d \notin used => Written(d) = {} /\ ~report[d].there

(* A protocol that has not frozen its policy has an empty directory.       *)
Claimed ==
  command.name = "seeds" /\ command.at \in {"scan", "digest"} =>
    command.dir \notin used /\ Distinct(todo)

(* One that has is alone in it.                                            *)
Running ==
  command.name = "seeds" /\ command.at \in {"before", "call", "after", "manifest"} =>
    /\ snapshot[command.dir] = frozen /\ ~report[command.dir].there
    /\ command.dir \in used /\ Distinct(todo) /\ Range(todo) \subseteq selected[command.dir]
    /\ Written(command.dir) = selected[command.dir] \ Range(todo)
    /\ command.at # "before" => todo # <<>>

Inv == BuildTypeOK /\ Claimed /\ Running /\ \A d \in Dirs : Fresh(d) /\ ManifestsAgree(d) /\ ReportIsWhole(d)

-----------------------------------------------------------------------------
(* The seeds chosen by run_seed_protocol are seeds, each once.             *)
LEMMA ChosenSeeds ==
  ASSUME NEW count \in {InitialCount, Len(HeldOut)}
  PROVE  LET chosen == Development \o SubSeq(HeldOut, 1, count)
         IN chosen \in Seq(Seeds) /\ Distinct(chosen)
<1> DEFINE part == SubSeq(HeldOut, 1, count)
           all == Development \o HeldOut
           chosen == Development \o part
<1>1. /\ Development \in Seq(Seeds) /\ HeldOut \in Seq(Seeds)
      /\ count \in 1..Len(HeldOut)
  BY ProtocolAssumption DEF Seeds, Range
<1>2. /\ part \in Seq(Seeds) /\ Len(part) = count
      /\ \A i \in 1..count : part[i] = HeldOut[i]
  BY <1>1
<1>3. chosen \in Seq(Seeds) /\ Len(chosen) = Len(Development) + count
  BY <1>1, <1>2
<1>4. all \in Seq(Seeds) /\ Len(all) = Len(Development) + Len(HeldOut)
  BY <1>1
<1>5. ASSUME NEW i \in 1..Len(chosen) PROVE chosen[i] = all[i] /\ i \in 1..Len(all)
  BY <1>1, <1>2, <1>3, <1>4
<1>6. \A i, j \in 1..Len(all) : all[i] = all[j] => i = j
  BY <1>4, ProtocolAssumption DEF IsInjective
<1>7. Distinct(chosen)
  BY <1>5, <1>6 DEF Distinct
<1> QED BY <1>3, <1>7

(* Taking the first seed off a list of distinct ones.                      *)
LEMMA TakeFirst ==
  ASSUME NEW list \in Seq(Seeds), list # <<>>, Distinct(list)
  PROVE  /\ Tail(list) \in Seq(Seeds) /\ Distinct(Tail(list)) /\ Head(list) \in Seeds
         /\ Range(list) = Range(Tail(list)) \cup {Head(list)}
         /\ Head(list) \notin Range(Tail(list))
<1>1. /\ Len(list) \in Nat \ {0} /\ DOMAIN list = 1..Len(list)
      /\ Tail(list) \in Seq(Seeds) /\ Len(Tail(list)) = Len(list) - 1
      /\ DOMAIN Tail(list) = 1..(Len(list) - 1)
      /\ Head(list) = list[1] /\ Head(list) \in Seeds
      /\ \A i \in 1..(Len(list) - 1) : Tail(list)[i] = list[i + 1]
  OBVIOUS
<1>2. Distinct(Tail(list))
  BY <1>1 DEF Distinct
<1>3. Head(list) \notin Range(Tail(list))
  BY <1>1 DEF Distinct, Range
<1>4. Range(Tail(list)) \cup {Head(list)} \subseteq Range(list)
  BY <1>1 DEF Range
<1>5. ASSUME NEW i \in DOMAIN list PROVE list[i] \in Range(Tail(list)) \cup {Head(list)}
  <2>1. CASE i = 1 BY <2>1, <1>1
  <2>2. CASE i # 1
    <3>1. i - 1 \in 1..(Len(list) - 1) /\ Tail(list)[i - 1] = list[i]
      BY <2>2, <1>1
    <3> QED BY <3>1, <1>1 DEF Range
  <2> QED BY <2>1, <2>2
<1> QED BY <1>1, <1>2, <1>3, <1>4, <1>5 DEF Range

LEMMA BuildInitInv == Init => Inv
<1> SUFFICES ASSUME Init PROVE Inv
  OBVIOUS
<1>1. command = Idle /\ Idle.dir \in Dirs /\ command.name = "none"
  BY ProtocolAssumption DEF Init, Idle
<1>2. command \in [name : {"none", "m1", "seeds"}, at : Places, dir : Dirs]
  BY <1>1, ProtocolAssumption DEF Idle, Places
<1>3. Tables
  BY DEF Init, Tables
<1>4. BuildTypeOK
  BY <1>2, <1>3 DEF Init, BuildTypeOK
<1>5. ASSUME NEW d \in Dirs PROVE Fresh(d) /\ ManifestsAgree(d) /\ ReportIsWhole(d)
  <2>1. manifests[d] = [s \in Seeds |-> NoManifest] /\ report[d] = NoReport
    BY DEF Init
  <2>2. ~NoManifest.there /\ ~NoReport.there
    BY DEF NoManifest, NoReport
  <2> QED BY <2>1, <2>2 DEF Fresh, ManifestsAgree, ReportIsWhole, Written
<1> QED BY <1>1, <1>4, <1>5 DEF Inv, Claimed, Running

(* A step that leaves the directories alone leaves them sound.             *)
LEMMA DirsKeep ==
  ASSUME UNCHANGED dirs, NEW d \in Dirs, Fresh(d), ManifestsAgree(d), ReportIsWhole(d)
  PROVE  Fresh(d)' /\ ManifestsAgree(d)' /\ ReportIsWhole(d)' /\ Written(d)' = Written(d)
<1>1. Fresh(d)' /\ ManifestsAgree(d)' /\ Written(d)' = Written(d)
  BY DEF dirs, Fresh, ManifestsAgree, Written
<1>2. Summary(d)' = Summary(d)
  BY DEF dirs, Summary, SplitSummary
<1> QED BY <1>1, <1>2 DEF dirs, ReportIsWhole

(* A step that leaves the directories alone, and ends the command or takes *)
(* it on from one point of its work to another.                            *)
LEMMA FinishKeeps ==
  ASSUME Inv, Finish, UNCHANGED dirs PROVE Inv'
<1>1. Idle.dir \in Dirs /\ Idle.name = "none" /\ Idle.at = "none"
  BY ProtocolAssumption DEF Idle
<1>2. command' = Idle /\ todo' = <<>> /\ command' \in [name : {"none", "m1", "seeds"}, at : Places, dir : Dirs]
  BY <1>1 DEF Finish, Idle, Places
<1>3. BuildTypeOK'
  BY <1>2 DEF Inv, BuildTypeOK, Tables, dirs
<1>4. ASSUME NEW d \in Dirs PROVE (Fresh(d) /\ ManifestsAgree(d) /\ ReportIsWhole(d))'
  BY DirsKeep DEF Inv
<1> QED BY <1>1, <1>2, <1>3, <1>4 DEF Inv, Claimed, Running

LEMMA MoveKeeps ==
  ASSUME Inv, NEW at \in Places, Moves(at), UNCHANGED <<frozen, todo, dirs>>,
         \/ command.at = "scan" /\ at = "digest"
         \/ command.name = "seeds" /\ command.at \in {"before", "call"} /\ at \in {"call", "after"} /\ todo # <<>>
  PROVE  Inv'
<1>1. command' = [command EXCEPT !.at = at] /\ command' \in [name : {"none", "m1", "seeds"}, at : Places, dir : Dirs]
      /\ command'.name = command.name /\ command'.dir = command.dir /\ command'.at = at
      /\ command.dir \in Dirs
  BY DEF Inv, BuildTypeOK, Moves
<1>2. BuildTypeOK'
  BY <1>1 DEF Inv, BuildTypeOK, Tables, dirs
<1>3. ASSUME NEW d \in Dirs PROVE (Fresh(d) /\ ManifestsAgree(d) /\ ReportIsWhole(d))'
  BY DirsKeep DEF Inv
<1>4. Claimed' /\ Running'
  BY <1>1 DEF Inv, Claimed, Running, dirs, Written
<1> QED BY <1>2, <1>3, <1>4 DEF Inv

(* A step that touches neither the directories nor the command.            *)
LEMMA StillKeeps ==
  ASSUME Inv, UNCHANGED <<command, frozen, todo, dirs>> PROVE Inv'
<1>1. BuildTypeOK'
  BY DEF Inv, BuildTypeOK, Tables, dirs
<1>2. ASSUME NEW d \in Dirs PROVE (Fresh(d) /\ ManifestsAgree(d) /\ ReportIsWhole(d))'
  BY DirsKeep DEF Inv
<1>3. Claimed' /\ Running'
  BY DEF Inv, Claimed, Running, dirs, Written
<1> QED BY <1>1, <1>2, <1>3 DEF Inv

-----------------------------------------------------------------------------
LEMMA FreezeKeeps == Inv /\ Freeze => Inv'
<1> SUFFICES ASSUME Inv, Freeze PROVE Inv'
  OBVIOUS
<1> DEFINE here == command.dir
<1>1. /\ here \in Dirs /\ here \notin used /\ Distinct(todo)
      /\ Written(here) = {} /\ ~report[here].there
  BY DEF Inv, BuildTypeOK, Freeze, Goes, Claimed, Fresh
<1>2. /\ command'.name = "seeds" /\ command'.dir = here /\ command'.at = "before"
      /\ command' \in [name : {"none", "m1", "seeds"}, at : Places, dir : Dirs]
  BY DEF Inv, BuildTypeOK, Freeze, Goes, Moves, Places
<1>3. /\ snapshot' = [d \in Dirs |-> IF d = here THEN policy ELSE snapshot[d]]
      /\ selected' = [d \in Dirs |-> IF d = here THEN Range(todo) ELSE selected[d]]
      /\ UNCHANGED <<results, manifests, report, todo>> /\ frozen' = policy /\ used' = used \cup {here}
  BY DEF Inv, BuildTypeOK, Tables, Freeze
<1>4. BuildTypeOK'
  BY <1>1, <1>2, <1>3 DEF Inv, BuildTypeOK, Tables
<1>5. ASSUME NEW d \in Dirs PROVE (Fresh(d) /\ ManifestsAgree(d) /\ ReportIsWhole(d))'
  <2>1. Written(d)' = Written(d)
    BY <1>3 DEF Written
  <2>2. CASE d = here
    BY <2>1, <2>2, <1>1, <1>3 DEF Fresh, ManifestsAgree, ReportIsWhole, Written
  <2>3. CASE d # here
    <3>1. Summary(d)' = Summary(d)
      BY <2>3, <1>3 DEF Summary, SplitSummary
    <3> QED BY <2>1, <2>3, <3>1, <1>3 DEF Inv, Fresh, ManifestsAgree, ReportIsWhole, Written
  <2> QED BY <2>2, <2>3
<1>6. Running' /\ Claimed'
  <2>1. Written(here)' = {}
    BY <1>1, <1>2, <1>3 DEF Written
  <2> QED BY <2>1, <1>1, <1>2, <1>3 DEF Running, Claimed
<1> QED BY <1>4, <1>5, <1>6 DEF Inv

LEMMA WriteResultKeeps == Inv /\ WriteResult => Inv'
<1> SUFFICES ASSUME Inv, WriteResult PROVE Inv'
  OBVIOUS
<1>1. CASE ~IsFrozen
  BY <1>1, FinishKeeps DEF WriteResult, dirs
<1>2. CASE IsFrozen
  <2> DEFINE here == command.dir
  <2>1. here \in Dirs /\ ~report[here].there
    BY DEF Inv, BuildTypeOK, WriteResult, Goes, Running
  <2>2. /\ command'.name = "seeds" /\ command'.dir = here /\ command'.at = "manifest"
        /\ command' \in [name : {"none", "m1", "seeds"}, at : Places, dir : Dirs]
    BY <1>2 DEF Inv, BuildTypeOK, WriteResult, Goes, Moves, Places
  <2>3. /\ UNCHANGED <<snapshot, selected, manifests, report, todo, frozen, used>>
        /\ results' = [d \in Dirs |-> results'[d]]
        /\ \A d \in Dirs : d # here => results'[d] = results[d]
    BY <1>2 DEF Inv, BuildTypeOK, Tables, WriteResult, inHand
  <2>4. BuildTypeOK'
    BY <2>2, <2>3 DEF Inv, BuildTypeOK, Tables
  <2>5. ASSUME NEW d \in Dirs PROVE (Fresh(d) /\ ManifestsAgree(d) /\ ReportIsWhole(d))'
    <3>1. Fresh(d)' /\ ManifestsAgree(d)' /\ Written(d)' = Written(d)
      BY <2>3 DEF Inv, Fresh, ManifestsAgree, Written
    <3>2. CASE d = here
      BY <3>1, <3>2, <2>1, <2>3 DEF ReportIsWhole
    <3>3. CASE d # here
      <4>1. Summary(d)' = Summary(d)
        BY <3>3, <2>3 DEF Summary, SplitSummary
      <4> QED BY <3>1, <4>1, <2>3 DEF Inv, ReportIsWhole
    <3> QED BY <3>2, <3>3
  <2>6. Running' /\ Claimed'
    BY <2>2, <2>3 DEF Inv, Running, Claimed, Written, WriteResult, Goes
  <2> QED BY <2>4, <2>5, <2>6 DEF Inv
<1> QED BY <1>1, <1>2

LEMMA WriteManifestKeeps == Inv /\ WriteManifest => Inv'
<1> SUFFICES ASSUME Inv, WriteManifest PROVE Inv'
  OBVIOUS
<1> DEFINE here == command.dir
           seed == Head(todo)
<1>1. /\ here \in Dirs /\ here \in used /\ ~report[here].there /\ snapshot[here] = frozen
      /\ todo # <<>> /\ Distinct(todo) /\ Range(todo) \subseteq selected[here]
      /\ Written(here) = selected[here] \ Range(todo) /\ todo \in Seq(Seeds)
  BY DEF Inv, BuildTypeOK, WriteManifest, Goes, Running
<1>2. /\ command'.name = "seeds" /\ command'.dir = here /\ command'.at = "before"
      /\ command' \in [name : {"none", "m1", "seeds"}, at : Places, dir : Dirs]
  BY DEF Inv, BuildTypeOK, WriteManifest, Goes, Moves, Places
<1>3. /\ UNCHANGED <<snapshot, selected, results, report, frozen, used>>
      /\ todo' = Tail(todo)
  BY DEF WriteManifest
<1>4. /\ seed \in Seeds /\ todo' \in Seq(Seeds) /\ Distinct(todo')
      /\ Range(todo) = Range(todo') \cup {seed} /\ seed \notin Range(todo')
  BY <1>1, <1>3, TakeFirst
<1>5. /\ manifests' = [d \in Dirs |-> manifests'[d]]
      /\ \A d \in Dirs : d # here => manifests'[d] = manifests[d]
      /\ \A d \in Dirs : manifests'[d] = [s \in Seeds |-> manifests'[d][s]]
      /\ \A s \in Seeds \ {seed} : manifests'[here][s] = manifests[here][s]
      /\ manifests'[here][seed].there /\ manifests'[here][seed].code = frozen
  BY <1>1, <1>4 DEF Inv, BuildTypeOK, Tables, WriteManifest
<1>6. BuildTypeOK'
  BY <1>2, <1>3, <1>4, <1>5 DEF Inv, BuildTypeOK, Tables
<1>7. Written(here)' = selected[here] \ Range(todo')
  <2>1. Written(here)' = Written(here) \cup {seed}
    BY <1>1, <1>2, <1>4, <1>5 DEF Written
  <2> QED BY <2>1, <1>1, <1>4
<1>8. ASSUME NEW d \in Dirs PROVE (Fresh(d) /\ ManifestsAgree(d) /\ ReportIsWhole(d))'
  <2>1. CASE d = here
    BY <2>1, <1>1, <1>3, <1>5 DEF Inv, Fresh, ManifestsAgree, ReportIsWhole
  <2>2. CASE d # here
    <3>1. Summary(d)' = Summary(d)
      BY <1>3 DEF Summary, SplitSummary
    <3>2. Written(d)' = Written(d)
      BY <2>2, <1>5 DEF Written
    <3> QED BY <2>2, <3>1, <3>2, <1>3, <1>5 DEF Inv, Fresh, ManifestsAgree, ReportIsWhole, Written
  <2> QED BY <2>1, <2>2
<1>9. Running' /\ Claimed'
  BY <1>1, <1>2, <1>3, <1>4, <1>7 DEF Running, Claimed
<1> QED BY <1>6, <1>8, <1>9 DEF Inv

LEMMA WriteReportKeeps == Inv /\ WriteReport => Inv'
<1> SUFFICES ASSUME Inv, WriteReport PROVE Inv'
  OBVIOUS
<1> DEFINE here == command.dir
           written == [there |-> TRUE, code |-> frozen, counts |-> Summary(here)]
<1>1. /\ here \in Dirs /\ here \in used /\ snapshot[here] = frozen
      /\ Written(here) = selected[here] \ Range(todo)
  BY DEF Inv, BuildTypeOK, WriteReport, Goes, Running
<1>2. Range(todo) = {}
  BY DEF WriteReport, Range
<1>3. /\ Idle.dir \in Dirs /\ Idle.name = "none" /\ Idle.at = "none"
      /\ command' = Idle /\ todo' = <<>>
      /\ command' \in [name : {"none", "m1", "seeds"}, at : Places, dir : Dirs]
  BY ProtocolAssumption DEF Idle, WriteReport, Finish, Places
<1>4. /\ UNCHANGED <<snapshot, selected, results, manifests, used>>
      /\ report' = [d \in Dirs |-> IF d = here THEN written ELSE report[d]]
  BY DEF Inv, BuildTypeOK, Tables, WriteReport
<1>5. BuildTypeOK'
  BY <1>3, <1>4 DEF Inv, BuildTypeOK, Tables
<1>6. ASSUME NEW d \in Dirs PROVE (Fresh(d) /\ ManifestsAgree(d) /\ ReportIsWhole(d))'
  <2>1. Summary(d)' = Summary(d)
    BY <1>4 DEF Summary, SplitSummary
  <2>2. Written(d)' = Written(d) /\ ManifestsAgree(d)'
    BY <1>4 DEF Inv, Written, ManifestsAgree
  <2>3. CASE d = here
    <3>1. report'[d] = written /\ Written(d) = selected[d]
      BY <2>3, <1>1, <1>2, <1>4
    <3> QED BY <2>1, <2>2, <2>3, <3>1, <1>1, <1>4 DEF Fresh, ReportIsWhole, Written
  <2>4. CASE d # here
    BY <2>1, <2>2, <2>4, <1>4 DEF Inv, Fresh, ReportIsWhole, Written
  <2> QED BY <2>3, <2>4
<1> QED BY <1>3, <1>5, <1>6 DEF Inv, Claimed, Running

LEMMA StartKeeps ==
  ASSUME Inv, NEW dir \in Dirs, NEW count \in {InitialCount, Len(HeldOut)}, StartSeeds(dir, count)
  PROVE  Inv'
<1>1. CASE ~MayUse(dir)
  BY <1>1, StillKeeps DEF StartSeeds
<1>2. CASE MayUse(dir)
  <2>1. /\ command' = [name |-> "seeds", at |-> "scan", dir |-> dir] /\ dir \notin used
        /\ UNCHANGED dirs /\ todo' = Development \o SubSeq(HeldOut, 1, count)
    BY <1>2 DEF StartSeeds, MayUse
  <2>2. todo' \in Seq(Seeds) /\ Distinct(todo')
    BY <2>1, ChosenSeeds
  <2>3. BuildTypeOK'
    BY <2>1, <2>2 DEF Inv, BuildTypeOK, Tables, dirs, Places
  <2>4. ASSUME NEW d \in Dirs PROVE (Fresh(d) /\ ManifestsAgree(d) /\ ReportIsWhole(d))'
    BY <2>1, DirsKeep DEF Inv
  <2>5. Claimed' /\ Running'
    BY <2>1, <2>2 DEF Claimed, Running, dirs
  <2> QED BY <2>3, <2>4, <2>5 DEF Inv
<1> QED BY <1>1, <1>2

LEMMA NextInv == Inv /\ [Next]_vars => Inv'
<1> SUFFICES ASSUME Inv, [Next]_vars PROVE Inv'
  OBVIOUS
<1>1. CASE Extract
  BY <1>1, StillKeeps DEF Extract, inHand
<1>2. ASSUME NEW index \in 0..2, CompileCycle(index) PROVE Inv'
  <2>1. CASE UNCHANGED command
    BY <1>2, <2>1, StillKeeps DEF CompileCycle
  <2>2. CASE ~UNCHANGED command
    <3>1. command' = [Idle EXCEPT !.name = "m1", !.at = "scan"] /\ UNCHANGED <<todo, frozen, dirs>>
      BY <1>2, <2>2 DEF CompileCycle
    <3>2. command'.name = "m1" /\ command' \in [name : {"none", "m1", "seeds"}, at : Places, dir : Dirs]
      BY <3>1, ProtocolAssumption DEF Idle, Places
    <3>3. BuildTypeOK'
      BY <3>1, <3>2 DEF Inv, BuildTypeOK, Tables, dirs
    <3>4. ASSUME NEW d \in Dirs PROVE (Fresh(d) /\ ManifestsAgree(d) /\ ReportIsWhole(d))'
      BY <3>1, DirsKeep DEF Inv
    <3> QED BY <3>2, <3>3, <3>4 DEF Inv, Claimed, Running
  <2> QED BY <2>1, <2>2
<1>3. CASE Scan
  <2>1. CASE Findings(policy) = {}
    BY <1>3, <2>1, MoveKeeps DEF Scan, inHand, Places
  <2>2. CASE Findings(policy) # {}
    BY <1>3, <2>2, FinishKeeps DEF Scan
  <2> QED BY <2>1, <2>2
<1>4. CASE BindFrozen
  BY <1>4, FinishKeeps DEF BindFrozen
<1>5. ASSUME NEW dir \in Dirs, NEW count \in {InitialCount, Len(HeldOut)}, StartSeeds(dir, count) PROVE Inv'
  BY <1>5, StartKeeps
<1>6. CASE Freeze
  BY <1>6, FreezeKeeps
<1>7. CASE BeforeSeed
  <2>1. CASE IsFrozen
    BY <1>7, <2>1, MoveKeeps DEF BeforeSeed, Goes, inHand, Places
  <2>2. CASE ~IsFrozen
    BY <1>7, <2>2, FinishKeeps DEF BeforeSeed
  <2> QED BY <2>1, <2>2
<1>8. CASE CallBackend
  <2>1. todo # <<>>
    BY <1>8 DEF CallBackend, Goes, Inv, Running
  <2> QED BY <1>8, <2>1, MoveKeeps DEF CallBackend, Goes, Places
<1>9. CASE WriteResult
  BY <1>9, WriteResultKeeps
<1>10. CASE WriteManifest
  BY <1>10, WriteManifestKeeps
<1>11. CASE WriteReport
  BY <1>11, WriteReportKeeps
<1>12. CASE GiveUp
  BY <1>12, FinishKeeps DEF GiveUp
<1>13. CASE EditPolicy \/ EditGraph
  BY <1>13, StillKeeps DEF EditPolicy, EditGraph, Beside, inHand
<1>14. CASE UNCHANGED vars
  BY <1>14, StillKeeps DEF vars, inHand
<1> QED
  BY <1>1, <1>2, <1>3, <1>4, <1>5, <1>6, <1>7, <1>8, <1>9, <1>10, <1>11, <1>12, <1>13, <1>14 DEF Next

(* Whatever is interrupted, begun again or edited while a protocol runs,   *)
(* a directory it has written into names one code, and a report that is    *)
(* there counts one result for every seed selected.                        *)
THEOREM OneCode == Spec => []OneCodePerDirectory
<1>1. Inv => OneCodePerDirectory
  BY DEF Inv, OneCodePerDirectory
<1> QED BY BuildInitInv, NextInv, <1>1, PTL DEF Spec

-----------------------------------------------------------------------------
(* The loop over the segments.                                             *)

(* After n segments: every insertion so far has its cycle, in which it is  *)
(* paired with the segment gr, or with itself.                             *)
Cycle(segments, i, g) == [grasp |-> segments[g], insert |-> segments[i]]
NoInsertion(segments, from, to) == \A j \in from..to : ~Inserts(segments[j])
PairedBy(cycles, segments, n, ins, gr) ==
  /\ Len(cycles) \in Nat /\ DOMAIN cycles = 1..Len(cycles)
  /\ DOMAIN ins = 1..Len(cycles)
  /\ \A k \in 1..Len(cycles) :
       /\ ins[k] \in 1..n /\ gr[k] \in 1..ins[k] /\ Inserts(segments[ins[k]])
       /\ cycles[k] = Cycle(segments, ins[k], gr[k])
       /\ NoInsertion(segments, gr[k], ins[k] - 1)
  /\ \A i \in 1..n : Inserts(segments[i]) => \E k \in 1..Len(cycles) : ins[k] = i
  /\ \A k, l \in 1..Len(cycles) : ins[k] = ins[l] => k = l
Pending(pending, segments, n) ==
  pending = <<>> \/ \E g \in 1..n : pending = <<segments[g]>> /\ NoInsertion(segments, g, n)
Looped(state, segments, n) ==
  /\ \E ins, gr : PairedBy(state.cycles, segments, n, ins, gr)
  /\ Pending(state.pending, segments, n)

(* What the loop holds at any time: cycles, and at most a pending grasp.   *)
States(segments) ==
  LET of == Range(segments) IN [cycles : Seq([grasp : of, insert : of]), pending : Seq(of)]

LEMMA AfterIsState ==
  ASSUME NEW segments, NEW state \in States(segments), NEW segment \in Range(segments)
  PROVE  AfterSegment(state, segment) \in States(segments)
<1> DEFINE pending == IF Grasps(segment) THEN <<segment>> ELSE state.pending
           grasp == IF pending = <<>> THEN segment ELSE Head(pending)
           cycle == [grasp |-> grasp, insert |-> segment]
           of == Range(segments)
<1>1. pending \in Seq(of)
  BY DEF States
<1>2. grasp \in of
  BY <1>1
<1>3. Append(state.cycles, cycle) \in Seq([grasp : of, insert : of])
  BY <1>2 DEF States
<1> HIDE DEF pending, grasp, cycle
<1>4. AfterSegment(state, segment) =
        IF Inserts(segment) THEN [cycles |-> Append(state.cycles, cycle), pending |-> <<>>]
        ELSE [state EXCEPT !.pending = pending]
  BY DEF AfterSegment, cycle, pending, grasp
<1>5. <<>> \in Seq(of)
  OBVIOUS
<1>6. CASE Inserts(segment)
  BY <1>3, <1>4, <1>5, <1>6 DEF States
<1>7. CASE ~Inserts(segment)
  BY <1>1, <1>4, <1>7 DEF States
<1> QED
  BY <1>6, <1>7

(* One more segment keeps what is held paired.                             *)
LEMMA PairsStep ==
  ASSUME NEW segments, NEW n \in Nat, NEW state \in States(segments), Looped(state, segments, n),
         NEW segment, segment = segments[n + 1]
  PROVE  Looped(AfterSegment(state, segment), segments, n + 1)
<1> DEFINE cycles == state.cycles
           K == Len(cycles)
           pending == IF Grasps(segment) THEN <<segment>> ELSE state.pending
           grasp == IF pending = <<>> THEN segment ELSE Head(pending)
           cycle == [grasp |-> grasp, insert |-> segment]
           next == AfterSegment(state, segment)
<1>1. PICK ins, gr : PairedBy(cycles, segments, n, ins, gr)
  BY DEF Looped
<1>2. K \in Nat /\ DOMAIN cycles = 1..K
  BY <1>1 DEF PairedBy
<1>3. next = IF Inserts(segment) THEN [cycles |-> Append(cycles, cycle), pending |-> <<>>]
             ELSE [state EXCEPT !.pending = pending]
  BY DEF AfterSegment
<1>4. PICK g \in 1..(n + 1) : grasp = segments[g] /\ NoInsertion(segments, g, n)
  <2>1. NoInsertion(segments, n + 1, n)
    BY DEF NoInsertion
  <2>2. CASE Grasps(segment) \/ state.pending = <<>>
    <3>1. grasp = segment
      BY <2>2
    <3> QED
      BY <3>1, <2>1
  <2>3. CASE ~Grasps(segment) /\ state.pending # <<>>
    <3>1. PICK g \in 1..n : state.pending = <<segments[g]>> /\ NoInsertion(segments, g, n)
      BY <2>3 DEF Looped, Pending
    <3>2. grasp = segments[g]
      BY <3>1, <2>3
    <3> QED
      BY <3>1, <3>2
  <2> QED
    BY <2>2, <2>3
<1>5. CASE Inserts(segment)
  <2> DEFINE more == [k \in 1..(K + 1) |-> IF k = K + 1 THEN n + 1 ELSE ins[k]]
             held == [k \in 1..(K + 1) |-> IF k = K + 1 THEN g ELSE gr[k]]
             now == next.cycles
  <2>1. now = Append(cycles, cycle) /\ next.pending = <<>>
    BY <1>3, <1>5
  <2>2. /\ Len(now) = K + 1 /\ DOMAIN now = 1..(K + 1) /\ now[K + 1] = cycle
        /\ \A k \in 1..K : now[k] = cycles[k]
    <3>1. cycles \in Seq([grasp : Range(segments), insert : Range(segments)])
      BY DEF States
    <3> HIDE DEF now, cycle, cycles, next
    <3> QED
      BY <3>1, <2>1, <1>2 DEF K
  <2>3. cycle = Cycle(segments, n + 1, g)
    BY <1>4 DEF Cycle
  <2>4. /\ more[K + 1] = n + 1 /\ held[K + 1] = g
        /\ \A k \in 1..K : more[k] = ins[k] /\ held[k] = gr[k]
        /\ DOMAIN more = 1..(K + 1)
    BY <1>2
  <2> HIDE DEF now, cycle, cycles, next, more, held, K, grasp, pending
  <2>5. ASSUME NEW k \in 1..(K + 1)
        PROVE  /\ more[k] \in 1..(n + 1) /\ held[k] \in 1..more[k] /\ Inserts(segments[more[k]])
               /\ now[k] = Cycle(segments, more[k], held[k])
               /\ NoInsertion(segments, held[k], more[k] - 1)
    <3>1. CASE k = K + 1
      BY <3>1, <2>2, <2>3, <2>4, <1>4, <1>5
    <3>2. CASE k # K + 1
      <4>1. k \in 1..K
        BY <3>2, <1>2
      <4>2. /\ ins[k] \in 1..n /\ gr[k] \in 1..ins[k] /\ Inserts(segments[ins[k]])
            /\ cycles[k] = Cycle(segments, ins[k], gr[k]) /\ NoInsertion(segments, gr[k], ins[k] - 1)
        BY <4>1, <1>1 DEF PairedBy, K
      <4> QED
        BY <4>1, <4>2, <2>2, <2>4
    <3> QED
      BY <3>1, <3>2
  <2>6. ASSUME NEW i \in 1..(n + 1), Inserts(segments[i]) PROVE \E k \in 1..(K + 1) : more[k] = i
    <3>1. CASE i = n + 1
      BY <3>1, <2>4, <1>2
    <3>2. CASE i # n + 1
      <4>1. PICK k \in 1..K : ins[k] = i
        BY <3>2, <2>6, <1>1 DEF PairedBy, K
      <4> QED
        BY <4>1, <2>4, <1>2
    <3> QED
      BY <3>1, <3>2
  <2>7. ASSUME NEW k \in 1..(K + 1), NEW l \in 1..(K + 1), more[k] = more[l] PROVE k = l
    <3>1. \A m \in 1..K : more[m] \in 1..n
      BY <1>1, <2>4 DEF PairedBy, K
    <3>2. \A m \in 1..(K + 1) : m = K + 1 \/ m \in 1..K
      BY <1>2
    <3>3. CASE k = K + 1 /\ l = K + 1
      BY <3>3
    <3>4. CASE k = K + 1 /\ l \in 1..K
      BY <3>1, <3>4, <2>4, <2>7
    <3>5. CASE k \in 1..K /\ l = K + 1
      BY <3>1, <3>5, <2>4, <2>7
    <3>6. CASE k \in 1..K /\ l \in 1..K
      BY <3>6, <2>4, <2>7, <1>1 DEF PairedBy, K
    <3> QED
      BY <3>2, <3>3, <3>4, <3>5, <3>6
  <2>8. PairedBy(now, segments, n + 1, more, held)
    BY <2>2, <2>4, <2>5, <2>6, <2>7, <1>2 DEF PairedBy
  <2> QED
    BY <2>1, <2>8 DEF Looped, Pending, now, next
<1>6. CASE ~Inserts(segment)
  <2>1. next.cycles = cycles /\ next.pending = pending
    BY <1>3, <1>6 DEF States
  <2>2. \A i \in 1..(n + 1) : Inserts(segments[i]) => i \in 1..n
    BY <1>6
  <2>3. PairedBy(cycles, segments, n + 1, ins, gr)
    <3> HIDE DEF cycles
    <3>1. \A i \in 1..n : i \in 1..(n + 1)
      OBVIOUS
    <3> QED
      BY <1>1, <2>2, <3>1 DEF PairedBy
  <2>4. Pending(pending, segments, n + 1)
    <3>1. CASE Grasps(segment)
      <4>1. pending = <<segments[n + 1]>> /\ NoInsertion(segments, n + 1, n + 1)
        BY <3>1, <1>6 DEF NoInsertion
      <4>2. n + 1 \in 1..(n + 1)
        OBVIOUS
      <4> QED
        BY <4>1, <4>2 DEF Pending
    <3>2. CASE ~Grasps(segment) /\ state.pending # <<>>
      <4>1. PICK h \in 1..n : state.pending = <<segments[h]>> /\ NoInsertion(segments, h, n)
        BY <3>2 DEF Looped, Pending
      <4>2. NoInsertion(segments, h, n + 1)
        <5>1. \A j \in h..(n + 1) : j \in h..n \/ j = n + 1
          OBVIOUS
        <5> QED
          BY <4>1, <5>1, <1>6 DEF NoInsertion
      <4>3. h \in 1..(n + 1) /\ pending = <<segments[h]>>
        BY <4>1, <3>2
      <4> QED
        BY <4>2, <4>3 DEF Pending
    <3>3. CASE ~Grasps(segment) /\ state.pending = <<>>
      BY <3>3 DEF Pending
    <3> QED
      BY <3>1, <3>2, <3>3
  <2> QED
    BY <2>1, <2>3, <2>4 DEF Looped
<1> QED
  BY <1>5, <1>6

(* Every insertion of a list of segments has its cycle.                    *)
LEMMA CyclesArePaired ==
  ASSUME NEW segments, Len(segments) \in Nat, DOMAIN segments = 1..Len(segments)
  PROVE  \E ins, gr : PairedBy(OperationCycles(segments), segments, Len(segments), ins, gr)
<1> DEFINE N == Len(segments)
           X == States(segments)
           start == [cycles |-> <<>>, pending |-> <<>>]
           g == [n \in 1..N |-> [state \in X |-> AfterSegment(state, segments[n])]]
           Is(f) == f = [n \in 0..N |-> IF n = 0 THEN start ELSE AfterSegment(f[n - 1], segments[n])]
           after == CHOOSE f : Is(f)
<1>1. start \in X
  BY DEF States
<1>2. g \in [1..N -> [X -> X]]
  <2>1. \A n \in 1..N : segments[n] \in Range(segments)
    BY DEF Range
  <2>2. \A n \in 1..N : \A state \in X : AfterSegment(state, segments[n]) \in X
    BY <2>1, AfterIsState
  <2> QED
    BY <2>2
<1>3. PICK f : f \in [0..N -> X] /\ f[0] = start /\ \A n \in 1..N : f[n] = g[n][f[n - 1]]
  <2>1. N \in Nat
    OBVIOUS
  <2> HIDE DEF g, X, start, N
  <2>2. \E f : RunIs(f, X, start, N, g)
    BY <2>1, <1>1, <1>2, RunsExist
  <2> QED
    BY <2>2 DEF RunIs
<1>4. Is(f)
  <2>1. ASSUME NEW n \in 0..N PROVE f[n] = IF n = 0 THEN start ELSE AfterSegment(f[n - 1], segments[n])
    <3>1. CASE n = 0
      BY <3>1, <1>3
    <3>2. CASE n # 0
      <4>1. n \in 1..N /\ n - 1 \in 0..N
        BY <3>2
      <4>2. f[n - 1] \in X
        BY <4>1, <1>3
      <4>3. g[n][f[n - 1]] = AfterSegment(f[n - 1], segments[n])
        <5> HIDE DEF X
        <5> QED
          BY <4>1, <4>2
      <4> QED
        BY <4>1, <4>3, <3>2, <1>3
    <3> QED
      BY <3>1, <3>2
  <2> HIDE DEF g, X, start
  <2> QED
    BY <2>1, <1>3
<1>5. Is(after)
  <2> HIDE DEF Is
  <2> QED
    BY <1>4
<1>6. OperationCycles(segments) = after[N].cycles
  BY DEF OperationCycles
<1>7. /\ after[0] = start
      /\ \A n \in 1..N : after[n] = AfterSegment(after[n - 1], segments[n])
  <2> HIDE DEF after, start
  <2>1. \A n \in 1..N : n \in 0..N /\ n # 0
    OBVIOUS
  <2> QED
    BY <1>5, <2>1
<1> HIDE DEF after, start, X, g, Is
<1> DEFINE Good(n) == after[n] \in X /\ Looped(after[n], segments, n)
           Bad == { n \in 0..N : ~Good(n) }
<1>8. Bad = {}
  <2> SUFFICES ASSUME Bad # {} PROVE FALSE
    OBVIOUS
  <2>1. PICK m \in Bad : \A k \in Bad : m <= k
    <3>1. Bad \in SUBSET Nat
      OBVIOUS
    <3> HIDE DEF Bad
    <3> QED
      BY <3>1, Least, Zenon
  <2>2. m \in 0..N /\ ~Good(m)
    OBVIOUS
  <2>3. m # 0
    <3> DEFINE none == <<>>
    <3>1. PairedBy(<<>>, segments, 0, none, none)
      BY DEF PairedBy
    <3>2. Looped(start, segments, 0)
      BY <3>1 DEF Looped, Pending, start
    <3> QED
      BY <1>1, <1>7, <2>2, <3>2
  <2>4. m - 1 \in 0..N /\ m - 1 \notin Bad
    <3>1. m - 1 \in 0..N /\ ~(m <= m - 1)
      BY <2>2, <2>3
    <3> HIDE DEF Bad
    <3> QED
      BY <3>1, <2>1
  <2>5. Good(m - 1)
    BY <2>4
  <2>6. m \in 1..N /\ segments[m] \in Range(segments) /\ after[m] = AfterSegment(after[m - 1], segments[m])
    BY <2>2, <2>3, <1>7 DEF Range
  <2>7. after[m] \in X
    BY <2>5, <2>6, AfterIsState DEF X
  <2>8. Looped(after[m], segments, m)
    <3>1. m - 1 \in Nat /\ (m - 1) + 1 = m
      BY <2>6
    <3>2. Looped(AfterSegment(after[m - 1], segments[m]), segments, (m - 1) + 1)
      BY <3>1, <2>5, PairsStep DEF X
    <3> QED
      BY <3>1, <3>2, <2>6
  <2> QED
    BY <2>2, <2>7, <2>8
<1>9. Good(N)
  BY <1>8
<1> QED
  BY <1>6, <1>9 DEF Looped

-----------------------------------------------------------------------------
(* The nodes of an extracted graph.                                        *)
Place(n, j) == CycleLength * (n - 1) + j

LEMMA PlaceIs ==
  ASSUME NEW K \in Nat
  PROVE  /\ \A n \in 1..K, j \in 1..5 :
              /\ Place(n, j) \in 1..(CycleLength * K)
              /\ ((Place(n, j) - 1) \div CycleLength) + 1 = n /\ ((Place(n, j) - 1) % CycleLength) + 1 = j
         /\ \A m \in 1..(CycleLength * K) : \E n \in 1..K, j \in 1..5 : m = Place(n, j)
<1>1. ASSUME NEW n \in 1..K, NEW j \in 1..5
      PROVE  /\ Place(n, j) \in 1..(CycleLength * K)
             /\ ((Place(n, j) - 1) \div CycleLength) + 1 = n /\ ((Place(n, j) - 1) % CycleLength) + 1 = j
  BY DEF Place, CycleLength
<1>2. ASSUME NEW m \in 1..(CycleLength * K) PROVE \E n \in 1..K, j \in 1..5 : m = Place(n, j)
  <2> DEFINE n == ((m - 1) \div 5) + 1
             j == ((m - 1) % 5) + 1
  <2>1. n \in 1..K /\ j \in 1..5 /\ m = 5 * (n - 1) + j
    BY DEF CycleLength
  <2> HIDE DEF n, j
  <2> QED
    BY <2>1 DEF Place, CycleLength
<1> QED
  BY <1>1, <1>2

(* The five nodes of a cycle: their names, successors, evidence and        *)
(* controllers.                                                            *)
Named(cycles, relations, n) ==
  LET part == CycleNodes(cycles, relations, n) IN
         /\ part[1].id = <<"pick", n>> /\ part[2].id = <<"reorient", n>> /\ part[3].id = <<"align", n>>
         /\ part[4].id = <<"insert", n>> /\ part[5].id = <<"verify", n>>
         /\ part[1].next = <<"reorient", n>> /\ part[2].next = <<"align", n>> /\ part[3].next = <<"insert", n>>
         /\ part[4].next = <<"verify", n>>
         /\ part[5].next = IF n < Len(cycles) THEN <<"pick", n + 1>> ELSE NoNode
         /\ part[1].evidence = cycles[n].grasp.index /\ part[4].evidence = cycles[n].insert.index
         /\ part[1].region = RegionOf(relations, cycles[n].grasp.index)
         /\ part[1].ref = "trusted.pick" /\ part[2].ref = "trusted.reorient" /\ part[3].ref = "trusted.align"
         /\ part[4].ref = "trusted.insert" /\ part[5].ref = "trusted.verify"

LEMMA PartsNamed ==
  ASSUME NEW cycles, NEW relations, NEW n \in Nat
  PROVE  Named(cycles, relations, n)
<1> DEFINE part == CycleNodes(cycles, relations, n)
           after == IF n < Len(cycles) THEN <<"pick", n + 1>> ELSE NoNode
<1>2. part[1] = PickNode(n, cycles[n].grasp, <<"reorient", n>>, RegionOf(relations, cycles[n].grasp.index))
  BY DEF CycleNodes
<1>3. /\ part[2] = ReorientNode(n, cycles[n].insert, <<"align", n>>)
      /\ part[3] = AlignNode(n, cycles[n].insert, <<"insert", n>>)
      /\ part[4] = InsertNode(n, cycles[n].insert, <<"verify", n>>)
      /\ part[5] = VerifyNode(n, cycles[n].insert, after)
  BY DEF CycleNodes
<1> HIDE DEF after, part
<1>4. /\ part[1].id = <<"pick", n>> /\ part[1].next = <<"reorient", n>> /\ part[1].evidence = cycles[n].grasp.index
      /\ part[1].region = RegionOf(relations, cycles[n].grasp.index) /\ part[1].ref = "trusted.pick"
  BY <1>2 DEF PickNode
<1>5. part[2].id = <<"reorient", n>> /\ part[2].next = <<"align", n>> /\ part[2].ref = "trusted.reorient"
  BY <1>3 DEF ReorientNode
<1>6. part[3].id = <<"align", n>> /\ part[3].next = <<"insert", n>> /\ part[3].ref = "trusted.align"
  BY <1>3 DEF AlignNode
<1>7. /\ part[4].id = <<"insert", n>> /\ part[4].next = <<"verify", n>> /\ part[4].ref = "trusted.insert"
      /\ part[4].evidence = cycles[n].insert.index
  BY <1>3 DEF InsertNode
<1>8. part[5].id = <<"verify", n>> /\ part[5].next = after /\ part[5].ref = "trusted.verify"
  BY <1>3 DEF VerifyNode
<1> QED
  BY <1>4, <1>5, <1>6, <1>7, <1>8 DEF after, part, Named

LEMMA NodeAt ==
  ASSUME NEW cycles, Len(cycles) \in Nat, NEW relations, NEW nodes, nodes = GraphNodes(cycles, relations),
         NEW n \in 1..Len(cycles), NEW j \in 1..5
  PROVE  Place(n, j) \in DOMAIN nodes /\ nodes[Place(n, j)] = CycleNodes(cycles, relations, n)[j]
<1>1. /\ Place(n, j) \in 1..(CycleLength * Len(cycles))
      /\ ((Place(n, j) - 1) \div CycleLength) + 1 = n /\ ((Place(n, j) - 1) % CycleLength) + 1 = j
  BY PlaceIs
<1> QED
  BY <1>1 DEF GraphNodes

LEMMA NodesAre ==
  ASSUME NEW cycles, Len(cycles) \in Nat, NEW relations, NEW nodes, nodes = GraphNodes(cycles, relations)
  PROVE  /\ DOMAIN nodes = 1..(CycleLength * Len(cycles)) /\ Len(nodes) = CycleLength * Len(cycles)
         /\ \A node : node \in Range(nodes) <=>
              \E n \in 1..Len(cycles), j \in 1..5 : node = CycleNodes(cycles, relations, n)[j]
<1>1. DOMAIN nodes = 1..(CycleLength * Len(cycles)) /\ CycleLength * Len(cycles) \in Nat
  BY DEF GraphNodes, CycleLength
<1>2. Len(nodes) = CycleLength * Len(cycles)
  BY <1>1 DEF GraphNodes
<1>3. ASSUME NEW node \in Range(nodes)
      PROVE  \E n \in 1..Len(cycles), j \in 1..5 : node = CycleNodes(cycles, relations, n)[j]
  <2>1. PICK m \in 1..(CycleLength * Len(cycles)) : node = nodes[m]
    BY <1>1 DEF Range
  <2>2. PICK n \in 1..Len(cycles), j \in 1..5 : m = Place(n, j)
    BY <2>1, PlaceIs
  <2> QED
    BY <2>1, <2>2, NodeAt
<1>4. ASSUME NEW n \in 1..Len(cycles), NEW j \in 1..5
      PROVE  CycleNodes(cycles, relations, n)[j] \in Range(nodes)
  <2>1. Place(n, j) \in DOMAIN nodes /\ nodes[Place(n, j)] = CycleNodes(cycles, relations, n)[j]
    BY NodeAt
  <2> QED
    BY <2>1 DEF Range
<1> QED
  BY <1>1, <1>2, <1>3, <1>4

-----------------------------------------------------------------------------
(* The places of a list are finitely many numbers.                         *)
LEMMA ListPlacesAreFinite ==
  ASSUME NEW s, Listed(s)
  PROVE  DOMAIN s \in SUBSET Nat /\ IsFiniteSet(DOMAIN s)
BY FS_Interval DEF Listed

(* What is extracted of a demonstration.                                   *)
LEMMA SegmentsNumbered ==
  ASSUME NEW d \in Demonstrations
  PROVE  Numbered(SegmentsUsed(d.bundle, d.refined))
<1> DEFINE places == { i \in DOMAIN d.refined : d.refined[i].task = d.bundle.task }
           matching == MatchingTrace(d.bundle, d.refined)
<1>1. /\ Numbered(d.bundle.segments) /\ Listed(d.refined)
      /\ \A i \in DOMAIN d.refined : Numbered(d.refined[i].segments)
  BY DemonstrationsAssumption
<1>2. CASE matching = <<>>
  BY <1>1, <1>2 DEF SegmentsUsed
<1>3. CASE matching # <<>>
  <2>1. places \in SUBSET Nat /\ IsFiniteSet(places)
    <3>1. DOMAIN d.refined \in SUBSET Nat /\ IsFiniteSet(DOMAIN d.refined)
      BY <1>1, ListPlacesAreFinite
    <3>2. places \in SUBSET (DOMAIN d.refined)
      OBVIOUS
    <3> QED
      BY <3>1, <3>2, SomePlaces
  <2>2. matching = Chosen(d.refined, places)
    BY DEF MatchingTrace
  <2>3. Picked(matching, d.refined, places)
    BY <2>1, <2>2, ChosenPicks
  <2>4. DOMAIN matching = 1..Cardinality(places) /\ Cardinality(places) \in Nat /\ places # {}
    BY <2>1, <2>3, <1>3, PickedLength
  <2>5. 1 \in 1..Cardinality(places)
    BY <2>1, <2>4, FS_EmptySet
  <2>6. PICK i \in places : matching[1] = d.refined[i]
    BY <2>3, <2>5 DEF Picked
  <2>7. Head(matching) = matching[1]
    OBVIOUS
  <2> QED
    BY <2>6, <2>7, <1>1, <1>3 DEF SegmentsUsed
<1> QED
  BY <1>2, <1>3

(* A graph that is written is one of all the cycles there are.             *)
LEMMA ExtractedIs ==
  ASSUME NEW d, NEW g, g = ExtractConstraintGraph(d), g # NoGraph,
         NEW cycles, cycles = OperationCycles(SegmentsUsed(d.bundle, d.refined))
  PROVE  /\ g = [id |-> <<d.bundle.task, 0>>, entry |-> <<"pick", 1>>, nodes |-> GraphNodes(cycles, d.relations)]
         /\ cycles # <<>> /\ GraphIsSound(g)
BY DEF ExtractConstraintGraph

LEMMA RegionIs ==
  ASSUME NEW relations, Listed(relations), NEW index, RegionOf(relations, index) # Unresolved
  PROVE  \E r \in Range(relations) : r.segment = index /\ r.region = RegionOf(relations, index)
<1> DEFINE about == { r \in DOMAIN relations : relations[r].segment = index }
           last == CHOOSE r \in about : \A q \in about : q <= r
<1>1. about # {} /\ RegionOf(relations, index) = relations[last].region
  BY DEF RegionOf
<1>2. Len(relations) \in Nat /\ DOMAIN relations = 1..Len(relations)
  BY DEF Listed
<1>3. \E r \in about : \A q \in about : q <= r
  <2>1. about \in SUBSET (0..Len(relations))
    BY <1>2
  <2> HIDE DEF about
  <2> QED
    BY <1>1, <1>2, <2>1, Greatest
<1>4. last \in about
  <2> HIDE DEF about
  <2> QED
    BY <1>3
<1> QED
  BY <1>1, <1>4 DEF Range

(* Its nodes that pick are the first of their cycle, those that insert the *)
(* fourth.                                                                 *)
Roles(cycles, relations, node) ==
  /\ (node \in Range(GraphNodes(cycles, relations)) /\ ActionOf(node) = "pick") <=>
       \E n \in 1..Len(cycles) : node = CycleNodes(cycles, relations, n)[1]
  /\ (node \in Range(GraphNodes(cycles, relations)) /\ ActionOf(node) = "insert") <=>
       \E n \in 1..Len(cycles) : node = CycleNodes(cycles, relations, n)[4]

LEMMA ActionsAre ==
  ASSUME NEW cycles, Len(cycles) \in Nat, NEW relations, NEW node
  PROVE  Roles(cycles, relations, node)
<1> DEFINE nodes == GraphNodes(cycles, relations)
<1> DEFINE part(n) == CycleNodes(cycles, relations, n)
<1>1. node \in Range(nodes) <=> \E n \in 1..Len(cycles), j \in 1..5 : node = part(n)[j]
  BY NodesAre
<1>2. ASSUME NEW n \in 1..Len(cycles)
      PROVE  /\ ActionOf(part(n)[1]) = "pick" /\ ActionOf(part(n)[2]) = "reorient" /\ ActionOf(part(n)[3]) = "align"
             /\ ActionOf(part(n)[4]) = "insert" /\ ActionOf(part(n)[5]) = "verify"
  <2>1. n \in Nat
    OBVIOUS
  <2>2. /\ part(n)[1].id = <<"pick", n>> /\ part(n)[2].id = <<"reorient", n>> /\ part(n)[3].id = <<"align", n>>
        /\ part(n)[4].id = <<"insert", n>> /\ part(n)[5].id = <<"verify", n>>
    <3>1. Named(cycles, relations, n)
      BY <2>1, PartsNamed
    <3> QED
      BY <3>1 DEF Named
  <2> HIDE DEF part
  <2> QED
    BY <2>2 DEF ActionOf
<1> HIDE DEF part, nodes
<1>3. \A j \in 1..5 : j = 1 \/ j = 2 \/ j = 3 \/ j = 4 \/ j = 5
  OBVIOUS
<1>4. 1 \in 1..5 /\ 4 \in 1..5
  OBVIOUS
<1>5. node \in Range(nodes) /\ ActionOf(node) = "pick" <=> \E n \in 1..Len(cycles) : node = part(n)[1]
  BY <1>1, <1>2, <1>3, <1>4
<1>6. node \in Range(nodes) /\ ActionOf(node) = "insert" <=> \E n \in 1..Len(cycles) : node = part(n)[4]
  BY <1>1, <1>2, <1>3, <1>4
<1> QED
  BY <1>5, <1>6 DEF part, nodes, Roles

LEMMA AtIs ==
  ASSUME Numbered(Segments), NEW i \in DOMAIN Segments, NEW node, node.evidence = Segments[i].index
  PROVE  At(node) = i
BY DEF At, Numbered

(* The cycles of the demonstration in hand.                                *)
LEMMA ExtractionPairs ==
  ASSUME demo \in Demonstrations, NEW g, g = ExtractConstraintGraph(demo), g # NoGraph
  PROVE  /\ Paired(Range(g.nodes))
         /\ Cardinality(Insertions) = Len(OperationCycles(Segments))
<1> DEFINE cycles == OperationCycles(Segments)
           K == Len(cycles)
           part(n) == CycleNodes(cycles, demo.relations, n)
           nodes == g.nodes
           of(action) == { node \in Range(nodes) : ActionOf(node) = action }
<1>1. g.nodes = GraphNodes(cycles, demo.relations)
  BY ExtractedIs DEF Segments
<1>2. Numbered(Segments)
  BY SegmentsNumbered DEF Segments
<1>3. Len(Segments) \in Nat /\ DOMAIN Segments = 1..Len(Segments)
  BY <1>2 DEF Numbered, Listed
<1>4. PICK ins, gr : PairedBy(cycles, Segments, Len(Segments), ins, gr)
  <2> HIDE DEF cycles
  <2>1. \A s : Len(s) \in Nat /\ DOMAIN s = 1..Len(s) =>
           \E ins, gr : PairedBy(OperationCycles(s), s, Len(s), ins, gr)
    BY CyclesArePaired
  <2> QED
    BY <1>3, <2>1 DEF cycles
<1>5. K \in Nat
  BY <1>4 DEF PairedBy
<1>6. ASSUME NEW n \in 1..K
      PROVE  /\ ins[n] \in DOMAIN Segments /\ gr[n] \in DOMAIN Segments /\ gr[n] <= ins[n]
             /\ cycles[n].insert = Segments[ins[n]] /\ cycles[n].grasp = Segments[gr[n]]
             /\ Inserts(Segments[ins[n]]) /\ \A i \in gr[n]..(ins[n] - 1) : ~Inserts(Segments[i])
  <2>1. /\ ins[n] \in 1..Len(Segments) /\ gr[n] \in 1..ins[n] /\ Inserts(Segments[ins[n]])
        /\ cycles[n] = Cycle(Segments, ins[n], gr[n]) /\ NoInsertion(Segments, gr[n], ins[n] - 1)
    BY <1>4 DEF PairedBy
  <2>2. gr[n] \in 1..Len(Segments) /\ gr[n] <= ins[n]
    BY <2>1, <1>3
  <2> HIDE DEF cycles
  <2> QED
    BY <2>1, <2>2, <1>3 DEF Cycle, NoInsertion
<1>7. ASSUME NEW n \in 1..K
      PROVE  /\ part(n)[1].id = <<"pick", n>> /\ part(n)[4].id = <<"insert", n>>
             /\ part(n)[1].evidence = cycles[n].grasp.index /\ part(n)[4].evidence = cycles[n].insert.index
             /\ part(n)[1].region = RegionOf(demo.relations, cycles[n].grasp.index)
  <2>1. n \in Nat
    BY <1>5
  <2>2. Named(cycles, demo.relations, n)
    BY <2>1, PartsNamed
  <2> HIDE DEF cycles
  <2> QED
    BY <2>2 DEF Named
<1>8. /\ \A node : node \in of("pick") <=> \E n \in 1..K : node = part(n)[1]
      /\ \A node : node \in of("insert") <=> \E n \in 1..K : node = part(n)[4]
  <2>1. ASSUME NEW node PROVE Roles(cycles, demo.relations, node)
    <3> HIDE DEF cycles
    <3> QED
      BY <1>5, ActionsAre
  <2>2. ASSUME NEW node PROVE node \in of("pick") <=> \E n \in 1..K : node = part(n)[1]
    <3> HIDE DEF cycles
    <3> QED
      BY <2>1, <1>1 DEF Roles
  <2>3. ASSUME NEW node PROVE node \in of("insert") <=> \E n \in 1..K : node = part(n)[4]
    <3> HIDE DEF cycles
    <3> QED
      BY <2>1, <1>1 DEF Roles
  <2> HIDE DEF of, part, K
  <2> QED
    BY <2>2, <2>3
<1> HIDE DEF cycles, part, nodes, of, K
<1>9. \A n \in 1..K : At(part(n)[4]) = ins[n] /\ At(part(n)[1]) = gr[n]
  BY <1>2, <1>6, <1>7, AtIs
<1>10. \A i : i \in Insertions <=> \E n \in 1..K : i = ins[n]
  <2>1. \A i \in 1..Len(Segments) : Inserts(Segments[i]) => \E k \in 1..K : ins[k] = i
    BY <1>4 DEF PairedBy, K
  <2> QED
    BY <2>1, <1>3, <1>6 DEF Insertions
<1>11. { At(node) : node \in of("insert") } = Insertions
  BY <1>8, <1>9, <1>10
<1>12. \A k, l \in 1..K : ins[k] = ins[l] => k = l
  BY <1>4 DEF PairedBy, K
<1>13. Cardinality(Insertions) = K
  <2> DEFINE f == [k \in 1..K |-> ins[k]]
  <2>1. \A k, l \in 1..K : f[k] = f[l] => k = l
    BY <1>12
  <2>2. \A i : i \in Insertions <=> \E k \in 1..K : i = f[k]
    BY <1>10
  <2> HIDE DEF f
  <2> QED
    BY <2>1, <2>2, <1>5, NumberedSet
<1>14. Cardinality(of("insert")) = K
  <2> DEFINE f == [k \in 1..K |-> part(k)[4]]
  <2>1. \A k, l \in 1..K : part(k)[4] = part(l)[4] => k = l
    <3> SUFFICES ASSUME NEW k \in 1..K, NEW l \in 1..K, part(k)[4] = part(l)[4] PROVE k = l
      OBVIOUS
    <3>1. <<"insert", k>> = <<"insert", l>>
      BY <1>7
    <3> QED
      BY <3>1
  <2>2. \A k, l \in 1..K : f[k] = f[l] => k = l
    BY <2>1
  <2>3. \A node : node \in of("insert") <=> \E k \in 1..K : node = f[k]
    BY <1>8
  <2> HIDE DEF f
  <2> QED
    BY <2>2, <2>3, <1>5, NumberedSet
<1>15. ASSUME NEW pick \in of("pick"), NEW insert \in of("insert"), pick.id[2] = insert.id[2]
       PROVE  /\ At(pick) <= At(insert)
              /\ \A i \in Insertions : ~(At(pick) <= i /\ i < At(insert))
              /\ pick.region # Unresolved =>
                   \E r \in Range(demo.relations) : r.segment = pick.evidence /\ r.region = pick.region
  <2>1. PICK n \in 1..K : pick = part(n)[1]
    BY <1>8
  <2>2. PICK m \in 1..K : insert = part(m)[4]
    BY <1>8
  <2>3. m = n
    <3>1. <<"pick", n>>[2] = <<"insert", m>>[2]
      BY <1>7, <1>15, <2>1, <2>2
    <3> QED
      BY <3>1
  <2>4. At(pick) = gr[n] /\ At(insert) = ins[n]
    BY <1>9, <2>1, <2>2, <2>3
  <2>5. \A i \in Insertions : ~(gr[n] <= i /\ i < ins[n])
    <3> SUFFICES ASSUME NEW i \in Insertions, gr[n] <= i, i < ins[n] PROVE FALSE
      OBVIOUS
    <3>1. i \in DOMAIN Segments /\ Inserts(Segments[i])
      BY DEF Insertions
    <3>2. i \in gr[n]..(ins[n] - 1)
      BY <3>1, <1>3, <1>6
    <3> QED
      BY <3>1, <3>2, <1>6
  <2>6. pick.region # Unresolved =>
          \E r \in Range(demo.relations) : r.segment = pick.evidence /\ r.region = pick.region
    <3>1. Listed(demo.relations)
      BY DemonstrationsAssumption
    <3>2. pick.region = RegionOf(demo.relations, pick.evidence)
      BY <1>7, <2>1
    <3> QED
      BY <3>1, <3>2, RegionIs
  <2> QED
    BY <2>4, <2>5, <2>6, <1>6
<1>16. Paired(Range(nodes))
  BY <1>11, <1>13, <1>14, <1>15 DEF Paired, of
<1> QED
  BY <1>13, <1>16 DEF nodes, K, cycles

(* A graph whose nodes lie in the order of its chain.                      *)
Chained(of) ==
  LET nodes == of.nodes
      N == Len(nodes)
  IN /\ N \in Nat /\ N >= 1 /\ nodes = [i \in 1..N |-> nodes[i]]
     /\ \A i, j \in 1..N : nodes[i].id = nodes[j].id => i = j
     /\ \A i \in 1..N : nodes[i].id # NoNode
     /\ of.entry = nodes[1].id
     /\ \A i \in 1..(N - 1) : nodes[i].next = nodes[i + 1].id
     /\ nodes[N].next = NoNode

(* Its nodes are found by their names.                                     *)
LEMMA NodeOfIs ==
  ASSUME NEW of, Chained(of), NEW i \in 1..Len(of.nodes)
  PROVE  NodeOf(of, of.nodes[i].id) = of.nodes[i]
<1> DEFINE nodes == of.nodes
           N == Len(nodes)
<1>1. DOMAIN nodes = 1..N /\ \A j \in 1..N : nodes[i].id = nodes[j].id => i = j
  BY DEF Chained
<1>2. nodes[i] \in Range(nodes)
  BY <1>1 DEF Range
<1>3. \A node \in Range(nodes) : node.id = nodes[i].id => node = nodes[i]
  BY <1>1 DEF Range
<1> HIDE DEF nodes
<1>4. (CHOOSE node \in Range(nodes) : node.id = nodes[i].id) = nodes[i]
  BY <1>2, <1>3
<1> QED
  BY <1>4 DEF NodeOf, nodes

(* After n steps along the chain, its first n + 1 nodes.                   *)
First(of, n) == [i \in 1..(IF n < Len(of.nodes) THEN n + 1 ELSE Len(of.nodes)) |-> of.nodes[i].id]
Further(of, path) == LET next == NodeOf(of, Last(path)).next
                     IN IF next = NoNode THEN path ELSE Append(path, next)

LEMMA FirstGoesOn ==
  ASSUME NEW of, Chained(of), NEW n \in 1..Len(of.nodes)
  PROVE  First(of, n) = Further(of, First(of, n - 1))
<1> DEFINE nodes == of.nodes
           N == Len(nodes)
           path == First(of, n - 1)
<1>1. N \in Nat /\ N >= 1 /\ n - 1 < N /\ n \in Nat
  BY DEF Chained
<1>2. path = [i \in 1..n |-> nodes[i].id]
  BY <1>1 DEF First
<1>3. Len(path) = n /\ DOMAIN path = 1..n /\ Last(path) = nodes[n].id
  <2> HIDE DEF path
  <2>1. DOMAIN path = 1..n
    BY <1>2
  <2>2. Len(path) = n
    BY <2>1, <1>1, <1>2
  <2> QED
    BY <1>1, <1>2, <2>1, <2>2 DEF Last
<1>4. NodeOf(of, Last(path)) = nodes[n]
  BY <1>3, NodeOfIs
<1>5. CASE n < N
  <2>1. nodes[n].next = nodes[n + 1].id /\ nodes[n + 1].id # NoNode
    <3>1. n \in 1..(N - 1) /\ n + 1 \in 1..N
      BY <1>1, <1>5
    <3> QED
      BY <3>1 DEF Chained
  <2>2. Further(of, path) = Append(path, nodes[n + 1].id)
    BY <1>4, <2>1 DEF Further
  <2>3. First(of, n) = [i \in 1..(n + 1) |-> nodes[i].id]
    BY <1>5 DEF First
  <2>4. Append(path, nodes[n + 1].id) = [i \in 1..(n + 1) |-> nodes[i].id]
    <3>1. path \in Seq({ nodes[i].id : i \in 1..(n + 1) })
      BY <1>1, <1>2
    <3> HIDE DEF path, nodes
    <3> QED
      BY <3>1, <1>1, <1>2, <1>3
  <2> QED
    BY <2>2, <2>3, <2>4
<1>6. CASE n = N
  <2>1. Further(of, path) = path
    BY <1>4, <1>6 DEF Further, Chained
  <2>2. First(of, n) = [i \in 1..n |-> nodes[i].id]
    BY <1>6 DEF First
  <2> QED
    BY <1>2, <2>1, <2>2
<1> QED
  BY <1>1, <1>5, <1>6

LEMMA FollowIs ==
  ASSUME NEW of, Chained(of)
  PROVE  Follow(of) = [i \in 1..Len(of.nodes) |-> of.nodes[i].id]
<1> DEFINE N == Len(of.nodes)
           Is(f) == f = [n \in 0..N |-> IF n = 0 THEN <<of.entry>> ELSE Further(of, f[n - 1])]
           path == CHOOSE f : Is(f)
           g == [n \in 0..N |-> First(of, n)]
<1>1. N \in Nat /\ N >= 1
  BY DEF Chained
<1>2. First(of, 0) = <<of.entry>>
  <2>1. First(of, 0) = [i \in 1..1 |-> of.nodes[i].id]
    BY <1>1 DEF First
  <2>2. of.nodes[1].id = of.entry
    BY DEF Chained
  <2> QED
    BY <2>1, <2>2
<1>3. Is(g)
  <2>1. ASSUME NEW n \in 0..N PROVE g[n] = IF n = 0 THEN <<of.entry>> ELSE Further(of, g[n - 1])
    <3>1. CASE n = 0
      BY <3>1, <1>1, <1>2
    <3>2. CASE n # 0
      <4>1. n \in 1..N /\ n - 1 \in 0..N
        BY <3>2, <1>1
      <4>2. First(of, n) = Further(of, First(of, n - 1))
        BY <4>1, FirstGoesOn
      <4> QED
        BY <4>1, <4>2, <3>2
    <3> QED
      BY <3>1, <3>2
  <2> DEFINE h == [n \in 0..N |-> IF n = 0 THEN <<of.entry>> ELSE Further(of, g[n - 1])]
  <2>2. \A n \in 0..N : g[n] = h[n]
    BY <2>1
  <2>3. g = h
    BY <2>2
  <2> QED
    BY <2>3
<1>4. Is(path)
  <2> HIDE DEF Is, g
  <2> QED
    BY <1>3
<1>5. Follow(of) = path[N]
  BY DEF Follow, Further
<1>6. path[0] = <<of.entry>> /\ \A n \in 1..N : path[n] = Further(of, path[n - 1])
  <2> HIDE DEF path
  <2>1. \A n \in 1..N : n \in 0..N /\ n # 0
    BY <1>1
  <2> QED
    BY <1>1, <1>4, <2>1
<1> HIDE DEF path, Is, g
<1> DEFINE Bad == { n \in 0..N : path[n] # First(of, n) }
<1>7. Bad = {}
  <2> SUFFICES ASSUME Bad # {} PROVE FALSE
    OBVIOUS
  <2>1. PICK m \in Bad : \A k \in Bad : m <= k
    <3>1. Bad \in SUBSET Nat
      OBVIOUS
    <3> HIDE DEF Bad
    <3> QED
      BY <3>1, Least, Zenon
  <2>2. m \in 0..N /\ path[m] # First(of, m)
    OBVIOUS
  <2>3. m # 0
    BY <1>2, <1>6, <2>2
  <2>4. m \in 1..N /\ m - 1 \in 0..N /\ m - 1 \notin Bad
    <3>1. m \in 1..N /\ m - 1 \in 0..N /\ ~(m <= m - 1)
      BY <1>1, <2>2, <2>3
    <3> HIDE DEF Bad
    <3> QED
      BY <3>1, <2>1
  <2>5. path[m - 1] = First(of, m - 1)
    BY <2>4
  <2>6. path[m] = First(of, m)
    BY <2>4, <2>5, <1>6, FirstGoesOn
  <2> QED
    BY <2>2, <2>6
<1>8. path[N] = First(of, N)
  BY <1>1, <1>7
<1> QED
  BY <1>1, <1>5, <1>8 DEF First

(* Then it is linear, and its chain is its list of nodes.                  *)
LEMMA ChainIsList ==
  ASSUME NEW of, Chained(of)
  PROVE  IsLinear(of) /\ LinearNodes(of) = of.nodes
<1> DEFINE N == Len(of.nodes)
           path == [i \in 1..N |-> of.nodes[i].id]
<1>1. N \in Nat /\ of.nodes = [i \in 1..N |-> of.nodes[i]]
  BY DEF Chained
<1>2. Follow(of) = path
  BY FollowIs
<1>3. DOMAIN path = 1..N /\ Len(path) = N
  BY <1>1
<1>4. \A i \in 1..N : NodeOf(of, path[i]) = of.nodes[i]
  BY NodeOfIs
<1>5. LinearNodes(of) = [i \in 1..N |-> NodeOf(of, path[i])]
  <2>1. LinearNodes(of) = [i \in DOMAIN Follow(of) |-> NodeOf(of, Follow(of)[i])]
    BY DEF LinearNodes
  <2> HIDE DEF path
  <2> QED
    BY <1>2, <1>3, <2>1
<1> HIDE DEF path
<1>6. [i \in 1..N |-> NodeOf(of, path[i])] = [i \in 1..N |-> of.nodes[i]]
  BY <1>4
<1>7. LinearNodes(of) = of.nodes
  BY <1>1, <1>5, <1>6, Zenon
<1>8. IsLinear(of)
  BY <1>1, <1>2, <1>3 DEF IsLinear
<1> QED
  BY <1>7, <1>8

(* Node j of cycle n.                                                      *)
CycleIds == <<"pick", "reorient", "align", "insert", "verify">>
CycleRefs == {"trusted.pick", "trusted.reorient", "trusted.align", "trusted.insert", "trusted.verify"}
PartIs(cycles, relations, n, j) ==
  LET node == CycleNodes(cycles, relations, n)[j]
  IN /\ node.id = <<CycleIds[j], n>>
     /\ node.next = IF j < 5 THEN <<CycleIds[j + 1], n>>
                    ELSE IF n < Len(cycles) THEN <<"pick", n + 1>> ELSE NoNode
     /\ node.ref \in CycleRefs

LEMMA PartsAre ==
  ASSUME NEW cycles, NEW relations, NEW n \in Nat, NEW j \in 1..5
  PROVE  PartIs(cycles, relations, n, j)
<1> DEFINE part == CycleNodes(cycles, relations, n)
<1>1. Named(cycles, relations, n)
  BY PartsNamed
<1>2. /\ part[1].id = <<"pick", n>> /\ part[2].id = <<"reorient", n>> /\ part[3].id = <<"align", n>>
      /\ part[4].id = <<"insert", n>> /\ part[5].id = <<"verify", n>>
      /\ part[1].next = <<"reorient", n>> /\ part[2].next = <<"align", n>> /\ part[3].next = <<"insert", n>>
      /\ part[4].next = <<"verify", n>>
      /\ part[5].next = IF n < Len(cycles) THEN <<"pick", n + 1>> ELSE NoNode
      /\ part[1].ref = "trusted.pick" /\ part[2].ref = "trusted.reorient" /\ part[3].ref = "trusted.align"
      /\ part[4].ref = "trusted.insert" /\ part[5].ref = "trusted.verify"
  BY <1>1 DEF Named
<1>3. /\ CycleIds[1] = "pick" /\ CycleIds[2] = "reorient" /\ CycleIds[3] = "align"
      /\ CycleIds[4] = "insert" /\ CycleIds[5] = "verify"
  BY DEF CycleIds
<1> HIDE DEF part
<1>4. CASE j = 1
  BY <1>2, <1>3, <1>4 DEF PartIs, CycleRefs, part
<1>5. CASE j = 2
  BY <1>2, <1>3, <1>5 DEF PartIs, CycleRefs, part
<1>6. CASE j = 3
  BY <1>2, <1>3, <1>6 DEF PartIs, CycleRefs, part
<1>7. CASE j = 4
  BY <1>2, <1>3, <1>7 DEF PartIs, CycleRefs, part
<1>8. CASE j = 5
  BY <1>2, <1>3, <1>8 DEF PartIs, CycleRefs, part
<1> QED
  BY <1>4, <1>5, <1>6, <1>7, <1>8

(* The five names are five.                                                *)
LEMMA IdsDiffer ==
  ASSUME NEW i \in 1..5, NEW j \in 1..5, CycleIds[i] = CycleIds[j]
  PROVE  i = j
BY DEF CycleIds

LEMMA IdsAreNames ==
  ASSUME NEW j \in 1..5, NEW n, n \in Nat
  PROVE  <<CycleIds[j], n>> # NoNode
BY DEF CycleIds, NoNode

LEMMA PlaceFollows ==
  ASSUME NEW n \in Nat, NEW j \in 1..5
  PROVE  Place(n, j) + 1 = IF j < 5 THEN Place(n, j + 1) ELSE Place(n + 1, 1)
BY DEF Place, CycleLength

(* The nodes of all cycles make one chain.                                 *)
LEMMA CyclesChain ==
  ASSUME NEW cycles, Len(cycles) \in Nat, Len(cycles) >= 1, NEW relations,
         NEW of, of.nodes = GraphNodes(cycles, relations), of.entry = <<"pick", 1>>
  PROVE  Chained(of)
<1> DEFINE nodes == of.nodes
           K == Len(cycles)
           N == Len(nodes)
           part(n) == CycleNodes(cycles, relations, n)
<1>1. N = 5 * K /\ DOMAIN nodes = 1..N /\ N \in Nat /\ N >= 5
  BY NodesAre DEF CycleLength
<1>2. nodes = [i \in 1..N |-> nodes[i]]
  <2>1. nodes = [m \in 1..(CycleLength * K) |->
     CycleNodes(cycles, relations, ((m - 1) \div CycleLength) + 1)[((m - 1) % CycleLength) + 1]]
    BY DEF GraphNodes
  <2> HIDE DEF nodes, N
  <2> QED
    BY <1>1, <2>1
<1>3. \A n \in 1..K, j \in 1..5 : Place(n, j) \in 1..N /\ nodes[Place(n, j)] = part(n)[j]
  BY NodeAt, <1>1
<1>4. \A m \in 1..N : \E n \in 1..K, j \in 1..5 : m = Place(n, j)
  BY <1>1, PlaceIs DEF CycleLength
<1>5. ASSUME NEW n \in 1..K, NEW j \in 1..5
      PROVE  /\ nodes[Place(n, j)].id = <<CycleIds[j], n>>
             /\ nodes[Place(n, j)].next = IF j < 5 THEN <<CycleIds[j + 1], n>>
                                          ELSE IF n < K THEN <<"pick", n + 1>> ELSE NoNode
  <2>1. n \in Nat
    OBVIOUS
  <2>2. PartIs(cycles, relations, n, j)
    BY <2>1, PartsAre
  <2>3. nodes[Place(n, j)] = part(n)[j]
    BY <1>3
  <2> HIDE DEF nodes
  <2> QED
    BY <2>2, <2>3 DEF PartIs
<1>13. \A n \in 1..K : \A j \in 1..5 : nodes[Place(n, j)].id = <<CycleIds[j], n>>
  BY <1>5
<1>6. K \in Nat /\ CycleIds[1] = "pick" /\ 1 \in 1..5 /\ 5 \in 1..5 /\ 1 \in 1..K /\ K \in 1..K
  BY DEF CycleIds
<1> HIDE DEF nodes, part, N, K
<1>7. ASSUME NEW i \in 1..N, NEW k \in 1..N, nodes[i].id = nodes[k].id PROVE i = k
  <2>1. PICK n \in 1..K, j \in 1..5 : i = Place(n, j)
    BY <1>4
  <2>2. PICK m \in 1..K, l \in 1..5 : k = Place(m, l)
    BY <1>4
  <2>3. <<CycleIds[j], n>> = <<CycleIds[l], m>>
    <3>1. nodes[Place(n, j)].id = <<CycleIds[j], n>>
      BY <1>13
    <3>2. nodes[Place(m, l)].id = <<CycleIds[l], m>>
      BY <1>13
    <3> QED
      BY <3>1, <3>2, <1>7, <2>1, <2>2
  <2>4. CycleIds[j] = CycleIds[l] /\ n = m
    BY <2>3
  <2>5. j = l
    BY <2>4, IdsDiffer
  <2> QED
    BY <2>1, <2>2, <2>4, <2>5
<1>8. ASSUME NEW i \in 1..N PROVE nodes[i].id # NoNode
  <2>1. PICK n \in 1..K, j \in 1..5 : i = Place(n, j)
    BY <1>4
  <2>3. nodes[Place(n, j)].id = <<CycleIds[j], n>>
    BY <1>13
  <2>2. nodes[i].id = <<CycleIds[j], n>> /\ n \in Nat
    BY <1>6, <2>1, <2>3
  <2> QED
    BY <2>2, IdsAreNames
<1>9. of.entry = nodes[1].id
  <2>1. Place(1, 1) = 1
    BY DEF Place, CycleLength
  <2>2. nodes[Place(1, 1)].id = <<CycleIds[1], 1>>
    BY <1>5, <1>6
  <2> QED
    BY <2>1, <2>2, <1>6
<1>10. ASSUME NEW i \in 1..(N - 1) PROVE nodes[i].next = nodes[i + 1].id
  <2>1. PICK n \in 1..K, j \in 1..5 : i = Place(n, j)
    <3>1. i \in 1..N
      BY <1>1
    <3> QED
      BY <3>1, <1>4
  <2>6. n \in Nat
    BY <1>6
  <2>2. K \in Nat /\ n \in Nat /\ Place(n, j) + 1 = IF j < 5 THEN Place(n, j + 1) ELSE Place(n + 1, 1)
    BY <1>6, <2>6, PlaceFollows
  <2>3. nodes[i].next = IF j < 5 THEN <<CycleIds[j + 1], n>>
                                  ELSE IF n < K THEN <<"pick", n + 1>> ELSE NoNode
    BY <2>1, <1>3, <1>5
  <2>4. CASE j < 5
    <3>1. j + 1 \in 1..5 /\ i + 1 = Place(n, j + 1)
      BY <2>1, <2>2, <2>4
    <3>2. nodes[i + 1].id = <<CycleIds[j + 1], n>>
      BY <3>1, <1>3, <1>5
    <3> QED
      BY <3>2, <2>3, <2>4
  <2>5. CASE j = 5
    <3>1. i = 5 * n
      BY <2>1, <2>5 DEF Place, CycleLength
    <3>2. n < K
      BY <3>1, <1>1, <2>2
    <3>3. n + 1 \in 1..K /\ i + 1 = Place(n + 1, 1)
      BY <3>2, <2>1, <2>2, <2>5
    <3>5. nodes[Place(n + 1, 1)].id = <<CycleIds[1], n + 1>>
      BY <3>3, <1>13, <1>6
    <3>4. nodes[i + 1].id = <<"pick", n + 1>>
      BY <3>3, <3>5, <1>6
    <3> QED
      BY <3>2, <3>4, <2>3, <2>5
  <2> QED
    BY <2>4, <2>5
<1>11. nodes[N].next = NoNode
  <2>1. K \in Nat /\ Place(K, 5) = N
    BY <1>1 DEF Place, CycleLength, K
  <2>3. nodes[Place(K, 5)].next = IF 5 < 5 THEN <<CycleIds[5 + 1], K>>
                                  ELSE IF K < K THEN <<"pick", K + 1>> ELSE NoNode
    BY <1>5, <1>6
  <2>2. nodes[Place(K, 5)].next = NoNode
    BY <2>1, <2>3
  <2> QED
    BY <2>1, <2>2
<1>12. \A i \in 1..(N - 1) : nodes[i].next = nodes[i + 1].id
  BY <1>10
<1>14. N \in Nat /\ N >= 1
  BY <1>1
<1>15. \A i, k \in 1..N : nodes[i].id = nodes[k].id => i = k
  BY <1>7
<1>16. \A i \in 1..N : nodes[i].id # NoNode
  BY <1>8
<1> QED
  BY <1>2, <1>9, <1>11, <1>12, <1>14, <1>15, <1>16 DEF Chained, nodes, N

(* The places where a cycle begins are those of the picks, in their order. *)
LEMMA StartsAre ==
  ASSUME NEW cycles, Len(cycles) \in Nat, Len(cycles) >= 1, NEW relations,
         NEW nodes, nodes = GraphNodes(cycles, relations)
  PROVE  Starts(nodes, CycleIds) = [n \in 1..Len(cycles) |-> Place(n, 1)]
<1> DEFINE K == Len(cycles)
           places == 1..(Len(nodes) - Len(CycleIds) + 1)
           S == { i \in places : \A j \in DOMAIN CycleIds : ActionOf(nodes[i + j - 1]) = CycleIds[j] }
           before == { r \in S \X S : r[1] < r[2] }
           order == InOrder(S, before)
           f == [n \in 1..K |-> Place(n, 1)]
<1>1. Len(CycleIds) = 5 /\ DOMAIN CycleIds = 1..5 /\ CycleIds[1] = "pick"
  BY DEF CycleIds
<1>2. Len(nodes) = 5 * K /\ K \in Nat /\ K >= 1 /\ places = 1..(5 * K - 4)
  BY <1>1, NodesAre DEF CycleLength
<1>3. ASSUME NEW n \in 1..K, NEW j \in 1..5
      PROVE  ActionOf(nodes[Place(n, j)]) = CycleIds[j]
  <2>1. n \in Nat
    OBVIOUS
  <2>2. PartIs(cycles, relations, n, j)
    BY <2>1, PartsAre
  <2>3. nodes[Place(n, j)] = CycleNodes(cycles, relations, n)[j]
    BY NodeAt
  <2>4. nodes[Place(n, j)].id = <<CycleIds[j], n>>
    BY <2>2, <2>3 DEF PartIs
  <2> QED
    BY <2>4 DEF ActionOf
<1>4. ASSUME NEW i \in S PROVE \E n \in 1..K : i = Place(n, 1)
  <2>1. i \in 1..(5 * K) /\ i + 1 - 1 = i /\ 1 \in 1..5
    BY <1>2
  <2>2. PICK n \in 1..K, j \in 1..5 : i = Place(n, j)
    BY <2>1, <1>2, PlaceIs DEF CycleLength
  <2>3. ActionOf(nodes[i + 1 - 1]) = "pick"
    BY <1>1, <2>1
  <2>4. CycleIds[j] = CycleIds[1]
    BY <1>1, <1>3, <2>1, <2>2, <2>3
  <2>5. j = 1
    BY <2>1, <2>4, IdsDiffer
  <2> QED
    BY <2>2, <2>5
<1>5. ASSUME NEW n \in 1..K PROVE Place(n, 1) \in S
  <2>1. Place(n, 1) \in places
    BY <1>2 DEF Place, CycleLength
  <2>2. \A j \in 1..5 : Place(n, 1) + j - 1 = Place(n, j)
    BY <1>2 DEF Place, CycleLength
  <2>3. \A j \in 1..5 : ActionOf(nodes[Place(n, 1) + j - 1]) = CycleIds[j]
    BY <2>2, <1>3
  <2> QED
    BY <2>1, <2>3, <1>1
<1>6. ASSUME NEW m \in Nat, NEW n \in Nat
      PROVE  /\ Place(m, 1) = Place(n, 1) => m = n
             /\ m < n <=> Place(m, 1) < Place(n, 1)
  BY DEF Place, CycleLength
<1> HIDE DEF S, places
<1>7. ASSUME NEW n \in 1..K
      PROVE  Cardinality({ q \in S : <<q, Place(n, 1)>> \in before }) = n - 1
  <2> DEFINE T == { q \in S : <<q, Place(n, 1)>> \in before }
  <2>1. n - 1 \in Nat /\ \A k \in 1..(n - 1) : k \in 1..K /\ k \in Nat /\ k < n
    BY <1>2
  <2>2. n \in Nat /\ \A k \in 1..K : k \in Nat
    BY <1>2
  <2>3. ASSUME NEW t PROVE t \in T <=> \E k \in 1..(n - 1) : t = f[k]
    <3>1. t \in T <=> t \in S /\ t < Place(n, 1)
      BY <1>5
    <3>2. ASSUME t \in S, t < Place(n, 1) PROVE \E k \in 1..(n - 1) : t = f[k]
      <4>1. PICK k \in 1..K : t = Place(k, 1)
        BY <3>2, <1>4
      <4>2. k < n
        BY <4>1, <3>2, <2>2, <1>6
      <4>3. k \in 1..(n - 1) /\ f[k] = t
        BY <4>1, <4>2, <2>2
      <4> QED
        BY <4>3
    <3>3. ASSUME NEW k \in 1..(n - 1), t = f[k] PROVE t \in S /\ t < Place(n, 1)
      <4>1. k \in 1..K /\ k < n /\ t = Place(k, 1)
        BY <2>1, <3>3
      <4> QED
        BY <4>1, <2>2, <1>5, <1>6
    <3> HIDE DEF T, f
    <3> QED
      BY <3>1, <3>2, <3>3
  <2>4. ASSUME NEW k \in 1..(n - 1), NEW l \in 1..(n - 1), f[k] = f[l] PROVE k = l
    <3>1. Place(k, 1) = Place(l, 1)
      BY <2>1, <2>4
    <3> QED
      BY <3>1, <2>1, <1>6
  <2> HIDE DEF T, f
  <2> QED
    BY <2>1, <2>3, <2>4, NumberedSet DEF T
<1>8. Cardinality(S) = K
  <2>1. \A t : t \in S <=> \E k \in 1..K : t = f[k]
    BY <1>4, <1>5
  <2>2. ASSUME NEW k \in 1..K, NEW l \in 1..K, f[k] = f[l] PROVE k = l
    <3>1. k \in Nat /\ l \in Nat /\ Place(k, 1) = Place(l, 1)
      BY <2>2, <1>2
    <3> QED
      BY <3>1, <1>6
  <2> HIDE DEF f
  <2> QED
    BY <2>1, <2>2, <1>2, NumberedSet
<1>9. ASSUME NEW n \in 1..K
      PROVE  (CHOOSE p \in S : Cardinality({ q \in S : <<q, p>> \in before }) = n - 1) = Place(n, 1)
  <2>1. Place(n, 1) \in S /\ Cardinality({ q \in S : <<q, Place(n, 1)>> \in before }) = n - 1
    BY <1>5, <1>7
  <2>2. ASSUME NEW p \in S, Cardinality({ q \in S : <<q, p>> \in before }) = n - 1 PROVE p = Place(n, 1)
    <3>1. PICK m \in 1..K : p = Place(m, 1)
      BY <1>4
    <3>2. m - 1 = n - 1
      BY <3>1, <2>2, <1>7
    <3>3. m = n
      BY <3>2, <1>2
    <3> QED
      BY <3>1, <3>3
  <2> DEFINE Is(p) == Cardinality({ q \in S : <<q, p>> \in before }) = n - 1
  <2>3. Is(Place(n, 1)) /\ \A p \in S : Is(p) => p = Place(n, 1)
    BY <2>1, <2>2
  <2> HIDE DEF Is
  <2>4. (CHOOSE p \in S : Is(p)) = Place(n, 1)
    BY <2>1, <2>3
  <2> QED
    BY <2>4 DEF Is
<1>10. order = [n \in 1..K |-> CHOOSE p \in S : Cardinality({ q \in S : <<q, p>> \in before }) = n - 1]
  <2> HIDE DEF before
  <2> QED
    BY <1>8 DEF InOrder
<1>11. order = f
  <2> DEFINE Nth(n) == CHOOSE p \in S : Cardinality({ q \in S : <<q, p>> \in before }) = n - 1
  <2>1. order = [n \in 1..K |-> Nth(n)]
    BY <1>10
  <2>2. \A n \in 1..K : Nth(n) = Place(n, 1)
    BY <1>9
  <2> HIDE DEF Nth, order
  <2> QED
    BY <2>1, <2>2
<1>12. Starts(nodes, CycleIds) = [n \in DOMAIN order |-> [i \in places |-> i][order[n]]]
  BY DEF Starts, Chosen, S, places
<1>13. DOMAIN f = 1..K /\ \A n \in 1..K : f[n] = Place(n, 1) /\ f[n] \in places
  BY <1>5 DEF S
<1> HIDE DEF order, f
<1>14. Starts(nodes, CycleIds) = [n \in 1..K |-> [i \in places |-> i][f[n]]]
  BY <1>11, <1>12, <1>13
<1>15. \A n \in 1..K : [i \in places |-> i][f[n]] = Place(n, 1)
  BY <1>13
<1> QED
  BY <1>14, <1>15

(* What is a chain and asks for no other controllers compiles and binds.   *)
LEMMA ChainBinds ==
  ASSUME NEW of, Chained(of), NEW trusted, Refs(of.nodes) \subseteq trusted
  PROVE  Binds(Compile(of, trusted), of, trusted)
<1>1. IsLinear(of) /\ LinearNodes(of) = of.nodes
  BY ChainIsList
<1>2. of # NoGraph
  <2>1. Len(of.nodes) >= 1 /\ Len(of.nodes) \in Nat
    BY DEF Chained
  <2>2. NoGraph.nodes = <<>> /\ Len(<<>>) = 0
    BY DEF NoGraph
  <2> QED
    BY <2>1, <2>2
<1>3. Compile(of, trusted) = [graph |-> of, handlers |-> Handlers(of.nodes), refs |-> Refs(of.nodes)]
  BY <1>1, <1>2 DEF Compile
<1>4. Compile(of, trusted) # NoArtifact
  <2>1. Compile(of, trusted).graph = of
    BY <1>3
  <2>2. NoArtifact.graph = NoGraph
    BY DEF NoArtifact
  <2> QED
    BY <1>2, <2>1, <2>2
<1> QED
  BY <1>3, <1>4 DEF Binds

(* A closed window: the five nodes of one cycle, the last of them an end.  *)
WindowIs(window, cycles, relations, n) ==
  window = [j \in 1..5 |-> CycleNodes(cycles, relations, n)[j]]

(* A graph of one cycle.                                                   *)
Closed(of, n) ==
  /\ Chained(of) /\ GraphIsSound(of) /\ Len(of.nodes) = 5
  /\ \A j \in 1..5 : of.nodes[j].id = <<CycleIds[j], n>>
  /\ Refs(of.nodes) \subseteq CycleRefs

(* It is a sound graph of its own.                                         *)
LEMMA WindowCloses ==
  ASSUME NEW cycles, NEW relations, NEW n \in Nat, NEW window, WindowIs(window, cycles, relations, n),
         \A j \in 1..5 : NodeIsSound(window[j]),
         NEW of, of.entry = window[1].id, of.nodes = CloseWindow(window)
  PROVE  Closed(of, n)
<1> DEFINE nodes == of.nodes
           part == CycleNodes(cycles, relations, n)
<1>1. DOMAIN window = 1..5 /\ Len(window) = 5 /\ \A j \in 1..5 : window[j] = part[j]
  BY DEF WindowIs
<1>2. /\ DOMAIN nodes = 1..5 /\ Len(nodes) = 5 /\ nodes = [i \in 1..5 |-> nodes[i]]
      /\ \A j \in 1..4 : nodes[j] = part[j]
      /\ nodes[5] = [part[5] EXCEPT !.next = NoNode]
  <2>1. nodes = [window EXCEPT ![5] = [window[5] EXCEPT !.next = NoNode]]
    BY <1>1 DEF CloseWindow
  <2>2. nodes = [j \in 1..5 |-> IF j = 5 THEN [window[5] EXCEPT !.next = NoNode] ELSE window[j]]
    <3> HIDE DEF nodes
    <3> QED
      BY <1>1, <2>1
  <2>3. DOMAIN nodes = 1..5 /\ nodes = [i \in 1..5 |-> nodes[i]] /\ Len(nodes) = 5
    <3> HIDE DEF nodes
    <3> QED
      BY <2>2
  <2>4. nodes[5] = [window[5] EXCEPT !.next = NoNode] /\ \A j \in 1..4 : nodes[j] = window[j]
    <3> HIDE DEF nodes
    <3> QED
      BY <2>2
  <2> HIDE DEF nodes, part
  <2> QED
    BY <1>1, <2>3, <2>4
<1>3. ASSUME NEW j \in 1..5
      PROVE  /\ part[j].id = <<CycleIds[j], n>> /\ part[j].ref \in CycleRefs
             /\ j < 5 => part[j].next = <<CycleIds[j + 1], n>>
  <2>1. PartIs(cycles, relations, n, j)
    BY PartsAre
  <2> HIDE DEF part
  <2> QED
    BY <2>1 DEF PartIs, part
<1>4. /\ nodes[5].id = part[5].id /\ nodes[5].ref = part[5].ref /\ nodes[5].next = NoNode
      /\ nodes[5].attempts = part[5].attempts /\ nodes[5].constraints = part[5].constraints
      /\ nodes[5].holes = part[5].holes
  <2>1. part[5] = VerifyNode(n, cycles[n].insert, IF n < Len(cycles) THEN <<"pick", n + 1>> ELSE NoNode)
    BY DEF CycleNodes
  <2> HIDE DEF part, nodes
  <2> QED
    BY <1>2, <2>1 DEF VerifyNode
<1> HIDE DEF nodes, part
<1>5. ASSUME NEW j \in 1..5
      PROVE  /\ nodes[j].id = <<CycleIds[j], n>> /\ nodes[j].ref \in CycleRefs
             /\ NodeIsSound(nodes[j])
             /\ nodes[j].next = IF j < 5 THEN <<CycleIds[j + 1], n>> ELSE NoNode
  <2>1. CASE j = 5
    <3>1. NodeIsSound(part[5])
      BY <1>1
    <3>2. NodeIsSound(nodes[5])
      BY <3>1, <1>4 DEF NodeIsSound
    <3> QED
      BY <2>1, <3>2, <1>3, <1>4
  <2>2. CASE j # 5
    <3>1. j \in 1..4 /\ nodes[j] = part[j]
      BY <2>2, <1>2
    <3>2. NodeIsSound(part[j])
      BY <1>1
    <3> QED
      BY <3>1, <3>2, <1>3
  <2> QED
    BY <2>1, <2>2
<1>6. ASSUME NEW i \in 1..5, NEW j \in 1..5, nodes[i].id = nodes[j].id PROVE i = j
  <2>1. <<CycleIds[i], n>> = <<CycleIds[j], n>>
    BY <1>5, <1>6
  <2> QED
    BY <2>1, IdsDiffer
<1>7. \A j \in 1..5 : nodes[j].id # NoNode
  BY <1>5, IdsAreNames
<1>8. of.entry = nodes[1].id
  <2>1. window[1].id = nodes[1].id
    BY <1>1, <1>2
  <2> QED
    BY <2>1
<1>9. \A i \in 1..4 : nodes[i].next = nodes[i + 1].id
  <2> SUFFICES ASSUME NEW i \in 1..4 PROVE nodes[i].next = nodes[i + 1].id
    OBVIOUS
  <2>1. i \in 1..5 /\ i < 5 /\ i + 1 \in 1..5
    OBVIOUS
  <2> QED
    BY <2>1, <1>5
<1>10. Chained(of)
  BY <1>2, <1>4, <1>6, <1>7, <1>8, <1>9 DEF Chained, nodes
<1>11. GraphIsSound(of)
  <2> DEFINE ids == [i \in DOMAIN nodes |-> nodes[i].id]
  <2>1. DOMAIN ids = 1..5 /\ \A i \in 1..5 : ids[i] = nodes[i].id
    BY <1>2
  <2> HIDE DEF ids
  <2>2. IsInjective(ids)
    BY <1>6, <2>1 DEF IsInjective
  <2>3. \A i \in 1..5 : nodes[i].id \in Range(ids)
    BY <2>1 DEF Range
  <2>4. of.entry \in Range(ids)
    BY <1>8, <2>3
  <2>5. \A i \in 1..5 : nodes[i].next \in Range(ids) \cup {NoNode}
    <3> SUFFICES ASSUME NEW i \in 1..5 PROVE nodes[i].next \in Range(ids) \cup {NoNode}
      OBVIOUS
    <3>1. CASE i = 5
      BY <3>1, <1>4
    <3>2. CASE i # 5
      <4>1. i \in 1..4 /\ i + 1 \in 1..5
        BY <3>2
      <4> QED
        BY <4>1, <1>9, <2>3
    <3> QED
      BY <3>1, <3>2
  <2>6. nodes # <<>>
    BY <1>2
  <2>7. \A i \in 1..5 : NodeIsSound(nodes[i])
    BY <1>5
  <2> QED
    BY <2>2, <2>4, <2>5, <2>6, <2>7, <1>2 DEF GraphIsSound, ids, nodes
<1>12. Refs(nodes) \subseteq CycleRefs
  <2>1. \A j \in 1..5 : nodes[j].ref \in CycleRefs
    BY <1>5
  <2> QED
    BY <2>1, <1>2 DEF Refs, Range
<1> QED
  BY <1>2, <1>5, <1>10, <1>11, <1>12 DEF nodes, Closed

(* What CyclesBind asks of each cycle.                                     *)
CycleFits(cycle, n) ==
  /\ [i \in DOMAIN cycle.nodes |-> cycle.nodes[i].id] = [i \in DOMAIN CycleActions |-> <<CycleActions[i], n>>]
  /\ Binds(Compile(cycle, Trusted), cycle, Trusted)

LEMMA CycleFitsIf ==
  ASSUME NEW cycle, NEW n \in Nat, Chained(cycle), Len(cycle.nodes) = 5,
         \A j \in 1..5 : cycle.nodes[j].id = <<CycleIds[j], n>>,
         Refs(cycle.nodes) \subseteq CycleRefs
  PROVE  CycleFits(cycle, n)
<1>1. CycleActions = CycleIds
  BY ControllersAssumption DEF CycleIds
<1>2. DOMAIN CycleIds = 1..5
  BY DEF CycleIds
<1>3. DOMAIN cycle.nodes = 1..5
  BY DEF Chained
<1>4. [i \in DOMAIN cycle.nodes |-> cycle.nodes[i].id] = [i \in DOMAIN CycleActions |-> <<CycleActions[i], n>>]
  BY <1>1, <1>2, <1>3
<1>5. Refs(cycle.nodes) \subseteq Trusted
  BY ControllersAssumption DEF CycleRefs
<1>6. Binds(Compile(cycle, Trusted), cycle, Trusted)
  BY <1>5, ChainBinds
<1> QED
  BY <1>4, <1>6 DEF CycleFits

(* Every cycle of an extracted graph is selected by its number, as it was  *)
(* shown.                                                                  *)
LEMMA CycleIsSelected ==
  ASSUME NEW cycles, Len(cycles) \in Nat, Len(cycles) >= 1, NEW relations,
         NEW of, of.nodes = GraphNodes(cycles, relations), of.entry = <<"pick", 1>>, GraphIsSound(of),
         NEW n \in 1..Len(cycles)
  PROVE  CycleFits(SelectLinearActionCycle(of, CycleActions, n - 1), n)
<1> DEFINE K == Len(cycles)
           nodes == of.nodes
           part == CycleNodes(cycles, relations, n)
           first == Place(n, 1)
           window == SubSeq(nodes, first, first + Len(CycleActions) - 1)
           closed == [id |-> <<of.id[1], (n - 1) + 1>>, entry |-> window[1].id, nodes |-> CloseWindow(window)]
           cycle == SelectLinearActionCycle(of, CycleActions, n - 1)
           starts == Starts(nodes, CycleActions)
<1>1. CycleActions = CycleIds /\ Len(CycleActions) = 5
  BY ControllersAssumption DEF CycleIds
<1>2. Chained(of)
  BY CyclesChain
<1>3. IsLinear(of) /\ LinearNodes(of) = nodes
  BY <1>2, ChainIsList
<1>4. DOMAIN nodes = 1..(5 * K) /\ Len(nodes) = 5 * K /\ K \in Nat /\ K >= 1 /\ n \in Nat
  BY NodesAre DEF CycleLength
<1>5. starts = [k \in 1..K |-> Place(k, 1)]
  BY <1>1, StartsAre
<1>6. Len(starts) = K /\ starts[(n - 1) + 1] = first /\ ~(n - 1 >= K)
  <2> HIDE DEF starts
  <2>1. Len(starts) = K
    BY <1>4, <1>5
  <2>2. (n - 1) + 1 = n
    BY <1>4
  <2> QED
    BY <1>4, <1>5, <2>1, <2>2
<1>7. cycle = IF Len(window) = Len(nodes) /\ Last(window).next = NoNode THEN of
              ELSE IF GraphIsSound(closed) THEN closed ELSE NoGraph
  <2>1. Len(CycleActions) <= Len(nodes)
    BY <1>1, <1>4
  <2> DEFINE rest(st) == IF n - 1 >= Len(st) THEN NoGraph
       ELSE LET fst == st[(n - 1) + 1]
                   win == SubSeq(nodes, fst, fst + Len(CycleActions) - 1)
                   sel == [id |-> <<of.id[1], (n - 1) + 1>>, entry |-> win[1].id,
                                nodes |-> CloseWindow(win)]
               IN IF Len(win) = Len(nodes) /\ Last(win).next = NoNode THEN of
                  ELSE IF GraphIsSound(sel) THEN sel ELSE NoGraph
  <2>2. cycle = rest(IF Len(CycleActions) <= Len(nodes) THEN starts ELSE <<>>)
    <3> HIDE DEF nodes
    <3>1. cycle = rest(IF Len(CycleActions) <= Len(LinearNodes(of))
                       THEN Starts(LinearNodes(of), CycleActions) ELSE <<>>)
      BY <1>3 DEF SelectLinearActionCycle
    <3> QED
      BY <3>1, <1>3
  <2>3. cycle = rest(starts)
    BY <2>1, <2>2
  <2> HIDE DEF starts, cycle
  <2> QED
    BY <2>3, <1>6
<1>8. WindowIs(window, cycles, relations, n)
  <2>1. first \in 1..(5 * K) /\ first + Len(CycleActions) - 1 = first + 4 /\ first \in Nat /\ first + 4 \in 1..(5 * K)
    BY <1>1, <1>4 DEF Place, CycleLength
  <2>2. \A j \in 1..5 : first + j - 1 = Place(n, j)
    BY <1>4 DEF Place, CycleLength
  <2>3. \A j \in 1..5 : nodes[Place(n, j)] = part[j]
    BY NodeAt
  <2>4. window = [j \in 1..5 |-> nodes[first + j - 1]]
    <3> HIDE DEF first, nodes
    <3>1. window = SubSeq(nodes, first, first + 4)
      BY <2>1
    <3>2. nodes \in Seq(Range(nodes))
      <4>1. nodes = [i \in 1..Len(nodes) |-> nodes[i]] /\ Len(nodes) \in Nat
        BY <1>2 DEF Chained, nodes
      <4>2. \A i \in 1..Len(nodes) : nodes[i] \in Range(nodes)
        BY <4>1 DEF Range
      <4> QED
        BY <4>1, <4>2
    <3>3. first + 4 \in 1..Len(nodes)
      BY <2>1, <1>4
    <3>4. SubSeq(nodes, first, first + 4) = [j \in 1..5 |-> nodes[first + j - 1]]
      BY <2>1, <3>2, <3>3, <1>4
    <3> QED
      BY <3>1, <3>4
  <2> HIDE DEF first, nodes, window
  <2>5. window = [j \in 1..5 |-> part[j]]
    BY <2>2, <2>3, <2>4
  <2> QED
    BY <2>5 DEF WindowIs
<1>9. DOMAIN window = 1..5 /\ Len(window) = 5 /\ \A j \in 1..5 : window[j] = part[j] /\ part[j] = nodes[Place(n, j)]
  <2>1. window = [j \in 1..5 |-> part[j]]
    BY <1>8 DEF WindowIs
  <2>2. \A j \in 1..5 : part[j] = nodes[Place(n, j)]
    BY NodeAt
  <2> HIDE DEF window, part
  <2> QED
    BY <2>1, <2>2
<1>10. \A j \in 1..5 : PartIs(cycles, relations, n, j)
  BY <1>4, PartsAre
<1>11. CASE Len(window) = Len(nodes) /\ Last(window).next = NoNode
  <2>1. cycle = of
    BY <1>7, <1>11
  <2>2. K = 1 /\ n = 1 /\ Len(nodes) = 5
    <3>1. n \in 1..K
      OBVIOUS
    <3> HIDE DEF window, nodes, K
    <3>2. 5 * K = 5
      BY <1>11, <1>9, <1>4
    <3> QED
      BY <3>1, <3>2, <1>4
  <2>3. \A j \in 1..5 : Place(1, j) = j
    BY DEF Place, CycleLength
  <2>4. \A j \in 1..5 : nodes[j] = part[j]
    BY <1>9, <2>2, <2>3
  <2>5. ASSUME NEW j \in 1..5
        PROVE  /\ nodes[j].id = <<CycleIds[j], n>>
               /\ nodes[j].ref \in CycleRefs
    <3> HIDE DEF nodes
    <3> QED
      BY <1>10, <2>4 DEF PartIs
  <2>6. Refs(nodes) \subseteq CycleRefs
    <3>1. DOMAIN nodes = 1..5
      BY <1>4, <2>2
    <3> HIDE DEF nodes
    <3> QED
      BY <2>5, <3>1 DEF Refs, Range
  <2>7. CycleFits(of, n)
    BY <1>2, <1>4, <2>2, <2>5, <2>6, CycleFitsIf
  <2> QED
    BY <2>1, <2>7
<1>12. CASE ~(Len(window) = Len(nodes) /\ Last(window).next = NoNode)
  <2>1. \A j \in 1..5 : NodeIsSound(window[j])
    <3> SUFFICES ASSUME NEW j \in 1..5 PROVE NodeIsSound(window[j])
      OBVIOUS
    <3>1. Place(n, j) \in DOMAIN nodes
      BY NodeAt
    <3>2. NodeIsSound(nodes[Place(n, j)])
      BY <3>1 DEF GraphIsSound
    <3> QED
      BY <3>2, <1>9
  <2>2. closed.entry = window[1].id /\ closed.nodes = CloseWindow(window)
    OBVIOUS
  <2> HIDE DEF closed, window
  <2>6. Closed(closed, n)
    BY <2>1, <2>2, <1>4, <1>8, WindowCloses
  <2>3. GraphIsSound(closed)
    BY <2>6 DEF Closed
  <2>4. cycle = closed
    <3> HIDE DEF cycle
    <3> QED
      BY <2>3, <1>7, <1>12
  <2>5. CycleFits(closed, n)
    BY <2>6, <1>4, CycleFitsIf DEF Closed
  <2> QED
    BY <2>4, <2>5
<1> QED
  BY <1>11, <1>12

Given == demo \in Demonstrations

(* No command changes the demonstration.                                   *)
LEMMA DemoStays == Given /\ [Next]_vars => Given'
<1> SUFFICES ASSUME [Next]_vars PROVE demo' = demo
  BY DEF Given
<1>1. CASE UNCHANGED vars
  BY <1>1 DEF vars
<1>2. CASE Extract \/ (\E index \in 0..2 : CompileCycle(index))
  BY <1>2 DEF Extract, CompileCycle, Give
<1>3. CASE \E dir \in Dirs, count \in {InitialCount, Len(HeldOut)} : StartSeeds(dir, count)
  BY <1>3 DEF StartSeeds, Give
<1>4. CASE Scan \/ BindFrozen \/ Freeze \/ BeforeSeed \/ CallBackend
  BY <1>4 DEF Scan, BindFrozen, Freeze, BeforeSeed, CallBackend, Steps
<1>5. CASE WriteResult \/ WriteManifest \/ WriteReport \/ GiveUp
  BY <1>5 DEF WriteResult, WriteManifest, WriteReport, GiveUp, Steps
<1>6. CASE EditPolicy \/ EditGraph
  BY <1>6 DEF EditPolicy, EditGraph, Beside
<1> QED
  BY <1>1, <1>2, <1>3, <1>4, <1>5, <1>6 DEF Next

LEMMA DemoIsKept == Spec => []Given
<1>1. Init => Given
  BY DEF Init, Given
<1> QED
  BY <1>1, DemoStays, PTL DEF Spec

(* Only the extractor gives a graph the demonstration's name.              *)
LEMMA ExtractsIs ==
  ASSUME demo \in Demonstrations, [Next]_vars, Extracts
  PROVE  graph' = ExtractConstraintGraph(demo) /\ graph' # NoGraph /\ demo' = demo
<1>1. graph' # graph /\ graph'.id = <<demo.bundle.task, 0>>
  BY DEF Extracts
<1>2. CASE Extract
  BY <1>1, <1>2 DEF Extract, Give, NoGraph
<1>3. CASE EditGraph
  <2>1. graph'.id # <<demo.bundle.task, 0>>
    BY <1>3, DemonstrationsAssumption DEF EditGraph
  <2> QED
    BY <1>1, <2>1
<1>4. CASE UNCHANGED vars
  BY <1>1, <1>4 DEF vars
<1>5. CASE (\E index \in 0..2 : CompileCycle(index)) \/ Scan \/ BindFrozen
  BY <1>1, <1>5 DEF CompileCycle, Scan, BindFrozen
<1>6. CASE \E dir \in Dirs, count \in {InitialCount, Len(HeldOut)} : StartSeeds(dir, count)
  BY <1>1, <1>6 DEF StartSeeds
<1>7. CASE Freeze \/ BeforeSeed \/ CallBackend \/ WriteResult \/ WriteManifest \/ WriteReport \/ GiveUp \/ EditPolicy
  BY <1>1, <1>7 DEF Freeze, BeforeSeed, CallBackend, WriteResult, WriteManifest, WriteReport, GiveUp, EditPolicy
<1> QED
  BY <1>2, <1>3, <1>4, <1>5, <1>6, <1>7 DEF Next

(* Whatever the demonstrations and the graphs written by hand, every graph *)
(* the extractor writes has a node for each insertion shown, paired with a *)
(* grasp that came after the insertion before it; the loop over the        *)
(* segments holds at most one pending grasp and drops it when it is used.  *)
THEOREM GraspsPaired == Spec => GraspsArePaired
<1>1. Given /\ [Next]_vars => [Extracts => Paired(Range(graph'.nodes))]_graph
  <2> SUFFICES ASSUME Given, [Next]_vars, Extracts PROVE Paired(Range(graph'.nodes))
    OBVIOUS
  <2> QED
    BY ExtractsIs, ExtractionPairs DEF Given
<1> QED
  BY <1>1, DemoIsKept, PTL DEF Spec, GraspsArePaired

(* What is extracted of the demonstration in hand binds, cycle by cycle.   *)
LEMMA ExtractionBinds ==
  ASSUME demo \in Demonstrations, NEW of, of = ExtractConstraintGraph(demo), of # NoGraph
  PROVE  CyclesBind(of)
<1> DEFINE cycles == OperationCycles(Segments)
<1>1. /\ of = [id |-> <<demo.bundle.task, 0>>, entry |-> <<"pick", 1>>, nodes |-> GraphNodes(cycles, demo.relations)]
      /\ cycles # <<>> /\ GraphIsSound(of)
  BY ExtractedIs DEF Segments
<1>2. Cardinality(Insertions) = Len(cycles)
  BY ExtractionPairs
<1>3. Len(cycles) \in Nat /\ DOMAIN cycles = 1..Len(cycles)
  <2>1. Len(Segments) \in Nat /\ DOMAIN Segments = 1..Len(Segments)
    BY SegmentsNumbered DEF Segments, Numbered, Listed
  <2>2. \A s : Len(s) \in Nat /\ DOMAIN s = 1..Len(s) =>
           \E ins, gr : PairedBy(OperationCycles(s), s, Len(s), ins, gr)
    BY CyclesArePaired
  <2>3. PICK ins, gr : PairedBy(OperationCycles(Segments), Segments, Len(Segments), ins, gr)
    BY <2>1, <2>2
  <2> QED
    BY <2>3 DEF PairedBy
<1> HIDE DEF cycles
<1>4. GraphIsSound(of) /\ of.nodes = GraphNodes(cycles, demo.relations) /\ of.entry = <<"pick", 1>>
  BY <1>1
<1>5. Len(cycles) >= 1
  BY <1>4, <1>3 DEF GraphIsSound, GraphNodes, CycleLength
<1>6. \A n \in 1..Len(cycles) : CycleFits(SelectLinearActionCycle(of, CycleActions, n - 1), n)
  BY <1>3, <1>4, <1>5, CycleIsSelected
<1> QED
  BY <1>2, <1>6 DEF CyclesBind, CycleFits

(* Every cycle of such a graph, however many there are, is selected,       *)
(* compiles and binds: its nodes lie in the order of its chain, so the     *)
(* four stages that look at the order agree.                               *)
THEOREM CyclesBound == Spec => ExtractedCyclesBind
<1>1. Given /\ [Next]_vars => [Extracts => CyclesBind(graph')]_graph
  <2> SUFFICES ASSUME Given, [Next]_vars, Extracts PROVE CyclesBind(graph')
    OBVIOUS
  <2> QED
    BY ExtractsIs, ExtractionBinds DEF Given
<1> QED
  BY <1>1, DemoIsKept, PTL DEF Spec, ExtractedCyclesBind

(* Which stage of the funnel a run may claim.                              *)
LEMMA FunnelHolds ==
  ASSUME NEW nodes, NEW ok \in BOOLEAN, NEW stages, stages = Funnel(nodes, ok)
  PROVE  /\ "grasp" \in stages <=> NodePassed(nodes, "pick")
         /\ "lift" \in stages <=> NodePassed(nodes, "pick")
         /\ "reorient" \in stages <=> (NodePassed(nodes, "pick") /\ NodePassed(nodes, "reorient"))
         /\ "align" \in stages <=> (NodePassed(nodes, "pick") /\ NodePassed(nodes, "align"))
         /\ "insert" \in stages <=> (NodePassed(nodes, "pick") /\ NodePassed(nodes, "insert") /\ ok)
<1> DEFINE after(action) == NodePassed(nodes, "pick") /\ NodePassed(nodes, action)
           Holds(s) == CASE s \in {"grasp", "lift"} -> NodePassed(nodes, "pick")
                         [] s = "insert" -> after("insert") /\ ok
                         [] OTHER -> after(s)
<1>1. stages = { s \in Range(Stages) : Holds(s) }
  BY DEF Funnel
<1>2. /\ "grasp" \in Range(Stages) /\ "lift" \in Range(Stages) /\ "reorient" \in Range(Stages)
      /\ "align" \in Range(Stages) /\ "insert" \in Range(Stages)
  BY DEF Stages, Range
<1>3. /\ Holds("grasp") <=> NodePassed(nodes, "pick")
      /\ Holds("lift") <=> NodePassed(nodes, "pick")
      /\ Holds("reorient") <=> after("reorient")
      /\ Holds("align") <=> after("align")
      /\ Holds("insert") <=> (after("insert") /\ ok)
  OBVIOUS
<1> HIDE DEF Holds
<1> QED
  BY <1>1, <1>2, <1>3

(* The first that it may not is the one that failed.                       *)
LEMMA FirstFailedIs ==
  ASSUME NEW stages, NEW i \in 1..5, Stages[i] \notin stages, \A j \in 1..(i - 1) : Stages[j] \in stages
  PROVE  FirstFailed(stages) = Stages[i]
<1> DEFINE Fails(k) == Stages[k] \notin stages /\ \A j \in 1..(k - 1) : Stages[j] \in stages
<1>1. DOMAIN Stages = 1..5
  BY DEF Stages
<1>2. \A k \in 1..5 : Fails(k) => k = i
  <2> SUFFICES ASSUME NEW k \in 1..5, Fails(k) PROVE k = i
    OBVIOUS
  <2>1. CASE k < i
    <3>1. k \in 1..(i - 1)
      BY <2>1
    <3> QED
      BY <3>1
  <2>2. CASE i < k
    <3>1. i \in 1..(k - 1)
      BY <2>2
    <3> QED
      BY <3>1
  <2> QED
    BY <2>1, <2>2
<1>3. Fails(i)
  OBVIOUS
<1>4. ~(Range(Stages) \subseteq stages)
  BY <1>1 DEF Range
<1> HIDE DEF Fails
<1>5. (CHOOSE k \in DOMAIN Stages : Fails(k)) = i
  BY <1>1, <1>2, <1>3
<1> QED
  BY <1>4, <1>5 DEF FirstFailed, Fails

LEMMA NoneFailed ==
  ASSUME NEW stages, \A i \in 1..5 : Stages[i] \in stages
  PROVE  FirstFailed(stages) = "none"
<1>1. DOMAIN Stages = 1..5
  BY DEF Stages
<1> QED
  BY <1>1 DEF FirstFailed, Range

(* A report of a run: which nodes it came to, and how many of them passed. *)
ReportIs(nodes, chain, reached, passed) ==
  nodes = [i \in 1..reached |-> [action |-> ActionOf(chain[i]), passed |-> i <= passed]]

LEMMA PassedIs ==
  ASSUME NEW chain, Repeats(chain), NEW reached \in 1..Len(chain), NEW passed \in Nat,
         passed = reached \/ passed + 1 = reached,
         NEW nodes, ReportIs(nodes, chain, reached, passed),
         NEW j \in 1..5
  PROVE  /\ j <= passed /\ (passed = reached \/ (passed % 5) + 1 # j) => NodePassed(nodes, CycleIds[j])
         /\ passed + 1 = reached /\ (passed % 5) + 1 = j => ~NodePassed(nodes, CycleIds[j])
<1> DEFINE of == { i \in DOMAIN nodes : nodes[i].action = CycleIds[j] }
<1>1. /\ DOMAIN nodes = 1..reached
      /\ \A i \in 1..reached : nodes[i].action = ActionOf(chain[i]) /\ nodes[i].passed = (i <= passed)
  BY DEF ReportIs
<1>2. CycleActions = CycleIds /\ Len(chain) \in Nat
  BY ControllersAssumption DEF CycleIds, Repeats
<1>3. ASSUME NEW i \in 1..reached
      PROVE  nodes[i].action = CycleIds[((i - 1) % 5) + 1] /\ ((i - 1) % 5) + 1 \in 1..5
  <2>1. i \in 1..Len(chain)
    BY <1>2
  <2>2. ActionOf(chain[i]) = CycleActions[((i - 1) % CycleLength) + 1]
    BY <2>1 DEF Repeats
  <2>3. CycleLength = 5
    BY DEF CycleLength
  <2>4. i - 1 \in Nat
    BY <2>1
  <2>5. ((i - 1) % 5) + 1 \in 1..5
    BY <2>4
  <2> QED
    BY <2>2, <2>3, <2>5, <1>1, <1>2
<1>4. ASSUME NEW i \in 1..reached PROVE i \in of <=> ((i - 1) % 5) + 1 = j
  BY <1>1, <1>3, IdsDiffer
<1>5. NodePassed(nodes, CycleIds[j]) <=> (of # {} /\ \A i \in of : i <= passed)
  BY <1>1 DEF NodePassed
<1>6. of \subseteq 1..reached
  BY <1>1
<1> HIDE DEF of
<1>7. ASSUME j <= passed, passed = reached \/ (passed % 5) + 1 # j PROVE NodePassed(nodes, CycleIds[j])
  <2>1. j \in 1..reached /\ ((j - 1) % 5) + 1 = j
    BY <1>7, <1>2
  <2>2. j \in of
    BY <2>1, <1>4
  <2>3. ASSUME NEW i \in of PROVE i <= passed
    <3> SUFFICES ASSUME ~(i <= passed) PROVE FALSE
      OBVIOUS
    <3>1. i \in 1..reached
      BY <1>6
    <3>2. i = reached /\ reached = passed + 1 /\ i - 1 = passed
      BY <3>1, <1>2
    <3>3. ((i - 1) % 5) + 1 = j
      BY <3>1, <1>4
    <3> QED
      BY <3>2, <3>3, <1>7
  <2> QED
    BY <2>2, <2>3, <1>5
<1>8. ASSUME passed + 1 = reached, (passed % 5) + 1 = j PROVE ~NodePassed(nodes, CycleIds[j])
  <2>1. reached \in 1..reached /\ reached - 1 = passed /\ ~(reached <= passed)
    BY <1>8, <1>2
  <2>2. reached \in of
    BY <2>1, <1>8, <1>4
  <2> QED
    BY <2>1, <2>2, <1>5
<1> QED
  BY <1>7, <1>8

(* What FunnelBlamesTheFailure asks of each result.                        *)
Blamed(of) == of.there => of.first = IF of.ok THEN "none" ELSE StageOfFailure(of.nodes)

(* The last node a run came to.                                            *)
LEMMA LastOf ==
  ASSUME NEW chain, Repeats(chain), NEW reached \in 1..Len(chain), NEW passed \in Nat,
         NEW nodes, ReportIs(nodes, chain, reached, passed)
  PROVE  Last(nodes).passed = (reached <= passed) /\ Last(nodes).action = CycleIds[((reached - 1) % 5) + 1]
<1>1. Len(chain) \in Nat /\ CycleActions = CycleIds
  BY ControllersAssumption DEF CycleIds, Repeats
<1>2. reached \in Nat /\ reached \in 1..reached
  BY <1>1
<1>3. Len(nodes) = reached /\ nodes[reached] = [action |-> ActionOf(chain[reached]), passed |-> reached <= passed]
  BY <1>2 DEF ReportIs
<1>4. ActionOf(chain[reached]) = CycleIds[((reached - 1) % 5) + 1]
  BY <1>1 DEF Repeats, CycleLength
<1> QED
  BY <1>3, <1>4 DEF Last

(* A run that fails in a node has passed all before it in the cycle; one   *)
(* that passed all it came to is at the end, or out of visits.             *)
LEMMA ResultIsBlamed ==
  ASSUME NEW chain, Repeats(chain), NEW passed \in RunLengths, passed <= Len(chain), passed <= MaxNodeVisits
  PROVE  Blamed(PolicyResult(chain, passed))
<1> DEFINE reached == IF passed < Len(chain) /\ passed < MaxNodeVisits THEN passed + 1 ELSE passed
           nodes == [i \in 1..reached |-> [action |-> ActionOf(chain[i]), passed |-> i <= passed]]
           ok == passed = Len(chain) /\ passed < MaxNodeVisits
           stages == Funnel(nodes, ok)
           result_ == PolicyResult(chain, passed)
           NP(j) == NodePassed(nodes, CycleIds[j])
           k == (passed % 5) + 1
<1>1. passed \in Nat /\ MaxNodeVisits \in Nat /\ MaxNodeVisits >= 3 /\ Len(chain) \in Nat /\ Len(chain) >= 5
  BY ControllersAssumption DEF Repeats, CycleLength
<1>2. result_.there /\ result_.ok = ok /\ result_.nodes = nodes /\ result_.first = FirstFailed(stages)
  BY DEF PolicyResult
<1>3. ReportIs(nodes, chain, reached, passed)
  BY DEF ReportIs
<1>4. /\ reached \in 1..Len(chain) /\ (passed = reached \/ passed + 1 = reached) /\ ok \in BOOLEAN
      /\ passed = reached => passed = Len(chain) \/ passed = MaxNodeVisits
      /\ passed + 1 = reached => ~ok
      /\ k \in 1..5
  BY <1>1
<1>5. /\ CycleIds[1] = "pick" /\ CycleIds[2] = "reorient" /\ CycleIds[3] = "align"
      /\ CycleIds[4] = "insert" /\ CycleIds[5] = "verify"
      /\ Stages[1] = "grasp" /\ Stages[2] = "lift" /\ Stages[3] = "reorient" /\ Stages[4] = "align"
      /\ Stages[5] = "insert"
  BY DEF CycleIds, Stages
<1> HIDE DEF nodes, stages, reached, ok, result_, k
<1>6. /\ "grasp" \in stages <=> NP(1)
      /\ "lift" \in stages <=> NP(1)
      /\ "reorient" \in stages <=> (NP(1) /\ NP(2))
      /\ "align" \in stages <=> (NP(1) /\ NP(3))
      /\ "insert" \in stages <=> (NP(1) /\ NP(4) /\ ok)
  BY <1>4, <1>5, FunnelHolds DEF stages
<1>7. ASSUME NEW j \in 1..5
      PROVE  /\ j <= passed /\ (passed = reached \/ k # j) => NP(j)
             /\ passed + 1 = reached /\ k = j => ~NP(j)
  BY <1>1, <1>3, <1>4, PassedIs DEF k
<1>8. Last(nodes).passed = (reached <= passed) /\ Last(nodes).action = CycleIds[((reached - 1) % 5) + 1]
  BY <1>1, <1>3, <1>4, LastOf
<1> HIDE DEF NP
<1>9. CASE passed + 1 = reached
  <2>1. Last(nodes).passed = FALSE /\ Last(nodes).action = CycleIds[k] /\ ok = FALSE
    <3>1. reached - 1 = passed /\ ~(reached <= passed)
      BY <1>1, <1>9
    <3> QED
      BY <3>1, <1>4, <1>8, <1>9 DEF k
  <2>2. \A j \in 1..(k - 1) : j \in 1..5 /\ NP(j)
    <3> SUFFICES ASSUME NEW j \in 1..(k - 1) PROVE j \in 1..5 /\ NP(j)
      OBVIOUS
    <3>1. k - 1 <= passed
      BY <1>1 DEF k
    <3>2. j \in 1..5 /\ j <= passed /\ k # j
      BY <3>1, <1>1, <1>4
    <3> QED
      BY <3>2, <1>7
  <2>3. ~NP(k)
    BY <1>4, <1>7, <1>9
  <2>4. StageOfFailure(nodes) = CASE CycleIds[k] = "pick" -> "grasp"
         [] CycleIds[k] = "verify" -> "insert"
         [] OTHER -> CycleIds[k]
    BY <2>1 DEF StageOfFailure
  <2>5. result_.first = FirstFailed(stages) /\ result_.ok = FALSE
    BY <1>2, <2>1
  <2>6. FirstFailed(stages) = StageOfFailure(nodes)
    <3>1. CASE k = 1
      <4>1. "grasp" \notin stages /\ \A j \in 1..(1 - 1) : Stages[j] \in stages
        BY <3>1, <2>3, <1>6
      <4>2. FirstFailed(stages) = Stages[1]
        BY <4>1, <1>5, FirstFailedIs
      <4> QED
        BY <4>2, <3>1, <2>4, <1>5
    <3>2. CASE k = 2
      <4>1. NP(1)
        BY <3>2, <2>2
      <4>2. /\ Stages[3] \notin stages /\ Stages[1] \in stages /\ Stages[2] \in stages
        BY <4>1, <3>2, <2>3, <1>5, <1>6
      <4>3. \A j \in 1..(3 - 1) : j = 1 \/ j = 2
        OBVIOUS
      <4>4. FirstFailed(stages) = Stages[3]
        BY <4>2, <4>3, FirstFailedIs
      <4> QED
        BY <4>4, <3>2, <2>4, <1>5
    <3>3. CASE k = 3
      <4>1. NP(1) /\ NP(2)
        BY <3>3, <2>2
      <4>2. /\ Stages[4] \notin stages /\ Stages[1] \in stages /\ Stages[2] \in stages /\ Stages[3] \in stages
        BY <4>1, <3>3, <2>3, <1>5, <1>6
      <4>3. \A j \in 1..(4 - 1) : j = 1 \/ j = 2 \/ j = 3
        OBVIOUS
      <4>4. FirstFailed(stages) = Stages[4]
        BY <4>2, <4>3, FirstFailedIs
      <4> QED
        BY <4>4, <3>3, <2>4, <1>5
    <3>4. CASE k = 4 \/ k = 5
      <4>1. NP(1) /\ NP(2) /\ NP(3)
        BY <3>4, <2>2
      <4>2. /\ Stages[5] \notin stages /\ Stages[1] \in stages /\ Stages[2] \in stages /\ Stages[3] \in stages
            /\ Stages[4] \in stages
        BY <4>1, <2>1, <1>5, <1>6
      <4>3. \A j \in 1..(5 - 1) : j = 1 \/ j = 2 \/ j = 3 \/ j = 4
        OBVIOUS
      <4>4. FirstFailed(stages) = Stages[5]
        BY <4>2, <4>3, FirstFailedIs
      <4> QED
        BY <4>4, <3>4, <2>4, <1>5
    <3> QED
      BY <1>4, <3>1, <3>2, <3>3, <3>4
  <2> QED
    BY <2>5, <2>6, <1>2 DEF Blamed, result_
<1>10. CASE passed = reached
  <2>1. passed >= 3 /\ (ok => passed >= 5) /\ Last(nodes).passed = TRUE
    <3>1. passed = Len(chain) \/ passed = MaxNodeVisits
      BY <1>4, <1>10
    <3>2. passed >= 3
      BY <3>1, <1>1
    <3>3. ok => passed >= 5
      BY <1>1 DEF ok
    <3>4. reached <= passed
      BY <1>1, <1>10
    <3>5. Last(nodes).passed = TRUE
      BY <3>4, <1>8
    <3> QED
      BY <3>2, <3>3, <3>5
  <2>2. NP(1) /\ NP(2) /\ NP(3) /\ (ok => NP(4))
    <3>1. \A j \in 1..5 : j <= passed => NP(j)
      BY <1>7, <1>10
    <3> QED
      BY <3>1, <2>1, <1>1
  <2>3. Stages[1] \in stages /\ Stages[2] \in stages /\ Stages[3] \in stages /\ Stages[4] \in stages
    BY <2>2, <1>5, <1>6
  <2>4. CASE ok
    <3>1. Stages[5] \in stages
      BY <2>2, <2>4, <1>5, <1>6
    <3>2. \A i \in 1..5 : i = 1 \/ i = 2 \/ i = 3 \/ i = 4 \/ i = 5
      OBVIOUS
    <3>3. FirstFailed(stages) = "none"
      BY <2>3, <3>1, <3>2, NoneFailed
    <3> QED
      BY <3>3, <2>4, <1>2 DEF Blamed, result_
  <2>5. CASE ~ok
    <3>1. Stages[5] \notin stages
      BY <2>5, <1>5, <1>6
    <3>2. \A j \in 1..(5 - 1) : j = 1 \/ j = 2 \/ j = 3 \/ j = 4
      OBVIOUS
    <3>3. FirstFailed(stages) = "insert"
      BY <2>3, <3>1, <3>2, <1>5, FirstFailedIs
    <3>4. StageOfFailure(nodes) = "insert"
      BY <2>1 DEF StageOfFailure
    <3> QED
      BY <3>3, <3>4, <2>5, <1>2 DEF Blamed, result_
  <2> QED
    BY <2>4, <2>5
<1> QED
  BY <1>4, <1>9, <1>10 DEF result_

(* The chain of an extracted graph repeats the cycle.                      *)
LEMMA ExtractedRepeats ==
  ASSUME NEW d \in Demonstrations, NEW of, of = ExtractConstraintGraph(d), of # NoGraph
  PROVE  Repeats(LinearNodes(of))
<1> DEFINE cycles == OperationCycles(SegmentsUsed(d.bundle, d.refined))
           nodes == GraphNodes(cycles, d.relations)
<1>1. of.nodes = nodes /\ of.entry = <<"pick", 1>> /\ GraphIsSound(of)
  BY ExtractedIs
<1>2. Len(cycles) \in Nat
  <2>1. \A s : Len(s) \in Nat /\ DOMAIN s = 1..Len(s) =>
           \E ins, gr : PairedBy(OperationCycles(s), s, Len(s), ins, gr)
    BY CyclesArePaired
  <2>2. Len(SegmentsUsed(d.bundle, d.refined)) \in Nat
        /\ DOMAIN SegmentsUsed(d.bundle, d.refined) = 1..Len(SegmentsUsed(d.bundle, d.refined))
    BY SegmentsNumbered DEF Numbered, Listed
  <2> DEFINE segments == SegmentsUsed(d.bundle, d.refined)
  <2> HIDE DEF segments
  <2>3. PICK ins, gr : PairedBy(OperationCycles(segments), segments, Len(segments), ins, gr)
    BY <2>1, <2>2 DEF segments
  <2> QED
    BY <2>3 DEF PairedBy, segments
<1> HIDE DEF cycles
<1>3. Len(cycles) >= 1
  BY <1>1, <1>2 DEF GraphIsSound, GraphNodes, CycleLength
<1>4. LinearNodes(of) = nodes
  <2>1. Chained(of)
    BY <1>1, <1>2, <1>3, CyclesChain
  <2> QED
    BY <2>1, <1>1, ChainIsList
<1>5. Len(nodes) = 5 * Len(cycles) /\ DOMAIN nodes = 1..(5 * Len(cycles))
  BY <1>2, NodesAre DEF CycleLength
<1>6. ASSUME NEW i \in 1..Len(nodes) PROVE ActionOf(nodes[i]) = CycleActions[((i - 1) % CycleLength) + 1]
  <2>1. PICK n \in 1..Len(cycles), j \in 1..5 : i = Place(n, j)
    <3> HIDE DEF nodes
    <3>1. i \in 1..(CycleLength * Len(cycles))
      BY <1>5 DEF CycleLength
    <3> QED
      BY <1>2, <3>1, PlaceIs
  <2>2. n \in Nat /\ ((i - 1) % CycleLength) + 1 = j
    <3> HIDE DEF nodes
    <3>1. ((Place(n, j) - 1) % CycleLength) + 1 = j
      BY <1>2, PlaceIs
    <3> QED
      BY <1>2, <2>1, <3>1
  <2>3. nodes[i] = CycleNodes(cycles, d.relations, n)[j]
    BY <1>2, <2>1, NodeAt
  <2>4. PartIs(cycles, d.relations, n, j)
    BY <2>2, PartsAre
  <2>5. nodes[i].id = <<CycleIds[j], n>>
    BY <2>3, <2>4 DEF PartIs
  <2>6. CycleActions = CycleIds
    BY ControllersAssumption DEF CycleIds
  <2> QED
    BY <2>2, <2>5, <2>6 DEF ActionOf
<1> HIDE DEF nodes
<1>7. Len(nodes) \in Nat /\ Len(nodes) >= CycleLength
  BY <1>2, <1>3, <1>5 DEF CycleLength
<1> QED
  BY <1>4, <1>6, <1>7 DEF Repeats

(* The graph file is one that was extracted, or one written by hand.       *)
Known == graph = NoGraph \/ graph \in HandGraphs
         \/ \E d \in Demonstrations : graph = ExtractConstraintGraph(d) /\ graph # NoGraph
Blame ==
  /\ Blamed(result)
  /\ \A d \in Dirs : DOMAIN results[d] = Seeds /\ \A s \in Seeds : Blamed(results[d][s])
BlameInv == Inv /\ Given /\ Known /\ Blame

LEMMA LoadedRepeats ==
  ASSUME Known, Loaded # NoGraph, IsLinear(Loaded)
  PROVE  Repeats(LinearNodes(Loaded))
<1>1. Loaded = graph /\ GraphIsSound(graph) /\ graph # NoGraph
  BY DEF Loaded
<1>2. CASE graph \in HandGraphs
  BY <1>1, <1>2, FunnelAssumption
<1>3. CASE \E d \in Demonstrations : graph = ExtractConstraintGraph(d) /\ graph # NoGraph
  BY <1>1, <1>3, ExtractedRepeats
<1> QED
  BY <1>1, <1>2, <1>3 DEF Known

LEMMA NothingIsBlamed == Blamed(NoResult)
BY DEF Blamed, NoResult

LEMMA BlameInit == Init => BlameInv
<1> SUFFICES ASSUME Init PROVE Given /\ Known /\ Blame
  BY BuildInitInv DEF BlameInv
<1>1. Given /\ Known /\ result = NoResult /\ results = [d \in Dirs |-> [s \in Seeds |-> NoResult]]
  BY DEF Init, Given, Known
<1> QED
  BY <1>1, NothingIsBlamed DEF Blame

(* A step that leaves the results alone, and what is in hand or drops it.  *)
LEMMA BlameStays ==
  ASSUME Blame, UNCHANGED results, result' = result \/ result' = NoResult
  PROVE  Blame'
<1>1. Blamed(result')
  BY NothingIsBlamed DEF Blame
<1> QED
  BY <1>1 DEF Blame

LEMMA BlameCall ==
  ASSUME Known, Blame, CallBackend
  PROVE  Blame'
<1>1. Loaded # NoGraph /\ IsLinear(Loaded) /\ UNCHANGED results
  BY DEF CallBackend, dirs
<1>2. PICK passed \in RunLengths :
        /\ passed <= Len(LinearNodes(Loaded)) /\ passed <= MaxNodeVisits
        /\ result' = PolicyResult(LinearNodes(Loaded), passed)
  BY DEF CallBackend
<1>3. Blamed(result')
  BY <1>1, <1>2, LoadedRepeats, ResultIsBlamed
<1> QED
  BY <1>1, <1>3 DEF Blame

(* A result is written where its seed is, and nowhere else.                *)
LEMMA BlameWritten ==
  ASSUME Inv, Blame, WriteResult
  PROVE  Blame'
<1>1. CASE ~IsFrozen
  BY <1>1, BlameStays DEF WriteResult, Finish
<1>2. CASE IsFrozen
  <2>1. results' = [results EXCEPT ![command.dir][Head(todo)] = result] /\ result' = result
    BY <1>2 DEF WriteResult, inHand
  <2>2. command.dir \in Dirs /\ results = [d \in Dirs |-> results[d]]
    BY DEF Inv, BuildTypeOK, Tables
  <2>3. ASSUME NEW d \in Dirs PROVE DOMAIN results'[d] = Seeds /\ \A s \in Seeds : Blamed(results'[d][s])
    <3>1. DOMAIN results[d] = Seeds /\ \A s \in Seeds : Blamed(results[d][s])
      BY DEF Blame
    <3>2. results'[d] = IF d = command.dir THEN [results[d] EXCEPT ![Head(todo)] = result] ELSE results[d]
      BY <2>1, <2>2
    <3>3. \A s \in Seeds : results'[d][s] = results[d][s] \/ results'[d][s] = result
      BY <3>1, <3>2
    <3>4. DOMAIN results'[d] = Seeds
      BY <3>1, <3>2
    <3>5. Blamed(result)
      BY DEF Blame
    <3> QED
      BY <3>1, <3>3, <3>4, <3>5
  <2> QED
    BY <2>1, <2>3 DEF Blame
<1> QED
  BY <1>1, <1>2

(* Only the extractor and whoever writes by hand change the graph.         *)
LEMMA KnownStays ==
  ASSUME Given, Known, [Next]_vars
  PROVE  Known'
<1>1. CASE Extract
  BY <1>1 DEF Extract, Known, Given
<1>2. CASE EditGraph
  BY <1>2 DEF EditGraph, Known
<1>3. CASE UNCHANGED graph
  BY <1>3 DEF Known
<1>4. CASE UNCHANGED vars
  BY <1>3, <1>4 DEF vars
<1>5. CASE (\E index \in 0..2 : CompileCycle(index)) \/ Scan \/ BindFrozen
  BY <1>3, <1>5 DEF CompileCycle, Scan, BindFrozen
<1>6. CASE \E dir \in Dirs, count \in {InitialCount, Len(HeldOut)} : StartSeeds(dir, count)
  BY <1>3, <1>6 DEF StartSeeds
<1>7. CASE Freeze \/ BeforeSeed \/ CallBackend \/ WriteResult \/ WriteManifest \/ WriteReport \/ GiveUp \/ EditPolicy
  BY <1>3, <1>7 DEF Freeze, BeforeSeed, CallBackend, WriteResult, WriteManifest, WriteReport, GiveUp, EditPolicy
<1> QED
  BY <1>1, <1>2, <1>4, <1>5, <1>6, <1>7 DEF Next

LEMMA BlameKeeps ==
  ASSUME Inv, Known, Blame, [Next]_vars
  PROVE  Blame'
<1>1. CASE Extract
  BY <1>1, BlameStays DEF Extract, inHand, dirs
<1>2. CASE \E index \in 0..2 : CompileCycle(index)
  BY <1>2, BlameStays DEF CompileCycle, dirs
<1>3. CASE Scan \/ BindFrozen \/ BeforeSeed \/ GiveUp
  BY <1>3, BlameStays DEF Scan, BindFrozen, BeforeSeed, GiveUp, Finish, inHand, dirs
<1>4. CASE \E dir \in Dirs, count \in {InitialCount, Len(HeldOut)} : StartSeeds(dir, count)
  BY <1>4, BlameStays DEF StartSeeds, dirs
<1>5. CASE Freeze \/ WriteManifest \/ WriteReport
  BY <1>5, BlameStays DEF Freeze, WriteManifest, WriteReport, Finish
<1>6. CASE EditPolicy \/ EditGraph
  BY <1>6, BlameStays DEF EditPolicy, EditGraph, Beside, inHand, dirs
<1>7. CASE UNCHANGED vars
  BY <1>7, BlameStays DEF vars, inHand, dirs
<1> QED
  BY <1>1, <1>2, <1>3, <1>4, <1>5, <1>6, <1>7, BlameCall, BlameWritten DEF Next

(* For any graph that repeats the cycle, of any length, and wherever a run *)
(* over it ends, the first failed stage of a result is that of the node    *)
(* which failed, and there is none if and only if the policy succeeded.    *)
THEOREM FunnelIsRight == Spec => []FunnelBlamesTheFailure
<1>1. BlameInv /\ [Next]_vars => BlameInv'
  <2> SUFFICES ASSUME BlameInv, [Next]_vars PROVE BlameInv'
    OBVIOUS
  <2>1. Inv' /\ Known' /\ Blame'
    BY NextInv, KnownStays, BlameKeeps DEF BlameInv
  <2>2. Given'
    BY DemoStays DEF BlameInv
  <2> QED
    BY <2>1, <2>2 DEF BlameInv
<1>2. BlameInv => FunnelBlamesTheFailure
  BY DEF BlameInv, Blame, Blamed, FunnelBlamesTheFailure
<1> QED
  BY BlameInit, <1>1, <1>2, PTL DEF Spec
=============================================================================
