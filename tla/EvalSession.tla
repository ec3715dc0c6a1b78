---------------------------- MODULE EvalSession ----------------------------
(***************************************************************************)
(* KnowinWorldAdapter (adapters/knowin_world/adapter.py): the trusted      *)
(* client of the EvalServer, one reset / skill* / finalize episode at a    *)
(* time.  Every operation is one HTTP exchange during which the caller     *)
(* waits; it may fail on the way there or on the way back, and a request   *)
(* the client has given up may still be served later.  The server and the  *)
(* pipeline behind it are not in the repository: they are modelled from    *)
(* what the adapter asks of them and tests in their answers.               *)
(***************************************************************************)
EXTENDS Naturals, Sequences

CONSTANTS MaxRuns,  \* bound: resets the server serves
          MaxCalls, \* bound: operations the adapter's caller makes
          Faults    \* subset of {"lost", "malformed"}: what goes wrong in an exchange

Kinds == {"reset", "skill", "finalize"}

ASSUME BoundAssumption ==
  /\ MaxRuns \in Nat \ {0} /\ MaxCalls \in Nat
  /\ Faults \subseteq {"lost", "malformed"}

VARIABLES
  session,    \* the active session's run (0 for None); its id stands for both ids
  poisoned,   \* _poisoned
  call,       \* the operation that waits for its exchange, "none" outside one
  stage,      \* where that exchange is: "idle", "sent", "running" or "answered"
  answer,     \* the response on its way back
  late,       \* the requests given up by the client that may still be served
  run,        \* server: the current run
  open,       \* server: the current run is not finalized yet
  busy,       \* pipeline: a skill is moving the robot
  strays,     \* history: runs in which a skill given up before was served
  made,       \* history: operations made so far
  finals,     \* history: the OracleFinalRecords returned
  rejected,   \* history: runs in which a skill response was rejected
  unsettled   \* history: a skill of this session was not proved to have ended

client == <<session, poisoned, finals, rejected, unsettled>>
server == <<run, open, busy, strays>>
exchange == <<call, stage, answer, late, made>>
sessionVars == <<client, server, exchange>>

NoAnswer == [run |-> 0, complete |-> FALSE, same |-> FALSE, queue |-> FALSE,
             quiet |-> FALSE, terminal |-> FALSE, typed |-> FALSE]

SessionInit ==
  /\ session = 0 /\ poisoned = FALSE /\ finals = <<>> /\ rejected = {} /\ unsettled = FALSE
  /\ call = "none" /\ stage = "idle" /\ answer = NoAnswer /\ late = {} /\ made = 0
  /\ run = 0 /\ open = FALSE /\ busy = FALSE /\ strays = {}

-----------------------------------------------------------------------------
(* The operations, up to the exchange.                                     *)

Send(kind) ==
  /\ stage = "idle" /\ made < MaxCalls
  /\ call' = kind /\ stage' = "sent" /\ made' = made + 1
  /\ UNCHANGED <<answer, late, server, client>>

(* Mutant: the poison is cleared before the reset is known to have worked. *)
ResetClearsFirst ==
  /\ stage = "idle" /\ made < MaxCalls
  /\ call' = "reset" /\ stage' = "sent" /\ made' = made + 1
  /\ poisoned' = FALSE
  /\ UNCHANGED <<answer, late, server, session, finals, rejected, unsettled>>

Reset == Send("reset")

ExecuteSkill == session # 0 /\ Send("skill")
Finalize == session # 0 /\ ~poisoned /\ Send("finalize")

(* The exchange is over, whatever came of it.                              *)
Done == call' = "none" /\ stage' = "idle" /\ answer' = NoAnswer

(* EvalTransportError or a timeout out of request(): nothing is recorded.  *)
(* A request that has not been served may still arrive.                    *)
TransportFails ==
  /\ "lost" \in Faults /\ stage # "idle"
  /\ Done
  /\ \/ UNCHANGED late
     \/ stage = "sent" /\ late' = late \cup {call}
  /\ unsettled' = (unsettled \/ call = "skill")
  /\ UNCHANGED <<session, poisoned, finals, rejected, server, made>>

-----------------------------------------------------------------------------
(* What the operations do with the answer.                                 *)

Receive(kind) == stage = "answered" /\ call = kind /\ Done /\ UNCHANGED <<late, made, server>>

ResetReturns ==
  /\ Receive("reset") /\ answer.complete /\ answer.same
  /\ session' = answer.run /\ poisoned' = FALSE /\ unsettled' = FALSE
  /\ UNCHANGED <<finals, rejected>>

ResetRejected ==
  /\ Receive("reset") /\ ~(answer.complete /\ answer.same)
  /\ UNCHANGED client

(* A response without run_id, path or status is an error that poisons      *)
(* nothing.                                                                *)
SkillIncomplete ==
  /\ Receive("skill") /\ ~answer.complete
  /\ unsettled' = TRUE
  /\ UNCHANGED <<session, poisoned, finals, rejected>>

(* Mutant: the pipeline is taken to be at rest because the skill ended.    *)
ProvesTerminal == answer.same /\ answer.run = session /\ answer.queue /\ answer.terminal

(* The response proves what a receipt has to prove.                        *)
Proves == answer.same /\ answer.run = session /\ answer.queue /\ answer.quiet /\ answer.terminal

SkillRejected ==
  /\ Receive("skill") /\ answer.complete /\ ~Proves
  /\ poisoned' = TRUE
  /\ rejected' = rejected \cup {session} /\ unsettled' = TRUE
  /\ UNCHANGED <<session, finals>>

(* A SkillReceipt, or an error about duration_s or error of a response     *)
(* that did prove quiescence: neither changes the adapter.                 *)
SkillReturns ==
  /\ Receive("skill") /\ answer.complete /\ Proves
  /\ UNCHANGED client

(* Mutant: the record of whatever run the server is in is taken.           *)
MatchesAny == answer.complete

Matches == answer.complete /\ answer.run = session

FinalizeReturns ==
  /\ Receive("finalize") /\ Matches /\ answer.typed
  /\ finals' = Append(finals, [run |-> session, of |-> answer.run,
                               quiet |-> answer.quiet, settled |-> ~unsettled])
  /\ session' = 0
  /\ UNCHANGED <<poisoned, rejected, unsettled>>

FinalizeRejected ==
  /\ Receive("finalize") /\ ~(Matches /\ answer.typed)
  /\ UNCHANGED client

-----------------------------------------------------------------------------
(* The server and the pipeline, as the adapter has to expect them.         *)

(* A new run starts in a pipeline at rest.                                 *)
NewRun ==
  run < MaxRuns /\ run' = run + 1 /\ open' = TRUE /\ busy' = FALSE /\ UNCHANGED strays

Reply(a) == stage' = "answered" /\ answer' = a /\ UNCHANGED <<call, late, made, client>>

Flags == IF "malformed" \in Faults THEN BOOLEAN ELSE {TRUE}

ServeReset ==
  /\ stage = "sent" /\ call = "reset" /\ NewRun
  /\ \E complete, same \in Flags :
       Reply([NoAnswer EXCEPT !.run = run + 1, !.complete = complete, !.same = same])

StartSkill ==
  /\ stage = "sent" /\ call = "skill" /\ open
  /\ stage' = "running" /\ busy' = TRUE
  /\ UNCHANGED <<call, answer, late, made, run, open, strays, client>>

(* The pipeline comes to rest by itself.                                   *)
SkillStops == busy /\ busy' = FALSE /\ UNCHANGED <<run, open, strays, exchange, client>>

(* The server polls until the skill ends or it no longer cares; it claims  *)
(* quiescence only of a pipeline at rest.                                  *)
AnswerSkill ==
  /\ stage = "running"
  /\ \E complete, same, typed \in Flags, queue, terminal \in BOOLEAN, quiet \in {FALSE, ~busy} :
       Reply([run |-> run, complete |-> complete, same |-> same, queue |-> queue,
              quiet |-> quiet, terminal |-> terminal, typed |-> typed])
  /\ UNCHANGED server

(* A final record; answer.quiet is what was true of the pipeline then.     *)
AnswerFinalize ==
  /\ stage = "sent" /\ call = "finalize" /\ open /\ open' = FALSE
  /\ \E complete, typed \in Flags :
       Reply([NoAnswer EXCEPT !.run = run, !.complete = complete, !.same = TRUE,
                              !.quiet = ~busy, !.typed = typed])
  /\ UNCHANGED <<run, busy, strays>>

(* An HTTP error: there is no open run to serve the request in.            *)
Refuse ==
  /\ stage = "sent" /\ ~open /\ call # "reset"
  /\ Done
  /\ UNCHANGED <<client, server, late, made>>

(* A request its client no longer waits for is served all the same.        *)
ServeLate(kind) ==
  /\ kind \in late /\ late' = late \ {kind}
  /\ CASE kind = "reset" -> NewRun
       [] kind = "skill" -> /\ open /\ busy' = TRUE
                              /\ strays' = strays \cup {run} /\ UNCHANGED <<run, open>>
       [] kind = "finalize" -> open /\ open' = FALSE /\ UNCHANGED <<run, busy, strays>>
  /\ UNCHANGED <<call, stage, answer, made, client>>

(* The server is shared: another client resets it.                         *)
OtherClientResets == NewRun /\ UNCHANGED <<exchange, client>>

-----------------------------------------------------------------------------
Operations == Reset \/ ExecuteSkill \/ Finalize \/ TransportFails

Returns == \/ ResetReturns \/ ResetRejected \/ SkillIncomplete \/ SkillRejected
           \/ SkillReturns \/ FinalizeReturns \/ FinalizeRejected

Server == \/ ServeReset \/ StartSkill \/ SkillStops \/ AnswerSkill \/ AnswerFinalize
          \/ Refuse \/ OtherClientResets \/ \E kind \in Kinds : ServeLate(kind)

SessionNext == Operations \/ Returns \/ Server

SessionSpec == SessionInit /\ [][SessionNext]_sessionVars

-----------------------------------------------------------------------------
(* Properties.                                                             *)

Answers == [run: 0..MaxRuns, complete: BOOLEAN, same: BOOLEAN, queue: BOOLEAN,
            quiet: BOOLEAN, terminal: BOOLEAN, typed: BOOLEAN]

(* The state is well typed, and an exchange is either idle with nothing    *)
(* left of it or belongs to one operation.                                 *)
TypeOK ==
  /\ session \in 0..MaxRuns /\ poisoned \in BOOLEAN
  /\ stage \in {"idle", "sent", "running", "answered"}
  /\ call \in Kinds \cup {"none"} /\ (stage = "idle" <=> call = "none")
  /\ answer \in Answers /\ late \subseteq Kinds
  /\ run \in 0..MaxRuns /\ open \in BOOLEAN /\ busy \in BOOLEAN /\ made \in 0..MaxCalls
  /\ finals \in Seq([run: 1..MaxRuns, of: 1..MaxRuns, quiet: BOOLEAN, settled: BOOLEAN])
  /\ rejected \subseteq 1..MaxRuns /\ unsettled \in BOOLEAN /\ strays \subseteq 0..MaxRuns

(* No final record is returned for a run in which a skill response was     *)
(* rejected, whatever lost resets, retries and other clients come between: *)
(* the poison outlives everything but a new run.                           *)
RejectedRunsNeverFinal == \A i \in DOMAIN finals : finals[i].run \notin rejected

(* A run's final record is returned at most once, and it is the record of  *)
(* the run the caller's session is in, not of the run of a client that     *)
(* reset the server meanwhile, nor of a reset whose answer was lost.       *)
FinalIsOwnAndOnce ==
  /\ \A i \in DOMAIN finals : finals[i].of = finals[i].run
  /\ \A i, j \in DOMAIN finals : finals[i].run = finals[j].run => i = j

(* The final record of a session whose every skill was proved to have      *)
(* ended describes a pipeline at rest, whatever was lost and whoever else  *)
(* was there, unless a skill given up in an earlier session was served in  *)
(* this run.                                                               *)
SettledFinalIsQuiet ==
  \A i \in DOMAIN finals :
    finals[i].settled /\ finals[i].of \notin strays => finals[i].quiet

=============================================================================
