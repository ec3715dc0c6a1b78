------------------------- MODULE MCAgentController -------------------------
(* AgentController with what happens in its .cfg files.                    *)
EXTENDS AgentController

(* Every way a run can go; frames not looked at, or by either schema; the  *)
(* judges silent, at one, at odds and undecided.                           *)
Everything ==
  [runs |-> Runs, visuals |-> {"none", "still", "changed"},
   verdicts |-> {<<"none", "none">>, <<"pass", "none">>, <<"fail", "none">>, <<"none", "pass">>,
                 <<"none", "fail">>, <<"fail", "pass">>, <<"none", "unclear">>}]

=============================================================================
