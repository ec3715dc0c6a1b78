------------------------- MODULE MCStagedExperiment -------------------------
(* StagedExperiment with every selection of a guide's stages.              *)
EXTENDS StagedExperiment

MCPlans == { SelectSeq(<<"bind", "pick", "other", "home">>, LAMBDA k : k \in wanted) :
               wanted \in SUBSET Kinds }
MCLifecycles == {{}, {"pick"}}
=============================================================================
