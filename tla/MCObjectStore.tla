--------------------------- MODULE MCObjectStore ---------------------------
(* ObjectStoreCheckpoint for TLC.  Workers are numbered as ranks are: with  *)
(* one pipeline stage the second rank is a replica that only reads the      *)
(* shard of the first, with two each of them writes its own.                *)
EXTENDS ObjectStoreCheckpoint

TwoRanks == {0, 1}

OneStage == [mode |-> "asynchronous", stages |-> {0}, stageOf |-> [w \in TwoRanks |-> 0],
             writers |-> {0}]
TwoStages(how) == [mode |-> how, stages |-> TwoRanks, stageOf |-> [w \in TwoRanks |-> w],
                   writers |-> TwoRanks]

MCSettings == {OneStage, TwoStages("synchronous"), TwoStages("backpressure")}
=============================================================================
