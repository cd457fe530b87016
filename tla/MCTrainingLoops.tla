-------------------------- MODULE MCTrainingLoops --------------------------
(***************************************************************************)
(* The failure controller and the training loops for TLC.  Each behaviour  *)
(* is one of one machine, which "machine" names: FailureController, the    *)
(* benchmark on real nodes (TrainingBenchmark), the first simulator        *)
(* (LegacyTraining) or the aggregate runtimes (LargeScale).                *)
(***************************************************************************)
EXTENDS FailureController, TrainingBenchmark, LargeScale, LegacyTraining

\* Distinct delays, increasing with severity as in the default settings
\* (3, 8 and 15 seconds), scaled down.
MCRestartSeconds == [t \in FailureType |->
  CASE t = "process" -> 1 [] t = "node" -> 2 [] t = "spot" -> 3]

MCSignals == [w \in Worker |-> 2]

CONSTANTS a, b  \* jobs of the aggregate runtimes

VARIABLE machine

allVars == <<machine, vars, benchmarkVars, legacyVars, largeVars>>

-----------------------------------------------------------------------------
\* Three ranks, so that one stage has both neighbours, in every mode.
MCModes == {"data_parallel", "pipeline_parallel"} \X {"synchronous", "asynchronous"}

\* One, two and three ranks.
MCLegacySettings == {[world |-> 1, every |-> 1, aggregate |-> FALSE],
                     [world |-> 2, every |-> 1, aggregate |-> FALSE],
                     [world |-> 3, every |-> 2, aggregate |-> TRUE]}

\* Pairs of jobs that upload to the shared store, and a job that copies to its tiers
\* beside one that does not.
Job(chunked, tiered, synchronous, every) ==
    [chunked |-> chunked, tiered |-> tiered, synchronous |-> synchronous,
     fails |-> ~chunked /\ ~synchronous, every |-> every]

AggregateSettings ==
    {[j \in {a, b} |-> IF j = a THEN pair[1] ELSE pair[2]] :
        pair \in {<<Job(FALSE, FALSE, FALSE, 1), Job(FALSE, FALSE, TRUE, 2)>>,
                  <<Job(FALSE, TRUE, FALSE, 1), Job(TRUE, FALSE, TRUE, 2)>>,
                  <<Job(TRUE, TRUE, FALSE, 1), Job(TRUE, TRUE, TRUE, 2)>>,
                  <<Job(FALSE, FALSE, FALSE, 1), Job(TRUE, FALSE, FALSE, 1)>>}}

-----------------------------------------------------------------------------
InController == machine = "controller"
InBenchmark == machine = "benchmark"
InLegacy == machine = "legacy"
InAggregate == machine = "aggregate"
ControllerOnly == UNCHANGED <<machine, benchmarkVars, legacyVars, largeVars>>
BenchmarkOnly == UNCHANGED <<machine, vars, legacyVars, largeVars>>
LegacyOnly == UNCHANGED <<machine, vars, benchmarkVars, largeVars>>
AggregateOnly == UNCHANGED <<machine, vars, benchmarkVars, legacyVars>>

\* A machine that does not run is in one of its initial states, whichever.
MCInit ==
  /\ Init /\ BenchmarkInit /\ LegacyInit /\ LargeInit
  /\ machine \in {"controller", "benchmark", "legacy", "aggregate"}
  /\ ~InBenchmark => mode = <<"data_parallel", "synchronous">>
  /\ ~InLegacy =>
       config.world = 1 /\ schedule = CHOOSE s \in Schedules(1) : TRUE
  /\ ~InAggregate => \A j \in Jobs : setting[j].chunked

SampleAny == \E targets \in SUBSET Worker : \E hit \in [targets -> FailureType] : Sample(hit)
Recovery(w) == CallRecover(w) \/ RecoverReturns(w) \/ BackInService(w) \/ RecoverAgain(w)

MCNext ==
  \/ InController /\ Tick /\ ControllerOnly
  \/ InController /\ SampleAny /\ ControllerOnly
  \/ \E w \in Worker : \/ InController /\ CallRecover(w) /\ ControllerOnly
                       \/ InController /\ RecoverReturns(w) /\ ControllerOnly
                       \/ InController /\ BackInService(w) /\ ControllerOnly
                       \/ InController /\ RecoverAgain(w) /\ ControllerOnly
                       \/ InController /\ JobEnds(w) /\ ControllerOnly
  \/ \E r \in Ranks :
       \/ InBenchmark /\ Enter(r) /\ BenchmarkOnly
       \/ InBenchmark /\ Leave(r) /\ BenchmarkOnly
       \/ InBenchmark /\ SetupReplica(r) /\ BenchmarkOnly
       \/ InBenchmark /\ ReplicaPass(r) /\ BenchmarkOnly
       \/ InBenchmark /\ OptimizeReplica(r) /\ BenchmarkOnly
       \/ InBenchmark /\ SetupStage(r) /\ BenchmarkOnly
       \/ InBenchmark /\ StartMicrobatch(r) /\ BenchmarkOnly
       \/ InBenchmark /\ Forward(r) /\ BenchmarkOnly
       \/ InBenchmark /\ Backward(r) /\ BenchmarkOnly
       \/ InBenchmark /\ OptimizeStage(r) /\ BenchmarkOnly
       \/ InBenchmark /\ ActivationTransfer(r) /\ BenchmarkOnly
       \/ InBenchmark /\ GradientTransfer(r) /\ BenchmarkOnly
       \/ InBenchmark /\ Checkpoint(r) /\ BenchmarkOnly
       \/ InBenchmark /\ Drain(r) /\ BenchmarkOnly
       \/ InBenchmark /\ Write(r) /\ BenchmarkOnly
       \/ InBenchmark /\ TimeOut(r) /\ BenchmarkOnly
       \/ \E i \in 1..Iterations : InBenchmark /\ ThreadEnds(r, i) /\ BenchmarkOnly
  \/ \E n \in Rank :
       \/ InLegacy /\ ComputeStage(n) /\ LegacyOnly
       \/ InLegacy /\ Interrupt(n) /\ LegacyOnly
       \/ InLegacy /\ Restart(n) /\ LegacyOnly
       \/ InLegacy /\ ReadStore(n) /\ LegacyOnly
       \/ InLegacy /\ Load(n) /\ LegacyOnly
       \/ InLegacy /\ Restore(n) /\ LegacyOnly
       \/ InLegacy /\ Exchange(n) /\ LegacyOnly
       \/ InLegacy /\ Optimize(n) /\ LegacyOnly
  \/ InLegacy /\ Synchronize /\ LegacyOnly
  \/ InLegacy /\ NextExchange /\ LegacyOnly
  \/ \E i \in Checkpoints :
       \/ InLegacy /\ Reserve(i) /\ LegacyOnly
       \/ InLegacy /\ Stage(i) /\ LegacyOnly
       \/ InLegacy /\ PutCheckpoint(i) /\ LegacyOnly
       \/ InLegacy /\ Free(i) /\ LegacyOnly
  \/ \E j \in Jobs :
       \/ InAggregate /\ Compute(j) /\ AggregateOnly
       \/ InAggregate /\ AllReduce(j) /\ AggregateOnly
       \/ InAggregate /\ Phase(j) /\ AggregateOnly
       \/ InAggregate /\ EndIteration(j) /\ AggregateOnly
       \/ InAggregate /\ Resume(j) /\ AggregateOnly
       \/ InAggregate /\ Finish(j) /\ AggregateOnly
       \/ InAggregate /\ End(j) /\ AggregateOnly
       \/ InAggregate /\ StopMonitor(j) /\ AggregateOnly
       \/ \E i \in CheckpointNumber :
            \/ InAggregate /\ StageToStore(j, i) /\ AggregateOnly
            \/ InAggregate /\ AcquirePermit(j, i) /\ AggregateOnly
            \/ InAggregate /\ Upload(j, i) /\ AggregateOnly
            \/ InAggregate /\ StageToTiers(j, i) /\ AggregateOnly
            \/ InAggregate /\ CopyToTiers(j, i) /\ AggregateOnly
            \/ InAggregate /\ ChunkedStore(j, i) /\ AggregateOnly
            \/ InAggregate /\ ChunkedTiers(j, i) /\ AggregateOnly
       \/ \E r \in JobRanks, t \in FailureType : InAggregate /\ Fail(j, r, t) /\ AggregateOnly

MCSpec ==
  /\ MCInit /\ [][MCNext]_allVars
  /\ WF_allVars(InController /\ Tick /\ ControllerOnly)
  /\ WF_allVars(InController /\ SampleAny /\ ControllerOnly)
  /\ \A w \in Worker : WF_allVars(InController /\ Recovery(w) /\ ControllerOnly)
  /\ WF_allVars(\/ InBenchmark /\ BenchmarkNext /\ BenchmarkOnly
                \/ InLegacy /\ LegacyNext /\ LegacyOnly
                \/ InAggregate /\ (\E j \in Jobs : JobStep(j)) /\ AggregateOnly)

-----------------------------------------------------------------------------
\* Every rank of the benchmark, the training of main.py and every job of the aggregate
\* runtimes end: nobody waits forever for a peer, a lost rank, a barrier, a resource, a
\* permit or memory (TrainingBenchmark, LegacyTraining, LargeScale).
LoopsEnd ==
  <>[](CASE machine = "benchmark" -> Ends
         [] machine = "legacy" -> TrainingEnds
         [] machine = "aggregate" -> JobsEnd
         [] OTHER -> TRUE)
=============================================================================
