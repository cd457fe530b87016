---------------------------- MODULE MCScenarioArm ----------------------------
(***************************************************************************)
(* ScenarioArm for TLC and, each in behaviours of its own, two machines    *)
(* of a job of an arm: the baseline strategies (InJobReplicas) and ranks   *)
(* that checkpoint without a partner (TieredCheckpoint).  "machine" names  *)
(* what runs.                                                              *)
(***************************************************************************)
EXTENDS ScenarioArm, InJobReplicas

\* A job that can be evicted and one that cannot.
Arm(ideal, resolve, backstop) ==
    [ideal |-> ideal, resolve |-> resolve, backstop |-> backstop, baseline |-> FALSE,
     policy |-> FALSE, policyPeers |-> 0, policyPlacement |-> "none", kpeers |-> TRUE,
     degree |-> 1, placement |-> "crossjob"]

MCClasses == {"a", "b"}
MCCount == [c \in MCClasses |-> 1]
MCInitial == [c \in MCClasses |-> IF c = "a" THEN 1 ELSE 0]
MCLimit == [c \in MCClasses |-> IF c = "a" THEN 0 ELSE 1]

\* A frozen policy drained by the donors, a re-solved one pushed by the owners, and the
\* ideal comparator.
MCArms == {Arm(FALSE, FALSE, "donor_drain"), Arm(FALSE, TRUE, "owner_push"),
           Arm(TRUE, FALSE, "donor_drain")}

VARIABLES
  machine,
  t_trainer, t_iteration, t_done, t_launched, t_staged, t_stage, t_saving, t_watched,
  t_watchedPeer, t_copies, t_failed, t_restarting, t_generation, t_recovery, t_source,
  t_called, t_acked, t_surviving

unpaired == <<t_trainer, t_iteration, t_done, t_launched, t_staged, t_stage, t_saving,
              t_watched, t_watchedPeer, t_copies, t_failed, t_restarting, t_generation,
              t_recovery, t_source, t_called, t_acked, t_surviving>>
allVars == <<machine, vars, replicaVars, unpaired>>

-----------------------------------------------------------------------------
\* One arm of each baseline strategy.
Baseline(strategy, peers, backstop, racks, intact) ==
    [strategy |-> strategy, ranks |-> 2, peers |-> peers, store |-> backstop,
     racks |-> racks, intact |-> intact]

Baselines == {
    Baseline("gemini", 1, 2, TRUE, FALSE),  \* replicas, and a backstop every second wave
    Baseline("injob_ssd", 1, 0, FALSE, FALSE),
    Baseline("checkfreq", 0, 0, TRUE, FALSE),
    Baseline("megascale", 0, 0, FALSE, FALSE),
    Baseline("jit", 0, 0, TRUE, TRUE),
    Baseline("jit", 0, 0, FALSE, FALSE)}

\* Two ranks and synchronous checkpoints; rank 0 fails again, perhaps while it recovers.
Rank == {0, 1}

T == INSTANCE TieredCheckpoint WITH
       Worker <- Rank, Partner <- [w \in Rank |-> w], Paired <- FALSE,
       PersistToSsd <- TRUE, Mode <- "synchronous", CleanupTakesTime <- FALSE,
       CheckpointEvery <- 1, Iterations <- 2, MaxSignals <- [w \in Rank |-> 2 - w],
       trainer <- t_trainer, iteration <- t_iteration, done <- t_done,
       launched <- t_launched, staged <- t_staged, stage <- t_stage, saving <- t_saving,
       watched <- t_watched, watchedPeer <- t_watchedPeer, copies <- t_copies,
       failed <- t_failed, restarting <- t_restarting, generation <- t_generation,
       recovery <- t_recovery, source <- t_source, called <- t_called, acked <- t_acked,
       surviving <- t_surviving

ASSUME T!TieredAssumption

-----------------------------------------------------------------------------
InArm == machine = "arm"
InBaseline == machine = "baseline"
InJob == machine = "unpaired"
ArmOnly == UNCHANGED <<machine, replicaVars, unpaired>>
BaselineOnly == UNCHANGED <<machine, vars, unpaired>>
JobOnly == UNCHANGED <<machine, vars, replicaVars>>

\* The machines that do not run are in one of their initial states.
MCInit ==
  /\ machine \in {"arm", "baseline", "unpaired"}
  /\ Init
  /\ ~InArm => arm.ideal /\ manifest = [initial |-> Job, later |-> <<>>]
  /\ ReplicaInit
  /\ ~InBaseline => setting.strategy = "gemini"
  /\ T!Init

MCNext ==
  \/ \E j \in Admitted :
       \/ InArm /\ Arrive(j) /\ ArmOnly
       \/ InArm /\ Begin(j) /\ ArmOnly
       \/ InArm /\ Train(j) /\ ArmOnly
       \/ InArm /\ Evict(j) /\ ArmOnly
       \/ InArm /\ Finish(j) /\ ArmOnly
       \/ InArm /\ Request(j) /\ ArmOnly
       \/ InArm /\ Fail(j) /\ ArmOnly
  \/ \E p \in live : InArm /\ Persisted(p) /\ ArmOnly
  \/ \E p \in live : InArm /\ Stored(p) /\ ArmOnly
  \/ InArm /\ Complete /\ ArmOnly
  \/ InArm /\ Cap /\ ArmOnly
  \/ InArm /\ Await /\ ArmOnly
  \/ InBaseline /\ Iterate /\ BaselineOnly
  \/ InBaseline /\ WholeJobEviction /\ BaselineOnly
  \/ InBaseline /\ RackFailure /\ BaselineOnly
  \/ InBaseline /\ Replan /\ BaselineOnly
  \/ InBaseline /\ Recovered /\ BaselineOnly
  \/ InBaseline /\ SingleNodeFailure /\ BaselineOnly
  \/ InBaseline /\ Choose /\ BaselineOnly
  \/ InBaseline /\ Fetch /\ BaselineOnly
  \/ \E w \in batch : InBaseline /\ Restored(w) /\ BaselineOnly
  \/ \E f \in flights : InBaseline /\ Capture(f) /\ BaselineOnly
  \/ \E f \in flights : InBaseline /\ Launch(f) /\ BaselineOnly
  \/ \E f \in flights : InBaseline /\ Land(f) /\ BaselineOnly
  \/ \E hit \in SUBSET Cohort : InBaseline /\ RackEvent(hit) /\ BaselineOnly
  \/ InJob /\ T!EndIteration /\ JobOnly
  \/ InJob /\ T!Launch /\ JobOnly
  \/ InJob /\ T!Resume /\ JobOnly
  \/ InJob /\ T!Finish /\ JobOnly
  \/ \E w \in Rank :
       \/ InJob /\ T!FinishWork(w) /\ JobOnly
       \/ InJob /\ T!AcquireLock(w) /\ JobOnly
       \/ InJob /\ T!BeginCapture(w) /\ JobOnly
       \/ InJob /\ T!Granted(w) /\ JobOnly
       \/ \E p \in T!Place : InJob /\ T!StageCompletes(w, p) /\ JobOnly
       \/ \E p \in T!Place : InJob /\ T!StageAborts(w, p) /\ JobOnly
       \/ \E t \in T!FailureType : InJob /\ T!Fail(w, t) /\ JobOnly
       \/ InJob /\ T!CallRecover(w) /\ JobOnly
       \/ InJob /\ T!FetchEnds(w) /\ JobOnly
       \/ InJob /\ T!RestoreEnds(w) /\ JobOnly
       \/ InJob /\ T!BackInService(w) /\ JobOnly
       \/ InJob /\ T!RecoverAgain(w) /\ JobOnly

MCSpec ==
  /\ MCInit /\ [][MCNext]_allVars
  /\ \A j \in Job : WF_allVars(InArm /\ j \in Admitted /\ JobStep(j) /\ ArmOnly)
  /\ \A p \in Job \X (1..Work) \X {"persist", "push", "drain"} :
       WF_allVars(InArm /\ p \in live /\ FlushStep(p) /\ ArmOnly)
  /\ WF_allVars(InArm /\ Ending /\ ArmOnly)
  /\ WF_allVars(InBaseline /\ JobAction /\ BaselineOnly)

-----------------------------------------------------------------------------
\* The outage of a rank without a partner obeys the abstract one as well, a second signal
\* during the restore included (TieredCheckpoint).
UnpairedOutage == T!ImplementsOutage

\* Every arm ends, and so does the job of an arm with a baseline strategy, whatever it is
\* rolled back to (ScenarioArm, InJobReplicas).
EveryArmEnds == (InArm => ArmEnds) /\ (InBaseline => <>Ends)
=============================================================================
