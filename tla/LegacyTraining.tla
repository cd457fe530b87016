---------------------------- MODULE LegacyTraining ----------------------------
(***************************************************************************)
(* The single-job mode of main.py on the machines of nodes/: a controller  *)
(* that keeps the ranks in step, the checkpoint pipeline of rank 0, and one*)
(* injected failure every FailureEvery iterations.                         *)
(*                                                                         *)
(* A process is a rank or the pipeline of one checkpoint.  For each of its *)
(* steps it requests resources, gets each in the order of the requests, and*)
(* works when it has them all.  How long work takes, contention of CPU and *)
(* GPU included, is left open.  The object store has a permit for each     *)
(* rank, more than can be asked for, so its permits are left out; the SSDs *)
(* hold nothing.  Memory is counted in checkpoints.                        *)
(***************************************************************************)
EXTENDS Integers, FiniteSets, Sequences, SequencesExt

CONSTANTS
    LegacySettings,  \* [world, every, aggregate]: WORLD_SIZE (or the explicit machines of
                     \* an aggregate run), CHECKPOINT_EVERY, the form of the all-reduce
    TotalIterations, \* TOTAL_ITERATIONS
    FailureEvery,    \* FAILURE_EVERY
    Dram             \* checkpoints the memory of a machine can hold

LegacyAssumption ==
    /\ Dram \in Nat \ {0} /\ FailureEvery \in Nat \ {0} /\ TotalIterations \in Nat
    /\ LegacySettings \subseteq
         [world : Nat \ {0}, every : {n \in 1..TotalIterations : TotalIterations % n = 0},
          aggregate : BOOLEAN]

ASSUME LegacyAssumption

Main(n) == [kind |-> "main", id |-> n]
Pipe(i) == [kind |-> "pipe", id |-> i]

VARIABLES
    config, schedule,  \* parameters: failure_schedule
    step,           \* what a process does, "none" before it is started
    rankIteration,  \* of a rank
    round,          \* exchange of the all-reduce
    queue,          \* processes that hold or await a resource, in order
    level,          \* free memory of a machine
    newest,         \* newest completed checkpoint
    loads,          \* checkpoint a rank recovers from
    struck          \* iterations whose failure has happened

legacyVars == <<config, schedule, step, rankIteration, round, queue, level, newest, loads, struck>>

Worlds == {s.world : s \in LegacySettings}
AllRanks == UNION {0..(w - 1) : w \in Worlds}
Rank == 0..(config.world - 1)
Checkpoints == {i \in 1..TotalIterations : i % config.every = 0}
Process == {Main(n) : n \in AllRanks} \cup {Pipe(i) : i \in 1..TotalIterations}
Resource == ({"cpu", "gpu", "link"} \X AllRanks) \cup {<<"slot", 0>>}

-----------------------------------------------------------------------------
(* Resources. *)

\* With two ranks the second link replaces the first at both ends.
LinkOf(n) == <<"link", IF config.world = 2 THEN 1 ELSE n>>

\* What a process holds while it works at a step.
Requires(p, at) ==
    LET node == IF p.kind = "main" THEN p.id ELSE 0
        of(kinds) == {<<kind, node>> : kind \in kinds}
    IN  CASE at \in {"forward", "backward", "optimizer"} -> of({"gpu"})
          [] at = "transfer" ->
                 of({"gpu"}) \cup (IF config.aggregate THEN {} ELSE {LinkOf(node)})
          [] at \in {"failing", "restoring"} -> of({"cpu", "gpu"})
          [] at = "loading" -> of({"cpu"})
          [] at \in {"waiting", "freeing"} -> of({"slot"})
          [] at = "staging" -> of({"slot", "cpu", "gpu"})
          [] at = "uploading" -> of({"slot", "cpu"})
          [] OTHER -> {}

Granted(p) == \A r \in Requires(p, step[p]) : Head(queue[r]) = p

\* p releases what it holds, but the slot while it needs it, and requests what it
\* needs next; a resource is granted in the order of the requests.
Requeued(q, p, next) ==
    [r \in Resource |->
        IF r[1] = "slot" /\ r \in Requires(p, step[p]) \cap Requires(p, next) THEN q[r]
        ELSE RemoveFirst(q[r], p) \o (IF r \in Requires(p, next) THEN <<p>> ELSE <<>>)]

Moves(p, next) ==
    /\ step' = [step EXCEPT ![p] = next]
    /\ queue' = Requeued(queue, p, next)

\* A put into memory that has room does not wait: it precedes what the release of the
\* CPU makes possible.
Frees(i) == step[Pipe(i)] = "freeing" /\ level[0] < Dram

-----------------------------------------------------------------------------
(* The ranks. *)

\* A failure is scheduled for the rank in this stage of its iteration.
Struck(n) ==
    /\ rankIteration[n] \in DOMAIN schedule \ struck
    /\ schedule[rankIteration[n]].rank = n
    /\ schedule[rankIteration[n]].stage = step[Main(n)]

ComputeStage(n) ==
    LET p == Main(n)
    IN  /\ step[p] \in {"forward", "backward"} /\ Granted(p) /\ ~Struck(n)
        /\ Moves(p, IF step[p] = "forward" THEN "backward" ELSE "arrived")
        /\ UNCHANGED <<config, schedule, rankIteration, round, level, newest, loads, struck>>

\* run_compute_stage interrupts the operation.
Interrupt(n) ==
    /\ Granted(Main(n)) /\ Struck(n)
    /\ Moves(Main(n), "failing")
    /\ struck' = struck \cup {rankIteration[n]}
    /\ UNCHANGED <<config, schedule, rankIteration, round, level, newest, loads>>

\* simulate_failure: a node or spot failure flushes the memory.
Restart(n) ==
    LET p == Main(n)
    IN  /\ step[p] = "failing" /\ Granted(p) /\ ~\E i \in Checkpoints : Frees(i)
        /\ Moves(p, "reading")
        /\ level' = IF schedule[rankIteration[n]].flush THEN [level EXCEPT ![n] = Dram] ELSE level
        /\ UNCHANGED <<config, schedule, rankIteration, round, newest, loads, struck>>

\* recover_from_object_store: the checkpoint is chosen before anything is waited for.
ReadStore(n) ==
    LET p == Main(n)
    IN  /\ step[p] = "reading" /\ level[n] > 0
        /\ Moves(p, "loading")
        /\ loads' = [loads EXCEPT ![n] = newest]
        /\ level' = [level EXCEPT ![n] = @ - 1]
        /\ UNCHANGED <<config, schedule, rankIteration, round, newest, struck>>

Load(n) ==
    LET p == Main(n)
    IN  /\ step[p] = "loading" /\ Granted(p)
        /\ Moves(p, "restoring")
        /\ UNCHANGED <<config, schedule, rankIteration, round, level, newest, loads, struck>>

\* Whatever the stage of the failure, the rank goes on with the forward pass.
Restore(n) ==
    LET p == Main(n)
    IN  /\ step[p] = "restoring" /\ Granted(p) /\ level[n] < Dram
        /\ Moves(p, "forward")
        /\ level' = [level EXCEPT ![n] = @ + 1]
        /\ UNCHANGED <<config, schedule, rankIteration, round, newest, loads, struck>>

Mains == {Main(n) : n \in Rank}

\* The ranks go on, in order: each releases the GPU and the link it holds, if any, and
\* requests what it needs next.
Together(next) ==
    /\ step' = [p \in Process |-> IF p \in Mains THEN next ELSE step[p]]
    /\ queue' = [r \in Resource |->
           IF r[1] \in {"gpu", "link"}
           THEN SelectSeq(queue[r], LAMBDA p : p \notin Mains)
                  \o SelectSeq([k \in 1..config.world |-> Main(k - 1)],
                               LAMBDA p : r \in Requires(p, next))
           ELSE queue[r]]

Exchanges == IF config.aggregate THEN 2 ELSE 2 * (config.world - 1)

\* All local processes have ended: ring_all_reduce, nothing for a single rank.
Synchronize ==
    /\ \A n \in Rank : step[Main(n)] = "arrived"
    /\ Together(IF config.world = 1 THEN "optimizer" ELSE "transfer")
    /\ round' = 1
    /\ UNCHANGED <<config, schedule, rankIteration, level, newest, loads, struck>>

Exchange(n) ==
    /\ step[Main(n)] = "transfer" /\ Granted(Main(n))
    /\ Moves(Main(n), "sent")
    /\ UNCHANGED <<config, schedule, rankIteration, round, level, newest, loads, struck>>

NextExchange ==
    /\ \A n \in Rank : step[Main(n)] = "sent"
    /\ IF round < Exchanges THEN Together("transfer") /\ round' = round + 1
                            ELSE Together("optimizer") /\ UNCHANGED round
    /\ UNCHANGED <<config, schedule, rankIteration, level, newest, loads, struck>>

NextStep(n) == IF rankIteration[n] < TotalIterations THEN "forward" ELSE "done"
NextIteration(n) ==
    rankIteration' = [rankIteration EXCEPT ![n] = IF @ < TotalIterations THEN @ + 1 ELSE @]

\* Rank 0 starts its pipeline and waits until the checkpoint is staged.
Optimize(n) ==
    LET p == Main(n)
        pipe == Pipe(rankIteration[n])
    IN  /\ step[p] = "optimizer" /\ Granted(p)
        /\ IF n = 0 /\ rankIteration[n] \in Checkpoints
           THEN /\ step' = [step EXCEPT ![p] = "captured", ![pipe] = "waiting"]
                /\ queue' = Requeued(Requeued(queue, p, "captured"), pipe, "waiting")
                /\ UNCHANGED rankIteration
           ELSE Moves(p, NextStep(n)) /\ NextIteration(n)
        /\ UNCHANGED <<config, schedule, round, level, newest, loads, struck>>

-----------------------------------------------------------------------------
(* checkpoint_pipeline. *)

Reserve(i) ==
    LET p == Pipe(i)
    IN  /\ step[p] = "waiting" /\ Granted(p) /\ level[0] > 0
        /\ Moves(p, "staging")
        /\ level' = [level EXCEPT ![0] = @ - 1]
        /\ UNCHANGED <<config, schedule, rankIteration, round, newest, loads, struck>>

\* The upload requests the CPU as soon as the checkpoint is staged.
Stage(i) ==
    LET p == Pipe(i)
    IN  /\ step[p] = "staging" /\ Granted(p)
        /\ step' = [step EXCEPT ![p] = "uploading", ![Main(0)] = NextStep(0)]
        /\ queue' = Requeued(Requeued(queue, p, "uploading"), Main(0), NextStep(0))
        /\ NextIteration(0)
        /\ UNCHANGED <<config, schedule, round, level, newest, loads, struck>>

\* Mutant of PutCheckpoint: put_checkpoint keeps the older one.
PutOlder(i) ==
    LET p == Pipe(i)
    IN  /\ step[p] = "uploading" /\ Granted(p)
        /\ Moves(p, "freeing")
        /\ newest' = IF i < newest THEN i ELSE newest
        /\ UNCHANGED <<config, schedule, rankIteration, round, level, loads, struck>>

\* put_checkpoint keeps the newer one.
PutCheckpoint(i) ==
    LET p == Pipe(i)
    IN  /\ step[p] = "uploading" /\ Granted(p)
        /\ Moves(p, "freeing")
        /\ newest' = IF i < newest THEN newest ELSE i
        /\ UNCHANGED <<config, schedule, rankIteration, round, level, loads, struck>>

Free(i) ==
    /\ Frees(i)
    /\ Moves(Pipe(i), "done")
    /\ level' = [level EXCEPT ![0] = @ + 1]
    /\ UNCHANGED <<config, schedule, rankIteration, round, newest, loads, struck>>

-----------------------------------------------------------------------------

\* build_failure_schedule: rank 0 fails only when it is alone.
Schedules(world) ==
    [{i \in 1..TotalIterations : i % FailureEvery = 0} ->
        [rank : IF world = 1 THEN {0} ELSE 1..(world - 1),
         stage : {"forward", "backward"}, flush : BOOLEAN]]

\* After the checkpoint of iteration 0, which is complete before training starts.
LegacyInit ==
    /\ config \in LegacySettings
    /\ schedule \in Schedules(config.world)
    /\ step = [p \in Process |-> IF p \in {Main(n) : n \in Rank} THEN "forward" ELSE "none"]
    /\ rankIteration = [n \in AllRanks |-> 1]
    /\ round = 1
    /\ queue = [r \in Resource |->
           IF r \in {"gpu"} \X Rank THEN <<Main(r[2])>> ELSE <<>>]
    /\ level = [n \in AllRanks |-> Dram]
    /\ newest = 0
    /\ loads = [n \in AllRanks |-> 0]
    /\ struck = {}

LegacyNext ==
    \/ \E n \in Rank : \/ ComputeStage(n) \/ Interrupt(n) \/ Restart(n) \/ ReadStore(n) \/ Load(n)
                       \/ Restore(n) \/ Exchange(n) \/ Optimize(n)
    \/ Synchronize \/ NextExchange
    \/ \E i \in Checkpoints : Reserve(i) \/ Stage(i) \/ PutCheckpoint(i) \/ Free(i)

\* The kernel runs what is due.
LegacySpec == LegacyInit /\ [][LegacyNext]_legacyVars /\ WF_legacyVars(LegacyNext)

-----------------------------------------------------------------------------
(* Properties. *)

LastDue(i) == IF i < 0 THEN 0 ELSE i - (i % config.every)

\* A rank that fails recovers a checkpoint that is complete, not of its own iteration,
\* and at most one interval older than the last that rank 0 had to stage before the
\* others could get here: the slot is held until the upload ends (checkpoint_pipeline).
LoadsRecent ==
    \A n \in Rank : step[Main(n)] \in {"loading", "restoring"} =>
        /\ loads[n] < rankIteration[n] /\ loads[n] <= newest
        /\ loads[n] >= LastDue(rankIteration[n] - 2) - config.every

\* What is missing of the memory of a machine is held by the pipelines and recoveries
\* in progress on it: the flush of a failure frees nothing of theirs, and what they
\* put back fits.
MemoryExact ==
    \A n \in Rank :
        Dram - level[n] =
            Cardinality({i \in Checkpoints : n = 0 /\ step[Pipe(i)] \in
                                                 {"staging", "uploading", "freeing"}})
            + (IF step[Main(n)] \in {"loading", "restoring"} THEN 1 ELSE 0)

\* A failed node of the first simulator restores a recent complete checkpoint, and the
\* memory it flushes is given back exactly (simulate_failure, recover_from_object_store).
RecoversRecent == MemoryExact /\ LoadsRecent

\* Training ends with every checkpoint written and the last in the store: no rank waits
\* forever for a resource, a barrier, the slot or memory (training_controller).
TrainingEnds ==
    /\ \A n \in Rank : step[Main(n)] = "done"
    /\ \A i \in Checkpoints : step[Pipe(i)] = "done"
    /\ newest = TotalIterations
=============================================================================
