------------------------------ MODULE LargeScale ------------------------------
(***************************************************************************)
(* The jobs of more than ten thousand ranks (jobs/chunked_runtime.py and   *)
(* jobs/aggregate_runtime.py), which share one object store.               *)
(*                                                                         *)
(* A job is a training process, a process for each of its checkpoints and, *)
(* in an aggregate job, a monitor that records failures.  An aggregate job *)
(* has one GPU and one CPU for all its ranks, granted in the order of the  *)
(* requests; a chunked job asks for neither: its operations are waits that *)
(* cover the start of the last rank.  How long work takes is left open, but*)
(* the checkpoints of a chunked job take equally long.                     *)
(***************************************************************************)
EXTENDS Integers, FiniteSets, FiniteSetsExt, Sequences, SequencesExt

CONSTANTS
    Jobs,
    Settings,     \* of each job [chunked, tiered, synchronous, fails, every]: its form,
                  \* checkpoint_strategy, checkpoint_mode and checkpoint_every
    JobIterations,
    Permits,      \* object_store_concurrency
    JobRanks,     \* ranks that can be drawn to fail
    DeviantLimit  \* failures the monitor of a job records: 128

LargeAssumption ==
    /\ JobIterations \in Nat \ {0} /\ Permits \in Nat \ {0}
    /\ Settings \subseteq [Jobs -> [chunked : BOOLEAN, tiered : BOOLEAN, synchronous : BOOLEAN,
                                   fails : BOOLEAN, every : Nat \ {0}]]

ASSUME LargeAssumption

VARIABLES
    setting,    \* parameter
    stage,      \* what the training process of a job does
    iteration,  \* current_iteration
    copy,       \* what a checkpoint process does
    gpu, cpu,   \* processes of a job that hold or await it, in order
    store,      \* checkpoints that hold or await a permit
    monitor,    \* of the failures of a job
    deviants    \* the failures recorded: deviant_ranks

largeVars == <<setting, stage, iteration, copy, gpu, cpu, store, monitor, deviants>>

NoRank == -1
CheckpointNumber == 1..JobIterations
Training == 0
DueOf(j) == {i \in CheckpointNumber : i % setting[j].every = 0}

-----------------------------------------------------------------------------
(* Resources. *)

\* Mutant of Needs: a checkpoint does not wait for the GPU to be staged.
StageOnCpu(j, at) ==
    IF setting[j].chunked THEN {}
    ELSE CASE at \in {"forward", "backward", "allreduce", "optimizer"} -> {"gpu"}
           [] at \in {"staging", "uploading", "local", "peer_dram", "peer_ssd"} -> {"cpu"}
           [] OTHER -> {}

\* What an aggregate job holds of its GPU and CPU while it works.
Needs(j, at) ==
    IF setting[j].chunked THEN {}
    ELSE CASE at \in {"forward", "backward", "allreduce", "optimizer"} -> {"gpu"}
           [] at = "staging" -> {"cpu", "gpu"}
           [] at \in {"uploading", "local", "peer_dram", "peer_ssd"} -> {"cpu"}
           [] OTHER -> {}

Works(j, p, at) ==
    /\ "gpu" \in Needs(j, at) => Head(gpu[j]) = p
    /\ "cpu" \in Needs(j, at) => Head(cpu[j]) = p

\* The queue of a resource after p has released and requested it.
Queued(queue, p, held, needed) ==
    (IF held THEN Tail(queue) ELSE queue) \o (IF needed THEN <<p>> ELSE <<>>)

\* p goes from one step to the next; only the copies to the tiers keep the CPU.
Passes(j, p, at, next) ==
    IF at \in {"local", "peer_dram"} THEN UNCHANGED <<gpu, cpu>>
    ELSE LET after(queue, resource) ==
                 Queued(queue, p, resource \in Needs(j, at), resource \in Needs(j, next))
         IN  /\ gpu' = [gpu EXCEPT ![j] = after(@, "gpu")]
             /\ cpu' = [cpu EXCEPT ![j] = after(@, "cpu")]

\* A permit is granted, and acted on, in the order of the requests.
Permitted(j, i) ==
    \E k \in 1..Permits :
        /\ k <= Len(store) /\ store[k] = <<j, i>>
        /\ \A m \in 1..(k - 1) : copy[store[m][1]][store[m][2]] # "permit"

\* The checkpoints of a chunked job do each step in the time of the one before.
InTurn(j, i) == setting[j].chunked => \A k \in 1..(i - 1) : copy[j][k] # copy[j][i]

-----------------------------------------------------------------------------
(* Training. *)

Following == [forward |-> "backward", backward |-> "allreduce", allreduce |-> "optimizer"]

GoesOn(j) ==
    /\ stage' = [stage EXCEPT ![j] = Following[@]]
    /\ Passes(j, Training, stage[j], Following[stage[j]])
    /\ UNCHANGED <<setting, iteration, copy, store, monitor, deviants>>

Compute(j) ==
    /\ ~setting[j].chunked /\ stage[j] \in {"forward", "backward"}
    /\ Works(j, Training, stage[j]) /\ GoesOn(j)

AllReduce(j) ==
    /\ ~setting[j].chunked /\ stage[j] = "allreduce"
    /\ Works(j, Training, "allreduce") /\ GoesOn(j)

\* The last rank of the last batch has ended its part.
Phase(j) == setting[j].chunked /\ stage[j] \in DOMAIN Following /\ GoesOn(j)

Onward(j) == IF iteration[j] < JobIterations THEN "forward" ELSE "finishing"

\* After the last step of an iteration: training asks for the GPU of the next iteration
\* before the process of its checkpoint runs and asks for GPU and CPU.
EndIteration(j) ==
    LET i == iteration[j]
        starts == i \in DueOf(j)
        next == IF starts /\ setting[j].synchronous THEN "waiting" ELSE Onward(j)
        asks(queue, resource) ==
            Queued(Queued(queue, Training, resource \in Needs(j, "optimizer"),
                          resource \in Needs(j, next)),
                   i, FALSE, starts /\ resource \in Needs(j, "staging"))
    IN  /\ stage[j] = "optimizer" /\ Works(j, Training, "optimizer")
        /\ stage' = [stage EXCEPT ![j] = next]
        /\ iteration' = [iteration EXCEPT ![j] = IF next = "forward" THEN i + 1 ELSE i]
        /\ copy' = IF starts THEN [copy EXCEPT ![j][i] = "staging"] ELSE copy
        /\ gpu' = [gpu EXCEPT ![j] = asks(@, "gpu")]
        /\ cpu' = [cpu EXCEPT ![j] = asks(@, "cpu")]
        /\ UNCHANGED <<setting, store, monitor, deviants>>

\* The process of a synchronous checkpoint has ended.
Resume(j) ==
    /\ stage[j] = "waiting" /\ copy[j][iteration[j]] = "done"
    /\ stage' = [stage EXCEPT ![j] = Onward(j)]
    /\ iteration' = [iteration EXCEPT ![j] = IF @ < JobIterations THEN @ + 1 ELSE @]
    /\ Passes(j, Training, "waiting", Onward(j))
    /\ UNCHANGED <<setting, copy, store, monitor, deviants>>

\* all_of(checkpoint_processes), then active becomes false.
Finish(j) ==
    /\ stage[j] = "finishing" /\ \A i \in DueOf(j) : copy[j][i] = "done"
    /\ stage' = [stage EXCEPT ![j] = "inactive"]
    /\ UNCHANGED <<setting, iteration, copy, gpu, cpu, store, monitor, deviants>>

End(j) ==
    /\ stage[j] = "inactive" /\ monitor[j] # "running"
    /\ stage' = [stage EXCEPT ![j] = "ended"]
    /\ UNCHANGED <<setting, iteration, copy, gpu, cpu, store, monitor, deviants>>

-----------------------------------------------------------------------------
(* Checkpoints. *)

Advances(j, i, at, next) ==
    /\ copy[j][i] = at /\ Works(j, i, at) /\ InTurn(j, i)
    /\ copy' = [copy EXCEPT ![j][i] = next]
    /\ Passes(j, i, at, next)
    /\ UNCHANGED <<setting, stage, iteration, monitor, deviants>>

Aggregate(j, tiered) == ~setting[j].chunked /\ setting[j].tiered = tiered

StageToStore(j, i) ==
    /\ Aggregate(j, FALSE) /\ Advances(j, i, "staging", "permit")
    /\ store' = Append(store, <<j, i>>)

AcquirePermit(j, i) ==
    /\ Aggregate(j, FALSE) /\ Permitted(j, i)
    /\ Advances(j, i, "permit", "uploading") /\ UNCHANGED store

Upload(j, i) ==
    /\ Aggregate(j, FALSE) /\ Advances(j, i, "uploading", "done")
    /\ store' = RemoveFirst(store, <<j, i>>)

\* The CPU is held from the local write to the last copy.
StageToTiers(j, i) ==
    Aggregate(j, TRUE) /\ Advances(j, i, "staging", "local") /\ UNCHANGED store

CopyToTiers(j, i) ==
    /\ Aggregate(j, TRUE) /\ UNCHANGED store
    /\ \/ Advances(j, i, "local", "peer_dram")
       \/ Advances(j, i, "peer_dram", "peer_ssd")
       \/ Advances(j, i, "peer_ssd", "done")

\* A chunked job writes one copy for all its ranks to the store.
ChunkedStore(j, i) ==
    /\ setting[j].chunked /\ ~setting[j].tiered
    /\ \/ /\ Advances(j, i, "staging", "permit")
          /\ store' = Append(store, <<j, i>>)
       \/ /\ Permitted(j, i) /\ Advances(j, i, "permit", "uploading")
          /\ UNCHANGED store
       \/ /\ Advances(j, i, "uploading", "done")
          /\ store' = RemoveFirst(store, <<j, i>>)

ChunkedTiers(j, i) ==
    /\ setting[j].chunked /\ setting[j].tiered /\ UNCHANGED store
    /\ \/ Advances(j, i, "staging", "local")
       \/ Advances(j, i, "local", "peer_dram")
       \/ Advances(j, i, "peer_dram", "peer_ssd")
       \/ Advances(j, i, "peer_ssd", "done")

-----------------------------------------------------------------------------
(* Failures: they are recorded, and hold nothing up. *)

\* The iteration a failed rank is said to be restored from.
Restored(j) == iteration[j] - (iteration[j] % setting[j].every)

\* Where its checkpoint is read: the rank whose memory or SSD it is, none for the store.
ReadFrom(j, r, type) ==
    IF ~setting[j].tiered THEN [tier |-> "object_store", rank |-> NoRank]
    ELSE CASE type = "spot" -> [tier |-> "ssd", rank |-> IF r % 2 = 0 THEN r + 1 ELSE r - 1]
           [] type = "node" -> [tier |-> "ssd", rank |-> r]
           [] type = "process" -> [tier |-> "dram", rank |-> r]

\* A draw of a rank that has failed already is skipped.
Fail(j, r, type) ==
    /\ monitor[j] = "running" /\ stage[j] \notin {"inactive", "ended"}
    /\ \A f \in deviants[j] : f.rank # r
    /\ Cardinality(deviants[j]) < DeviantLimit
    /\ deviants' = [deviants EXCEPT ![j] = @ \cup {[rank |-> r, type |-> type]}]
    /\ UNCHANGED <<setting, stage, iteration, copy, gpu, cpu, store, monitor>>

\* At a tick: the job is no longer active, or a failure is drawn beyond the limit.
StopMonitor(j) ==
    /\ monitor[j] = "running"
    /\ stage[j] = "inactive" \/ Cardinality(deviants[j]) = DeviantLimit
    /\ monitor' = [monitor EXCEPT ![j] = "ended"]
    /\ UNCHANGED <<setting, stage, iteration, copy, gpu, cpu, store, deviants>>

-----------------------------------------------------------------------------

LargeInit ==
    /\ setting \in Settings
    /\ stage = [j \in Jobs |-> "forward"]
    /\ iteration = [j \in Jobs |-> 1]
    /\ copy = [j \in Jobs |-> [i \in CheckpointNumber |-> "none"]]
    /\ gpu = [j \in Jobs |-> IF setting[j].chunked THEN <<>> ELSE <<Training>>]
    /\ cpu = [j \in Jobs |-> <<>>]
    /\ store = <<>>
    /\ monitor = [j \in Jobs |-> IF setting[j].fails THEN "running" ELSE "none"]
    /\ deviants = [j \in Jobs |-> {}]

JobStep(j) ==
    \/ Compute(j) \/ AllReduce(j) \/ Phase(j) \/ EndIteration(j)
    \/ Resume(j) \/ Finish(j) \/ End(j)
    \/ \E i \in CheckpointNumber : \/ StageToStore(j, i) \/ AcquirePermit(j, i) \/ Upload(j, i)
                             \/ StageToTiers(j, i) \/ CopyToTiers(j, i)
                             \/ ChunkedStore(j, i) \/ ChunkedTiers(j, i)
    \/ StopMonitor(j)

LargeNext ==
    \E j \in Jobs :
        JobStep(j) \/ \E r \in JobRanks, type \in {"process", "node", "spot"} : Fail(j, r, type)

\* The kernel runs what is due; nothing makes a rank fail.
LargeSpec == LargeInit /\ [][LargeNext]_largeVars /\ WF_largeVars(\E j \in Jobs : JobStep(j))

-----------------------------------------------------------------------------
(* Properties. *)

\* What an aggregate job stages is the state of the iteration of the checkpoint: training
\* has gone no further than the backward pass of the next (Needs, EndIteration: the GPU
\* is asked for before the CPU is free).
CapturesItsIteration ==
    \A j \in Jobs : \A i \in CheckpointNumber :
        ~setting[j].chunked /\ copy[j][i] = "staging" =>
            \/ iteration[j] = i
            \/ iteration[j] = i + 1 /\ stage[j] \in {"forward", "backward"}

\* The checkpoints of a job are completed in the order of their iterations, whatever
\* they wait for on the way: the newest completed one is the last of them.
CompletedInOrder ==
    \A j \in Jobs : \A k, i \in DueOf(j) :
        k < i /\ copy[j][i] = "done" => copy[j][k] = "done"

\* A checkpoint of the aggregate runtimes is of its own iteration, and a job completes
\* its checkpoints in order (create_checkpoint, _checkpoint).
CheckpointsInOrder == CapturesItsIteration /\ CompletedInOrder

\* Every job ends, with every checkpoint written and its monitor stopped: training, the
\* checkpoints of both jobs and the monitor do not wait for one another forever.
JobsEnd == \A j \in Jobs : /\ stage[j] = "ended" /\ monitor[j] # "running"
                       /\ \A i \in DueOf(j) : copy[j][i] = "done"

\* "Recovery selects the newest completed surviving checkpoint" (README.md:229).
RestoresCompleted ==
    [][\A j \in Jobs : \A f \in deviants'[j] \ deviants[j] :
          /\ Restored(j) \in {0} \cup {i \in DueOf(j) : copy[j][i] = "done"}
          /\ LET from == ReadFrom(j, f.rank, f.type)
             IN  from.tier = "ssd" => [rank |-> from.rank, type |-> "spot"] \notin deviants[j]]_largeVars
=============================================================================
