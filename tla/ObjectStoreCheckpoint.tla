----------------------- MODULE ObjectStoreCheckpoint -----------------------
(***************************************************************************)
(* checkpointing/object_store.py with the job loop that launches it        *)
(* (jobs/runtime.py) and the failures that interrupt it (jobs/failures.py):*)
(* a shard is staged from GPU to DRAM under the writer's GPU and CPU, then *)
(* uploaded under a slot of the shared store and the CPU.                  *)
(*                                                                         *)
(* Abstracted: an iteration of training is one use of each worker's GPU,   *)
(* after which the workers meet; a worker has one CPU; durations are left  *)
(* open.  As in WorkerResources an action is what a process does between   *)
(* two yields, and "stale" holds the processes whose captured failure      *)
(* generation is no longer the worker's.                                   *)
(***************************************************************************)
EXTENDS Integers, Sequences, FiniteSets, SequencesExt, FiniteSetsExt

CONSTANTS
    Worker,
    Settings,       \* [mode, stages, stageOf, writers]: the checkpoint mode, the pipeline
                    \* stages, each with a shard of the checkpoint, the stage of every worker
                    \* and workers[(0, stage)], which write the shards
    StoreSlots,     \* object_store_concurrency
    LastIteration,  \* bound: iterations, each with a checkpoint
    MaxFailures     \* bound: failure signals

ASSUME ObjectStoreAssumption ==
    /\ \A p \in Settings :
          /\ p.mode \in {"synchronous", "asynchronous", "backpressure"}
          /\ p.stageOf \in [Worker -> p.stages] /\ p.writers \subseteq Worker
          /\ \A s \in p.stages :
                \E w \in p.writers : {v \in p.writers : p.stageOf[v] = s} = {w}
    /\ {StoreSlots, LastIteration} \subseteq Nat \ {0}
    /\ MaxFailures \in Nat

VARIABLES
    setting,    \* parameter: one of Settings
    iteration,  \* the iteration the job is in
    pc,         \* where each process is in its code
    queue,      \* per resource: its users, then the waiting requests in order
    failed,     \* worker.failed
    stale,      \* processes whose captured failure generation is outdated
    failures,   \* failure signals so far (bounds the model)
    latest,     \* latest_checkpoint_iterations, per stage
    wanted,     \* checkpoint_iteration of the recover() call of each worker
    active,     \* workers with active_checkpoint_gb > 0
    staged      \* history: calls whose shard is in the writer's DRAM

vars == <<setting, iteration, pc, queue, failed, stale, failures, latest, wanted,
          active, staged>>

mode == setting.mode
Stage == setting.stages
StageOf == setting.stageOf
Writer == setting.writers

Iteration == 1..LastIteration

Work(w) == <<"work", w>>
Call(w, i) == <<"checkpoint", w, i>>
Recovery(w) == <<"recovery", w>>
Calls == {Call(w, i) : w \in Writer, i \in Iteration}
MayBe == {Work(w) : w \in Worker} \cup {Recovery(w) : w \in Worker}
             \cup {Call(w, i) : w \in Worker, i \in Iteration}
Task == {Work(w) : w \in Worker} \cup Calls \cup {Recovery(w) : w \in Worker}

Store == <<"store">>
Gpu(w) == <<"gpu", w>>
Cpu(w) == <<"cpu", w>>
Resource == ({"gpu", "cpu"} \X Worker) \cup {Store}

jobVars == <<setting, iteration, failed, failures>>
storeVars == <<latest, wanted, active, staged>>

-----------------------------------------------------------------------------
(* Requests. *)

CallUses(at, w) ==
    CASE at \in {"capture", "copy"} -> {Gpu(w), Cpu(w)}
      [] at = "slot" -> {Store}
      [] at \in {"cpu", "upload"} -> {Store, Cpu(w)}
      [] OTHER -> {}

\* The store's slot is returned between the download and the restore, the CPU
\* is kept.
RecoveryUses(at, w) ==
    CASE at = "slot" -> {Store}
      [] at \in {"cpu", "download"} -> {Store, Cpu(w)}
      [] at \in {"gpu", "restore"} -> {Cpu(w), Gpu(w)}
      [] OTHER -> {}

\* What a process has requested and not yet released, by where it is.
Uses(t, at) ==
    CASE t[1] = "work" -> IF at \in {"gpu", "run"} THEN {Gpu(t[2])} ELSE {}
      [] t[1] = "checkpoint" -> CallUses(at, t[2])
      [] OTHER -> RecoveryUses(at, t[2])

Slots(res) == IF res = Store THEN StoreSlots ELSE 1

Users(res) == ToSet(SubSeq(queue[res], 1, Min({Slots(res), Len(queue[res])})))

\* Process t goes to "at": it keeps what it uses there too, except for the
\* resources in anew, releases the rest, and queues for what is new.
MoveAnew(t, at, anew) ==
    /\ pc' = [pc EXCEPT ![t] = at]
    /\ queue' = [res \in Resource |->
          IF res \notin Uses(t, at) THEN RemoveFirst(queue[res], t)
          ELSE IF res \in Uses(t, pc[t]) \ anew THEN queue[res]
          ELSE Append(RemoveFirst(queue[res], t), t)]

Move(t, at) == MoveAnew(t, at, {})

\* all_of over the requests: every one of them has been granted.
Granted(t) == \A res \in Uses(t, pc[t]) : t \in Users(res)

Waiting == {"gpu", "capture", "slot", "cpu"}

\* A process whose wait is over resumes before the clock moves, so timed work
\* and restart delays only end once there is none.
InstantOver ==
    \A t \in Task : /\ pc[t] \in Waiting => ~Granted(t)
                    /\ pc[t] = "wait" => failed[t[2]]

Aborted(t) == t \in stale \/ failed[t[2]]

First(t) == IF t[1] = "work" THEN "gpu" ELSE "capture"

\* The top of the retry loop: wait until the worker is healthy, then request.
Attempt(t) ==
    /\ IF failed[t[2]] THEN Move(t, "wait") ELSE MoveAnew(t, First(t), Resource)
    /\ stale' = stale \ {t}

-----------------------------------------------------------------------------
(* The job: DistributedJobRuntime.run. *)

Unwritten(i) == {Call(w, i) : w \in Writer}
Returned(cs) == \A t \in cs : pc[t] = "done"

\* Every worker's _gpu_work retries until it has run undisturbed.
StartWork(w) ==
    /\ pc[Work(w)] = "gpu" /\ Granted(Work(w))
    /\ IF failed[w] THEN Attempt(Work(w))
                    ELSE Move(Work(w), "run") /\ stale' = stale \ {Work(w)}
    /\ UNCHANGED <<jobVars, storeVars>>

FinishWork(w) ==
    /\ pc[Work(w)] = "run"
    /\ InstantOver
    /\ IF Aborted(Work(w)) THEN Attempt(Work(w))
                           ELSE Move(Work(w), "done") /\ UNCHANGED stale
    /\ UNCHANGED <<jobVars, storeVars>>

\* An asynchronous checkpoint does not hold up the next iteration.
GoesOn(i) == i < LastIteration /\ mode # "synchronous"

\* The iteration is over: with backpressure the calls of earlier ones are
\* awaited, then one call per shard is launched.
LaunchCheckpoints ==
    /\ \A w \in Worker : pc[Work(w)] = "done"
    /\ \A t \in Unwritten(iteration) : pc[t] = "idle"
    /\ mode = "backpressure"
          => \A i \in 1..(iteration - 1) : Returned(Unwritten(i))
    /\ pc' = [t \in Task |->
          IF t \in Unwritten(iteration) THEN "new"
          ELSE IF t[1] = "work" /\ GoesOn(iteration) THEN "new" ELSE pc[t]]
    /\ iteration' = iteration + (IF GoesOn(iteration) THEN 1 ELSE 0)
    /\ UNCHANGED <<setting, queue, failed, stale, failures, storeVars>>

\* A synchronous checkpoint is over.
NextIteration ==
    /\ Returned(Unwritten(iteration))
    /\ iteration < LastIteration
    /\ iteration' = iteration + 1
    /\ pc' = [t \in Task |-> IF t[1] = "work" THEN "new" ELSE pc[t]]
    /\ UNCHANGED <<setting, queue, failed, stale, failures, storeVars>>

JobOver == iteration = LastIteration /\ \A i \in Iteration : Returned(Unwritten(i))

-----------------------------------------------------------------------------
(* checkpoint(). *)

\* A process starts; a checkpoint() sets active_checkpoint_gb.
Begin(t) ==
    /\ pc[t] = "new"
    /\ Attempt(t)
    /\ active' = IF t \in Calls THEN active \cup {t[2]} ELSE active
    /\ UNCHANGED <<jobVars, latest, wanted, staged>>

\* recovered_event of a worker the process waits for.
Wake(t) ==
    /\ pc[t] = "wait" /\ ~failed[t[2]]
    /\ Attempt(t)
    /\ UNCHANGED <<jobVars, storeVars>>

\* The failure generation is captured once GPU and CPU are granted.
StartCapture(t) ==
    /\ pc[t] = "capture" /\ Granted(t)
    /\ IF failed[t[2]] THEN Attempt(t) ELSE Move(t, "copy") /\ stale' = stale \ {t}
    /\ UNCHANGED <<jobVars, storeVars>>

EndCapture(t) ==
    /\ pc[t] = "copy"
    /\ InstantOver
    /\ IF Aborted(t)
       THEN Attempt(t) /\ UNCHANGED staged
       ELSE Move(t, "slot") /\ staged' = staged \cup {t} /\ UNCHANGED stale
    /\ UNCHANGED <<jobVars, latest, wanted, active>>

TakeSlot(t) ==
    /\ pc[t] = "slot" /\ Granted(t)
    /\ Move(t, "cpu")
    /\ UNCHANGED <<stale, jobVars, storeVars>>

StartUpload(t) ==
    /\ pc[t] = "cpu" /\ Granted(t)
    /\ IF Aborted(t) THEN Attempt(t) /\ staged' = staged \ {t}
                     ELSE Move(t, "upload") /\ UNCHANGED <<stale, staged>>
    /\ UNCHANGED <<jobVars, latest, wanted, active>>

\* Mutant of Registered: the last upload to finish wins.
RegisteredLast(old, i) == i

Registered(old, i) == Max({i, old})

\* Mutant of UploadFailed: nothing is checked once the upload is over.
UploadUnchecked(t) == FALSE

UploadFailed(t) == Aborted(t)

EndUpload(t) ==
    /\ pc[t] = "upload"
    /\ InstantOver
    /\ staged' = staged \ {t}
    /\ IF UploadFailed(t)
       THEN Attempt(t) /\ UNCHANGED <<latest, active>>
       ELSE /\ Move(t, "done")
            /\ latest' = [latest EXCEPT ![StageOf[t[2]]] = Registered(@, t[3])]
            /\ active' = active \ {t[2]}
            /\ UNCHANGED stale
    /\ UNCHANGED <<jobVars, wanted>>

Checkpoint(t) == \/ StartCapture(t)
                 \/ EndCapture(t)
                 \/ TakeSlot(t)
                 \/ StartUpload(t)
                 \/ EndUpload(t)

-----------------------------------------------------------------------------
(* Failures and recover(). *)

\* A process that captured a generation of the worker holds an old one from
\* now on; a node or spot failure flushes DRAM, a process failure does not.
Fail(w) ==
    /\ ~JobOver
    /\ failures < MaxFailures
    /\ failures' = failures + 1
    /\ failed' = [failed EXCEPT ![w] = TRUE]
    /\ stale' = stale \cup {t \in Task : t[2] = w /\ Uses(t, pc[t]) # {}}
    /\ pc' = IF failed[w] THEN pc ELSE [pc EXCEPT ![Recovery(w)] = "restart"]
    /\ \E flushed \in BOOLEAN :
          staged' = IF flushed THEN {t \in staged : t[2] # w} ELSE staged
    /\ UNCHANGED <<setting, iteration, queue, latest, wanted, active>>

\* The restart delay is over; recover() reads what to restore, then queues.
CallRecover(w) ==
    /\ pc[Recovery(w)] = "restart"
    /\ InstantOver
    /\ Move(Recovery(w), "slot")
    /\ wanted' = [wanted EXCEPT ![w] = latest[StageOf[w]]]
    /\ UNCHANGED <<stale, jobVars, latest, active, staged>>

\* Mutant of StartDownload: the next recover() checks the same old generation.
KeepOldGeneration(w) ==
    LET t == Recovery(w) IN
    /\ pc[t] = "cpu" /\ Granted(t)
    /\ IF t \in stale THEN Move(t, "restart") ELSE Move(t, "download")
    /\ UNCHANGED <<stale, jobVars, storeVars>>

StartDownload(w) ==
    LET t == Recovery(w) IN
    /\ pc[t] = "cpu" /\ Granted(t)
    /\ IF t \in stale THEN Move(t, "restart") /\ stale' = stale \ {t}
                      ELSE Move(t, "download") /\ UNCHANGED stale
    /\ UNCHANGED <<jobVars, storeVars>>

EndDownload(w) ==
    LET t == Recovery(w) IN
    /\ pc[t] = "download"
    /\ InstantOver
    /\ IF t \in stale THEN Move(t, "restart") /\ stale' = stale \ {t}
                      ELSE Move(t, "gpu") /\ UNCHANGED stale
    /\ UNCHANGED <<jobVars, storeVars>>

StartRestore(w) ==
    LET t == Recovery(w) IN
    /\ pc[t] = "gpu" /\ Granted(t)
    /\ IF t \in stale THEN Move(t, "restart") /\ stale' = stale \ {t}
                      ELSE Move(t, "restore") /\ UNCHANGED stale
    /\ UNCHANGED <<jobVars, storeVars>>

EndRestore(w) ==
    LET t == Recovery(w) IN
    /\ pc[t] = "restore"
    /\ InstantOver
    /\ IF t \in stale
       THEN Move(t, "restart") /\ stale' = stale \ {t} /\ UNCHANGED failed
       ELSE Move(t, "idle") /\ failed' = [failed EXCEPT ![w] = FALSE] /\ UNCHANGED stale
    /\ UNCHANGED <<setting, iteration, failures, storeVars>>

Recover(w) == \/ CallRecover(w)
              \/ TakeSlot(Recovery(w))
              \/ StartDownload(w)
              \/ EndDownload(w)
              \/ StartRestore(w)
              \/ EndRestore(w)

-----------------------------------------------------------------------------

Init ==
    /\ setting \in Settings
    /\ iteration = 1
    /\ pc = [t \in Task |-> IF t[1] = "work" THEN "new" ELSE "idle"]
    /\ queue = [res \in Resource |-> <<>>]
    /\ failed = [w \in Worker |-> FALSE]
    /\ stale = {}
    /\ failures = 0
    /\ latest = [s \in Stage |-> 0]
    /\ wanted = [w \in Worker |-> 0]
    /\ active = {}
    /\ staged = {}

TaskStep(t) ==
    \/ Begin(t)
    \/ Wake(t)
    \/ t[1] = "work" /\ (StartWork(t[2]) \/ FinishWork(t[2]))
    \/ t \in Calls /\ Checkpoint(t)
    \/ t[1] = "recovery" /\ Recover(t[2])

AllDone == JobOver /\ (\A w \in Worker : ~failed[w]) /\ UNCHANGED vars

Next == \/ LaunchCheckpoints
        \/ NextIteration
        \/ \E t \in Task : TaskStep(t)
        \/ \E w \in Worker : Fail(w)
        \/ AllDone

Spec == Init /\ [][Next]_vars

\* The event loop never stops: see WorkerResources.
FairSpec == /\ Spec
            /\ WF_vars(LaunchCheckpoints) /\ WF_vars(NextIteration)
            /\ \A t \in MayBe : SF_vars(t \in Task /\ TaskStep(t))

-----------------------------------------------------------------------------
(* Properties. *)

\* Where a process of each kind can be in its code.
Places(t) ==
    CASE t[1] = "work" -> {"new", "wait", "gpu", "run", "done"}
      [] t[1] = "checkpoint" -> {"idle", "new", "wait", "capture", "copy", "slot", "cpu",
                                 "upload", "done"}
      [] OTHER -> {"idle", "restart", "slot", "cpu", "download", "gpu", "restore"}

\* Every queue holds exactly the processes whose code has the request out.
TypeOK ==
    /\ setting \in Settings
    /\ iteration \in Iteration
    /\ DOMAIN pc = Task /\ \A t \in Task : pc[t] \in Places(t)
    /\ failed \in [Worker -> BOOLEAN]
    /\ stale \subseteq Task /\ staged \subseteq Calls /\ active \subseteq Writer
    /\ failures \in 0..MaxFailures
    /\ latest \in [Stage -> 0..LastIteration]
    /\ wanted \in [Worker -> 0..LastIteration]
    /\ \A res \in Resource :
          /\ IsInjective(queue[res])
          /\ ToSet(queue[res]) = {t \in Task : res \in Uses(t, pc[t])}

\* What an upload registers is what its capture staged: the shard was never
\* flushed from DRAM on the way, not even by a failure that is already over
\* (object_store.py:140-145, 164-168).
UploadsWhatWasCaptured ==
    [][\A s \in Stage : latest'[s] # latest[s]
         => \E t \in staged : t[3] = latest'[s] /\ StageOf[t[2]] = s]_vars

\* The store never falls behind a checkpoint() that returned, however late an
\* older upload, retried after a failure, comes in (object_store.py:208-214).
NewestUploadKept ==
    \A t \in Calls : pc[t] = "done" => latest[StageOf[t[2]]] >= t[3]

\* With synchronous checkpoints the whole group is in the store before the next
\* iteration starts (runtime.py:991-995).
GroupComplete ==
    mode = "synchronous" => \A s \in Stage : latest[s] >= iteration - 1

\* A writer is restored from its newest shard, although recover() reads which
\* one that is before it queues (object_store.py:233): its own uploads are all
\* abandoned until it is back.  A replica has no such luck: the shard it chose
\* may be superseded while it waits for the store.
WriterRestoresNewest ==
    [][\A w \in Writer :
         failed[w] /\ ~failed'[w] => wanted[w] = latest[StageOf[w]]]_vars

\* A shard of an unfinished checkpoint() that is in DRAM is still counted by
\* active_checkpoint_gb, whose loss a failure reports, although the attempt that
\* staged it may be the third (object_store.py:64, 81, 222).  Calls that overlap
\* share the counter and do not have this.
LossReported == mode # "asynchronous" => \A t \in staged : t[2] \in active

\* The queues are those of the requests that are out, and the store has every
\* checkpoint whose call returned, the whole group's before a synchronous job goes on;
\* what is lost with DRAM is reported.
StoreExact == TypeOK /\ NewestUploadKept /\ GroupComplete /\ LossReported

\* Every checkpoint and every recovery completes in the end, however often
\* failures interrupt them.
EverythingCompletes == <>(JobOver /\ \A w \in Worker : ~failed[w])

-----------------------------------------------------------------------------
(* The inductive invariant (ObjectStoreProofs). *)

QueuesOfTasks == queue \in [Resource -> Seq(Task)]

\* A worker is failed as long as its recovery is at work.
DownIsRecovered == \A w \in Worker : failed[w] <=> pc[Recovery(w)] # "idle"

\* What a call staged is in DRAM until it ends, unless a failure has made its
\* generation an old one, which it does even if the worker is back by then.
StagedUntilStale ==
    /\ \A t \in staged : pc[t] \in {"slot", "cpu", "upload"}
    /\ \A t \in Calls :
          pc[t] \in {"slot", "cpu", "upload"} /\ t \notin stale
              => t \in staged /\ ~failed[t[2]]

\* Nothing supersedes the shard that a writer restores.
ChosenIsNewest ==
    \A w \in Writer : pc[Recovery(w)] \notin {"idle", "restart"}
                         => wanted[w] = latest[StageOf[w]]

\* Calls are launched iteration by iteration, when all workers have done theirs,
\* and a synchronous job waits for them.
LaunchedInOrder ==
    \A t \in Calls :
        /\ t[3] > iteration => pc[t] = "idle"
        /\ t[3] = iteration /\ pc[t] # "idle" => \A w \in Worker : pc[Work(w)] = "done"
        /\ mode = "synchronous" /\ t[3] < iteration => pc[t] = "done"

\* Without overlap a writer has one call at a time, and counts it.
OneAtATime ==
    mode # "asynchronous" =>
        /\ \A t, u \in Calls : /\ t[2] = u[2]
                               /\ pc[t] \notin {"idle", "done"}
                               /\ pc[u] \notin {"idle", "done"}
                               => t = u
        /\ \A t \in Calls : pc[t] \notin {"idle", "new", "done"} => t[2] \in active

Inductive == /\ TypeOK /\ QueuesOfTasks /\ DownIsRecovered /\ StagedUntilStale
             /\ ChosenIsNewest /\ LaunchedInOrder /\ OneAtATime
             /\ NewestUploadKept /\ GroupComplete

=============================================================================
