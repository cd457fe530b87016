-------------------------- MODULE WorkerResources --------------------------
(***************************************************************************)
(* The exclusive resources of one checkpoint pair and the processes that   *)
(* queue for them: jobs/runtime.py (compute, pipeline transfers, all-      *)
(* reduce), checkpointing/tiered.py (capture, chunked flush, recovery) and *)
(* jobs/failures.py, over the Resource and PriorityResource of             *)
(* simpy/__init__.py.                                                      *)
(*                                                                         *)
(* A process runs from one yield to the next without interruption, so each *)
(* action is such a segment: what a process does once all it asked for is  *)
(* granted, or once the work it was timing is over, up to its next         *)
(* requests.  Durations are abstracted: any order of completions that the  *)
(* configured seconds can produce is a behaviour, and which operation the  *)
(* schedule of a job starts next is left open.                             *)
(*                                                                         *)
(* A process compares failure_generation with the value it captured; here  *)
(* "stale" holds the processes for which the two differ.                   *)
(***************************************************************************)
EXTENDS Integers, Sequences, FiniteSets, SequencesExt, Queues

CONSTANTS
    Rank,          \* the two workers of a pair, one per physical node
    Transfer,      \* pipeline transfers between them (one per microbatch)
    Collective,    \* data-parallel all-reduces over both
    CaptureModes,  \* values of nonblocking_capture to consider
    MaxFailures    \* bound on failure signals

ASSUME ResourcesAssumption ==
    /\ Cardinality(Rank) = 2
    /\ CaptureModes \subseteq BOOLEAN
    /\ MaxFailures \in Nat

Work(r) == <<"work", r>>
Checkpoint(r) == <<"checkpoint", r>>
Recovery(r) == <<"recovery", r>>

Training == {Work(r) : r \in Rank} \cup ({"transfer"} \X Transfer)
                                   \cup ({"collective"} \X Collective)
Task == Training \cup {Checkpoint(r) : r \in Rank}
                 \cup {Recovery(r) : r \in Rank}

Gpu(r) == <<"gpu", r>>
Cpu(r) == <<"cpu", r>>
Link == <<"link">>
Slot == <<"slot">>
Resource == ({"gpu", "cpu"} \X Rank) \cup {Link, Slot}

Partner(r) == CHOOSE q \in Rank : q # r

VARIABLES
    nonblocking, \* TieredCheckpointStrategy.nonblocking_capture: a parameter
    pc,          \* where each process is in its code
    queue,       \* per resource: its user, then the waiting requests in order
    failed,      \* worker.failed
    stale,       \* processes whose captured failure generations are outdated
    failures     \* failure signals so far (bounds the model)

vars == <<nonblocking, pc, queue, failed, stale, failures>>

-----------------------------------------------------------------------------
(* Requests. *)

\* Mutant of TransferUses: the launch is taken together with the GPUs.
LaunchTakesGpus(at) ==
    CASE at \in {"cpu", "launch"} -> {Cpu(r) : r \in Rank} \cup {Gpu(r) : r \in Rank}
      [] at \in {"gpu", "run"} -> {Link} \cup {Gpu(r) : r \in Rank}
      [] OTHER -> {}

TransferUses(at) ==
    CASE at \in {"cpu", "launch"} -> {Cpu(r) : r \in Rank}
      [] at \in {"gpu", "run"} -> {Link} \cup {Gpu(r) : r \in Rank}
      [] OTHER -> {}

\* What a process has requested and not yet released, by where it is.
Uses(t, at) ==
    CASE t[1] = "work" /\ at \in {"gpu", "run"} -> {Gpu(t[2])}
      [] t[1] = "collective" /\ at \in {"gpu", "run"} -> {Gpu(r) : r \in Rank}
      [] t[1] = "transfer" -> TransferUses(at)
      [] t[1] = "checkpoint" /\ at = "gpu" -> {Gpu(t[2])}
      [] t[1] = "checkpoint" /\ at \in {"cpu", "copy"} ->
            {Cpu(t[2])} \cup (IF nonblocking THEN {} ELSE {Gpu(t[2])})
      [] at \in {"ssd", "ssd write"} -> {Cpu(t[2])}
      [] at = "peer slot" -> {Slot}
      [] at \in {"peer", "peer write"} -> {Slot, Cpu(t[2])}
      [] at \in {"peer ssd", "peer ssd write"} -> {Cpu(Partner(t[2]))}
      [] at \in {"fetch", "fetching"} -> {Cpu(t[2])}
      [] at \in {"restore", "restoring"} -> {Cpu(t[2]), Gpu(t[2])}
      [] OTHER -> {}

\* The places of a process in its code: before and between its operations, at
\* its requests, and at the work these are for.
Flushing == {"ssd", "ssd write", "peer slot", "peer", "peer write",
             "peer ssd", "peer ssd write"}

Place == {"new", "wait", "gpu", "run", "cpu", "launch", "copy", "done", "idle",
          "restart", "fetch", "fetching", "restore", "restoring"} \cup Flushing

\* Mutant of Priority: recovery asks like everybody else.
UnprivilegedRecovery(t, at) == IF at \in Flushing THEN 10 ELSE 0

\* The priority of a CPU request; a smaller number is served first.
Priority(t, at) == IF t[1] = "recovery" THEN -10
                   ELSE IF at \in Flushing THEN 10 ELSE 0

\* A CPU is a PriorityResource: its user keeps it, the waiting requests are
\* ordered by priority and, within one priority, by age.  The other resources
\* are first come, first served.
Enqueue(q, res, t, at) ==
    LET ahead == {i \in 1..Len(q) : \/ i = 1
                                    \/ res[1] # "cpu"
                                    \/ Priority(q[i], pc[q[i]]) <= Priority(t, at)}
    IN  InsertAt(q, Cardinality(ahead) + 1, t)

\* Process t goes to "at": it keeps the resources in kept, releases the others
\* it has, then requests those it uses next.  A release passes the resource to
\* the first waiting request.
Move(t, at, kept) ==
    /\ pc' = [pc EXCEPT ![t] = at]
    /\ queue' = [res \in Resource |->
          IF res \in kept THEN queue[res]
          ELSE IF res \in Uses(t, at) THEN Enqueue(RemoveFirst(queue[res], t), res, t, at)
          ELSE RemoveFirst(queue[res], t)]

Hold(t, at) == Move(t, at, Uses(t, pc[t]))
Release(t, at) == Move(t, at, {})

\* all_of over the requests: every one of them has been granted.
Granted(t) == \A res \in Uses(t, pc[t]) : Head(queue[res]) = t

\* The workers whose health a process watches.
Watched(t, at) ==
    CASE t[1] \in {"transfer", "collective"} -> Rank
      [] t[1] = "checkpoint" /\ at \in Flushing \ {"ssd", "ssd write"} -> Rank
      [] OTHER -> {t[2]}

Down(t, at) == \E r \in Watched(t, at) : failed[r]
Aborted(t) == t \in stale \/ (t[1] # "recovery" /\ Down(t, pc[t]))

\* Where a process waits for its requests to be granted.
Waiting == {"gpu", "cpu", "ssd", "peer slot", "peer", "peer ssd", "fetch", "restore"}

\* A process whose wait is over resumes before the clock moves, so timed work
\* and restart delays only end once there is none.
InstantOver ==
    \A t \in Task : /\ pc[t] \in Waiting => ~Granted(t)
                    /\ pc[t] = "wait" => Down(t, "wait")

-----------------------------------------------------------------------------
(* The retry loop every operation but recovery runs in. *)

First(t) == CASE t[1] \in {"work", "collective"} -> "gpu"
              [] t[1] = "transfer" -> "cpu"
              [] OTHER -> IF nonblocking THEN "cpu" ELSE "gpu"

\* Mutant of Attempt: the generations are captured once, before the loop.
AttemptOnOldGeneration(t) ==
    /\ IF Down(t, "wait") THEN Release(t, "wait") ELSE Release(t, First(t))
    /\ UNCHANGED stale

\* The top of the loop: wait until the workers are healthy, capture their
\* generations, and request the first resources.
Attempt(t) ==
    /\ IF Down(t, "wait") THEN Release(t, "wait") ELSE Release(t, First(t))
    /\ stale' = stale \ {t}

Begin(t) == /\ pc[t] = "new"
            /\ Attempt(t)
            /\ UNCHANGED <<failed, failures>>

\* recovered_event of a worker the process waits for.
Wake(t) == /\ pc[t] = "wait"
           /\ ~Down(t, "wait")
           /\ Attempt(t)
           /\ UNCHANGED <<failed, failures>>

\* Everything the process asked for is granted: it starts the work it needs it
\* for, unless a worker it watches has failed meanwhile.
Start(t, from, to) ==
    /\ pc[t] = from
    /\ Granted(t)
    /\ IF Aborted(t) THEN Attempt(t) ELSE Hold(t, to) /\ UNCHANGED stale
    /\ UNCHANGED <<failed, failures>>

\* A grant after which the code requests the next resource without a check.
Collect(t, from, to) ==
    /\ pc[t] = from
    /\ Granted(t)
    /\ Hold(t, to)
    /\ UNCHANGED <<stale, failed, failures>>

\* The timed work is over or, a worker it watches having failed, given up.
\* Either way its resources are released.
End(t, from, to) ==
    /\ pc[t] = from
    /\ InstantOver
    /\ IF Aborted(t) THEN Attempt(t) ELSE Release(t, to) /\ UNCHANGED stale
    /\ UNCHANGED <<failed, failures>>

-----------------------------------------------------------------------------
(* Training. *)

\* _gpu_work and _data_parallel_all_reduce capture the generations only once
\* the GPUs are granted.
StartGpuWork(t) ==
    /\ t[1] \in {"work", "collective"}
    /\ pc[t] = "gpu"
    /\ Granted(t)
    /\ IF Down(t, "gpu") THEN Attempt(t)
                         ELSE Hold(t, "run") /\ stale' = stale \ {t}
    /\ UNCHANGED <<failed, failures>>

PipelineTransfer(t) ==
    /\ t[1] = "transfer"
    /\ \/ Start(t, "cpu", "launch")
       \/ End(t, "launch", "gpu")
       \/ Start(t, "gpu", "run")

FinishTraining(t) == End(t, "run", "done")

TrainingStep(t) == StartGpuWork(t) \/ PipelineTransfer(t) \/ FinishTraining(t)

-----------------------------------------------------------------------------
(* TieredCheckpointStrategy.checkpoint, paired and with SSD copies. *)

Capture(t) == \/ Collect(t, "gpu", "cpu")
              \/ Start(t, "cpu", "copy")
              \/ End(t, "copy", "ssd")

\* _persist_checkpoint, one chunk per destination.
Flush(t) == \/ Start(t, "ssd", "ssd write")
            \/ End(t, "ssd write", "peer slot")
            \/ Collect(t, "peer slot", "peer")
            \/ Start(t, "peer", "peer write")
            \/ End(t, "peer write", "peer ssd")
            \/ Start(t, "peer ssd", "peer ssd write")
            \/ End(t, "peer ssd write", "done")

-----------------------------------------------------------------------------
(* Failures and recovery. *)

Fail(r) ==
    /\ failures < MaxFailures
    /\ failures' = failures + 1
    /\ failed' = [failed EXCEPT ![r] = TRUE]
    /\ stale' = stale \cup {t \in Task : /\ r \in Watched(t, pc[t])
                                         /\ Uses(t, pc[t]) # {}}
    /\ pc' = IF failed[r] THEN pc ELSE [pc EXCEPT ![Recovery(r)] = "restart"]
    /\ UNCHANGED <<nonblocking, queue>>

\* The restart delay is over and recover() picks a copy: one in the worker's
\* own DRAM needs no fetch.
EndRestart(r) ==
    /\ pc[Recovery(r)] = "restart"
    /\ InstantOver
    /\ \E at \in {"fetch", "restore"} : Release(Recovery(r), at)
    /\ UNCHANGED <<failed, stale, failures>>

\* A generation that changed under recover() makes it release everything; the
\* controller waits for the new restart delay.
GiveUp(r) ==
    /\ Recovery(r) \in stale
    /\ pc[Recovery(r)] \in Waiting \/ InstantOver
    /\ Granted(Recovery(r))
    /\ Release(Recovery(r), "restart")
    /\ stale' = stale \ {Recovery(r)}
    /\ UNCHANGED <<failed, failures>>

\* _recovery_chunks and the DRAM-to-GPU restore.
StartCopy(r, from, to) ==
    /\ pc[Recovery(r)] = from
    /\ Recovery(r) \notin stale
    /\ Granted(Recovery(r))
    /\ Hold(Recovery(r), to)
    /\ UNCHANGED <<failed, stale, failures>>

EndFetch(r) ==
    /\ pc[Recovery(r)] = "fetching"
    /\ InstantOver
    /\ Recovery(r) \notin stale
    /\ Release(Recovery(r), "restore")
    /\ UNCHANGED <<failed, stale, failures>>

EndRestore(r) ==
    /\ pc[Recovery(r)] = "restoring"
    /\ InstantOver
    /\ Recovery(r) \notin stale
    /\ Release(Recovery(r), "idle")
    /\ failed' = [failed EXCEPT ![r] = FALSE]
    /\ UNCHANGED <<stale, failures>>

Recover(r) ==
    \/ EndRestart(r)
    \/ GiveUp(r)
    \/ StartCopy(r, "fetch", "fetching")
    \/ StartCopy(r, "restore", "restoring")
    \/ EndFetch(r)
    \/ EndRestore(r)

-----------------------------------------------------------------------------

Init ==
    /\ nonblocking \in CaptureModes
    /\ pc = [t \in Task |-> IF t[1] = "recovery" THEN "idle" ELSE "new"]
    /\ queue = [res \in Resource |-> <<>>]
    /\ failed = [r \in Rank |-> FALSE]
    /\ stale = {}
    /\ failures = 0

TaskStep(t) ==
    /\ UNCHANGED nonblocking
    /\ \/ Begin(t)
       \/ Wake(t)
       \/ t \in Training /\ TrainingStep(t)
       \/ t[1] = "checkpoint" /\ (Capture(t) \/ Flush(t))
       \/ t[1] = "recovery" /\ Recover(t[2])

AllDone == /\ UNCHANGED vars
           /\ \A t \in Task : pc[t] \in {"done", "idle"}

Next == \/ \E t \in Task : TaskStep(t)
        \/ \E r \in Rank : Fail(r)
        \/ AllDone

Spec == Init /\ [][Next]_vars

\* The event loop never stops: a process whose wait is over resumes, and timed
\* work and restart delays last a finite time.  The fairness is strong because
\* they end only between two instants (InstantOver), which other processes bring
\* about again and again but not for good.
FairSpec == Spec /\ \A t \in Task : SF_vars(TaskStep(t))

-----------------------------------------------------------------------------
(* Properties. *)

\* Every queue holds exactly the processes whose code has the request out.
TypeOK ==
    /\ nonblocking \in CaptureModes
    /\ pc \in [Task -> Place]
    /\ failed \in [Rank -> BOOLEAN]
    /\ stale \subseteq Task
    /\ failures \in 0..MaxFailures
    /\ \A res \in Resource :
          /\ IsInjective(queue[res])
          /\ ToSet(queue[res]) = {t \in Task : res \in Uses(t, pc[t])}

\* Process t has asked for something that process u has.
WaitsFor(t, u) ==
    \E res \in Resource : /\ queue[res] # <<>>
                          /\ Head(queue[res]) = u
                          /\ t \in ToSet(Tail(queue[res]))

\* No process of the set can go on before another of the set does.
Deadlocked(S) == \A t \in S : \E u \in S : WaitsFor(t, u)

Blocked == {t \in Task : \E u \in Task : WaitsFor(t, u)}

\* By default a capture holds its GPU while it waits for the CPU.
SerializedCaptures ==
    {t \in Task : ~nonblocking /\ t[1] = "checkpoint" /\ pc[t] = "cpu"}

\* With nonblocking_capture no set of processes ends up waiting for each other
\* in a circle: recovery takes the CPU and the GPU at once and everything else
\* takes them in a consistent order (tiered.py:703-705, 265-270, 553-560 and
\* runtime.py:450-460).  By default every such circle goes through a capture
\* (tiered.py:268-270): nothing else deadlocks.
NoDeadlock ==
    \A S \in (SUBSET (Blocked \ SerializedCaptures)) \ {{}} : ~Deadlocked(S)

\* A recovery that waits for its CPU gets it next: no capture, flush chunk or
\* transfer launch that waits as well is served before it.
RecoveryServedFirst ==
    [][\A r \in Rank :
         LET q == queue[Cpu(r)]
         IN  (\E i \in 2..Len(q) : q[i] = Recovery(r))
             => Head(queue'[Cpu(r)]) \in {Head(q), Recovery(r)}]_vars

\* A failed worker is back in service in the end, however often it fails on
\* the way (README.md:232-237).
FailedWorkersRecover == \A r \in Rank : failed[r] ~> ~failed[r]

\* With nonblocking_capture every operation that was started completes, however
\* often it is interrupted and retried, and every recovery ends.
EverythingCompletes == nonblocking => <>(\A t \in Task : pc[t] \in {"done", "idle"})

-----------------------------------------------------------------------------
(* The inductive invariant (WorkerResourcesProofs). *)

Shared == ({"transfer"} \X Transfer) \cup ({"collective"} \X Collective)

\* Where a process of each kind can be in its code.
Places(t) ==
    CASE t[1] \in {"work", "collective"} -> {"new", "wait", "gpu", "run", "done"}
      [] t[1] = "transfer" -> {"new", "wait", "cpu", "launch", "gpu", "run", "done"}
      [] t[1] = "checkpoint" -> {"new", "wait", "cpu", "copy", "done"} \cup Flushing
                                    \cup (IF nonblocking THEN {} ELSE {"gpu"})
      [] OTHER -> {"idle", "restart", "fetch", "fetching", "restore", "restoring"}

Located == \A t \in Task : pc[t] \in Places(t)

QueuesOfTasks == queue \in [Resource -> Seq(Task)]

\* A worker is failed as long as its recovery is at work, which holds an old
\* generation only while it has requests out.
DownIsRecovered ==
    \A r \in Rank : /\ failed[r] <=> pc[Recovery(r)] # "idle"
                    /\ Recovery(r) \in stale => Uses(Recovery(r), pc[Recovery(r)]) # {}

\* What a process was granted before it got where it is.
Secured(t, at) ==
    CASE at \notin Waiting -> Uses(t, at)
      [] at = "peer" -> {Slot}
      [] t[1] = "checkpoint" /\ at = "cpu" -> IF nonblocking THEN {} ELSE {Gpu(t[2])}
      [] OTHER -> {}

SecuredIsHeld ==
    \A t \in Task, res \in Resource :
        res \in Secured(t, pc[t]) => queue[res] # <<>> /\ Head(queue[res]) = t

\* The requests that wait for a CPU are in the order of their priorities.
ByPriority ==
    \A r \in Rank, t, u \in Task :
        Before(queue[Cpu(r)], t, u) /\ Head(queue[Cpu(r)]) # t
            => Priority(t, pc[t]) <= Priority(u, pc[u])

\* Transfers and collectives ask for all they need at once, so that any two of
\* them are in the same order wherever both are.
SameOrder ==
    \A t, u \in Shared : \A res, other \in Resource :
        /\ {res, other} \subseteq Uses(t, pc[t]) \cap Uses(u, pc[u])
        /\ Before(queue[res], t, u)
        => Before(queue[other], t, u)

\* Nobody asks for the GPU of a failed worker but its recovery.
RecoveryIsLast ==
    \A r \in Rank, t \in Task : ~Before(queue[Gpu(r)], Recovery(r), t)

Inductive == /\ TypeOK /\ QueuesOfTasks /\ Located /\ DownIsRecovered
             /\ SecuredIsHeld /\ ByPriority /\ SameOrder /\ RecoveryIsLast

=============================================================================
