# Verification of the checkpoint simulator

TLA+ specifications of the simulator in `src/Check_point_Simulator_Simpy`, the
TLC runs that check them on small instances, and TLAPS proofs of the results
that matter most. The simulator is a discrete-event program: every process is a
Python generator that an event loop resumes, so everything between two `yield`s
is atomic, and everything that can go wrong goes wrong across a `yield`. An
action of a module is what one process does between two `yield`s (or, where the
header of a module says so, a sequence of them that only its last test
distinguishes).

## The system

| Component | State it keeps | Operations | Interacts with |
| --- | --- | --- | --- |
| Failure controller (`jobs/failures.py`) | per worker: failed, failure_started, failure_type, failure_types_seen, failure_batch_size, failed_until, failure_generation, recovered_event | sample once per second, apply or coalesce a signal, wait out the restart, call `recover()`, accept or retry | calls `handle_failure` and `recover` of the checkpoint strategy; every other process polls `failed` and `failure_generation` and waits on `recovered_event` |
| Tiered strategy (`checkpointing/tiered.py`) | copies by (owner, location, tier), one lock per rank, stage events | `checkpoint` (capture, local SSD, partner DRAM, partner SSD, cleanup), `handle_failure`, `recover` | launched by the job runtime, called by the failure controller, shares GPU, CPU and pair slots with training |
| Job runtime (`jobs/runtime.py`) | current_iteration, checkpoint_processes, pair slots | microbatches through the pipeline, data-parallel all-reduce, optimizer, checkpoint launches, backpressure | retries its work when a worker fails under it |
| Object store strategy (`checkpointing/object_store.py`) | newest upload per shard, pending uploads | capture, serialized upload with supersession, recover | as the tiered strategy |
| Event kernel (`simpy/__init__.py`, `simulation/`) | event heap, process wait tokens, resource queues, container levels | schedule, resume, interrupt, any_of/all_of, request/release, put/get, `advance_work` | runs everything |
| Donor registry (in `checkpointing/crossjob.py`) | candidates, host slots, DRAM and disk books | select donors, acquire and release slots, evict | used by the cross-job strategy and by failures |
| Cross-job strategy (`checkpointing/crossjob.py`, `baselines.py`) | wave state, peer pieces, store copies, ledgers | snapshot, flush to peers or store, supersede, demote DRAM, drain to the store, discard after a rollback, stitched and parity recovery | donors, capacity model, cohort runtime |
| Capacity model (`checkpointing/capacity.py`) | flows, groups, rates, completion heap, wake-ups | arm, pump, reallocate, complete, dismiss, abort | every bulk transfer of the cross-job strategy |
| Baseline strategies (`checkpointing/baselines.py`, placement `injob_ssd`) | recorded copies, flights, epochs | replicate to peers of the job, persist to disk or store, drain just in time, recover | cohort runtime |
| Cohort runtime (`run_scenario.py`) | iteration, epochs, recovery plan, rack state | train, checkpoint waves, single-node, trace, rack and preemption failures, rollback | cross-job and baseline strategies |
| Failure-trace replay (`run_scenario.py`) | normalised events, pending chain, window accounting | normalise, deliver at an instant, restart, snapshot at the window | cohort runtime |
| Scenario arm (`run_arm`, `run_crossjob.py`) | job states, policy in force, evictions, background flushes | admit, re-solve, evict, cap, drain | starts cohort runtimes |
| Aggregate and chunked runtimes (`jobs/aggregate_runtime.py`, `chunked_runtime.py`) | as the job runtime, with one GPU and CPU for all ranks | train, checkpoint to store or tiers, record failures | share the object store |
| Legacy nodes (`main.py`, `nodes/`) | rank steps, memory levels, checkpoint slot | train in step, inject failures, checkpoint pipeline of rank 0 | the kernel only |
| Hardware benchmark (`validation/four_node/`) | real ranks, collectives, checkpoint threads | data-parallel and pipeline training, synchronous and threaded checkpoints | `torch.distributed` |
| Configuration, parallelism (`jobs/config.py`, `checkpointing/parallelism.py`) | none | validate, rank layout, shard sizes | everything |
| Policy solvers (`gp_policy.py`, `grouped_checkpoint_optimizer/`) | none | frequency, donor budget, phase packing | produce the policies that scenarios run |
| Trace validator, reports | none that outlives a call | offline | read finished traces |

What is hard here: signals that arrive while a restart, a restore or another
signal is in progress; checkpoints that span several `yield`s and two ranks
while either may fail and come back in between; copies of several ages in
several tiers, some of them wiped; uploads and flushes that finish out of order;
rollback against work still in flight; queues for GPU, CPU and donors that are
held across waits.

What makes each component correct:

- Failure controller: a worker is in service only after every signal's restart
  delay and a restore that no signal overtook; each outage has one process that
  ends it; coalesced signals count at their highest severity.
- Tiered strategy: a checkpoint is complete only when every configured tier has
  it; a completed one is lost only with its tiers; recovery resumes from the
  newest copy within reach; training runs ahead only as far as the mode allows.
- Worker resources: no circle of processes waits for each other; an interrupted
  operation returns exactly what it holds; recovery comes first.
- Object store: the store never falls behind a checkpoint that returned, and
  registers only what was captured; a synchronous group is complete.
- Event kernel: every yield is answered by one resume, for the event yielded;
  conditions trigger exactly when their members say so; callbacks run by time,
  urgency and age; resources are served in order and never idle.
- Donor registry: the books of slots, DRAM and bytes balance over any sequence of
  reservations, partial grants, failures, relocations and ends of waves; donors are
  spread as far as they can be, or the wave is flagged.
- Cross-job strategy: what recovery takes for a complete checkpoint has all its
  pieces; a slow flush of an old wave never counts for a newer one; a rollback
  leaves nothing newer behind.
- Capacity model: a flow ends when it is due, however often it is reallocated; a
  transfer that was hit never reports success; what is over holds no bandwidth.
- Baseline strategies: what is recorded exists, and what exists is recorded.
- Cohort runtime: after any failure all members resume from the newest iteration that
  every one of them can restore, and lost work is booked once.
- Trace replay: each failure is counted once, and the window adds up.
- Scenario arm: jobs follow the policy of those that run; the arm ends with nothing
  in flight.
- Other training loops: peers are in the same operation, checkpoints complete in
  order, every rank and process ends.

## Modules

| Module | Models | Against |
| --- | --- | --- |
| `Outage` | What failure handling promises: up, restart, restore, and back to the restart at every signal | abstract |
| `FailureController` | The controller with time, severities, coalescing and the recovery loop | implements `Outage` |
| `TieredCheckpoint` | The training loop, the tiered strategy and recovery together | implements `Outage` |
| `WorkerResources` | GPU, CPU, link and pair-slot queues of a pair, and every process that queues there | |
| `ObjectStoreCheckpoint` | The object-store strategy, the job loop that launches it, and the queues they use | |
| `EventKernel` | Environment, events, timeouts, processes, interrupts and conditions | |
| `ResourceQueues` | `Resource` and `PriorityResource`, with the list that `heapq` orders | |
| `CrossJob` | One rank's waves to donors of other jobs, what becomes of the pieces, its failures and theirs, rollback and recovery | |
| `DonorRegistry` | The board of several jobs and cohorts: matching, partial grants, parity, slots, DRAM, bytes | |
| `Capacity` | The event engine of the capacity registry and the transfers that use it | |
| `InJobReplicas` | Baseline strategies and `injob_ssd`: recorded copies against those that exist | |
| `CohortRuntime` | A job of several cohorts under all sources of failures, copies by tier, rollback | |
| `TraceReplay` | The same job in time, with the events of a trace and the accounting of its window | |
| `ScenarioArm` | `run_arm`: admission, policy, evictions, cap and drain | |
| `LargeScale` | The two runtimes for large jobs, on a shared store | |
| `LegacyTraining` | `main.py` on `nodes/` | |
| `TrainingBenchmark` | The benchmark on real nodes | |
| `MC...` | Constants of the runs, and several machines in one run | |
| `Queues` | The order of the requests in the queue of a resource | |
| `DataLemmas` | Lemmas that several proofs share: `Min`, `Max`, the order in queues, intervals of checkpoints | |
| `TrainingLoopsProofs` | Theorems about `FailureController`, `TrainingBenchmark`, `LargeScale` and `LegacyTraining` | |
| `CohortRuntimeProofs` | Theorems about `CohortRuntime`, `Capacity` and `TraceReplay` | |
| `ScenarioArmProofs` | Theorems about `ScenarioArm` and `InJobReplicas` | |
| `CrossJobProofs` | Theorems about `CrossJob` and `DonorRegistry` | |
| `TieredCheckpointProofs` | Theorems about `TieredCheckpoint` and `EventKernel` | |
| `WorkerResourcesProofs`, `ObjectStoreProofs` | Theorems about the module of the same name | |

### State and actions

`FailureController`: `Sample(hit)` is one turn of `monitor` with the batch it
drew, including `_apply_failure` for every worker in it; `CallRecover`,
`RecoverReturns`, `BackInService` and `RecoverAgain` are the segments of
`_recover` between its yields; `Tick` is the second that `monitor` sleeps, and
counts every running restart delay down. Times are relative, so that the state
space is finite. `owed` is a history variable: how long until the restart delay
of every signal received so far has passed.

`TieredCheckpoint`: `stage`, `saving`, `watched` and `watchedPeer` are the locals
of the `checkpoint()` call that has the rank's lock; a stage has the name of the
place that it fills. `recovery`, `source` and `called` are those of `_recover`
and `recover()`. `copies[o][p]` is the iteration of the copy of owner `o` in a
place (own DRAM, own SSD, partner's DRAM, partner's SSD), -1 when there is none.
`acked` and `surviving` are history: the last iteration whose persistence ran to
its end, and the places that have not been wiped since. That recovery gets the
GPU and CPU it asks for is assumed here, and is what `WorkerResources` is about.

`WorkerResources`: `pc[t]` is where process `t` is in its code, and `Uses(t, at)`
what it has requested and not yet released there. `queue[r]` is `users` followed
by `queue` of a `Resource`, which for a CPU is ordered by priority. `Move` is one
`yield` to the next: it releases, then requests. `stale` holds the processes
whose captured `failure_generation` is no longer the worker's; capturing one
removes the process from it. One worker has one CPU, a chunked flush has one
chunk per tier, and each rank takes one checkpoint, so that the lock of a rank
never has two takers; which operation the pipeline schedule starts next is open.

`ObjectStoreCheckpoint`: the same vocabulary for `checkpoint()` and `recover()` of
the object store. `latest` is `latest_checkpoint_iterations`, `active` the workers
with `active_checkpoint_gb > 0`, `wanted` the iteration a `recover()` has read.
`staged` is history: calls whose shard is in DRAM. An iteration of training is one
use of each worker's GPU. Chunk pacing and slowdowns only change how long work
takes, and durations are open.

`EventKernel`: `agenda` is the heap of `_ScheduledCallback` as the sequence in
which it will be popped; an entry is what it calls. `ResumeProcess` starts a turn
of a process, the calls it makes (`CreateTimeout`, `TriggerEvent`,
`CreateCondition`, `Interrupt`, ...) are actions, `Yield` and `EndProcess` end the
turn. `KernelAssumption`: finitely many processes, none of which is one of the events that
`event()`, `timeout()` and conditions make. What generators do is left open, with one restriction: nobody interrupts a
process again before it has run, as `main.py:299-303` sees to. That the agenda is
a sequence assumes `heapq` for entries that are never removed from the middle.

`ResourceQueues`: a request that still waits can be withdrawn, and
`PriorityResource` filters the list of its heap to do so; so the model has the
list, with `heapq`'s sift operations (external) as recursive operators.

`CrossJob`: `captures`, `queue` and `flush` are the three places a checkpoint
passes: `checkpoint()`, the wait for the rank's flush lock, and `_persist_flow`
with the lock held. `wave`, `granted` and `aborted` are that flow's arguments,
grant and abort event. `pieces` and `shadow` are `peer_copies` and `dram_shadow`
of the owner, `l3` its `l3_pieces`; `demotions`, `chains`, `drains` and
`stragglers` are the background processes, each with what it captured. An owner
fails at iteration boundaries (`OwnerFails`), discards what is newer and chooses a
source after its restart delay (`StartRecovery`), and discards again when
`recover()` has returned (`FinishRecovery`). A transfer that ends is one step with
what its process does next. `failure_generation` is modelled by its effect,
`ev_notify_worker_change`: the transfers that watch the worker abort. Which donors
refuse, which of them the matching prefers and which waves are due for a drain is
left open. `born` and `data` of a piece and `beganAt` are history: the timeline
and the width of the wave that the piece is really from.

`DonorRegistry`: a slot is a node or a cohort; `waves[s]` is what the wave of a slot
has reserved, `streams` the stragglers and parity streams that outlive it, `resident`
the pieces that stay in DRAM. `Matched` has the four kinds of matching. Each of the loops
in the code goes over the donors in an order of its own and takes what they have room for
until the wave has enough; so a wave takes the first `n` of the pieces that the donors
offer (`Offers`, `Taken`), and a matching is the order of these: donor by donor, the
lightest first, those of disjoint racks first or as probed, or job by job. `OnBoard` and
`OneSlot` have the bookings with their refusals and partial grants, `TrueUp` the correction
when pieces come out larger than estimated. Sums are counted unit by unit (`Total`). Ends
of waves are actions for each tier and outcome, failures, relocation and arrival actions
of a slot. Bytes are whole numbers, in a unit in which a piece has at least one.

`Capacity`: a tick brings everything one step nearer, and what happens in one instant
happens in any order. `delay[f]` is when a live flow finishes at its present rate;
a solve of its component (`Touch`) leaves any delay, which stands for any rates.
`pumps` are the timers that cannot be cancelled, `wake` the one awaited. `hit` is a
ghost: transfers that lost a worker before enough of their flows had landed.

`CohortRuntime`: `pc` is where the process of the job is, `flights` are checkpoints on
their way with what they will be, `copies[c][t]` the newest iteration in a tier of a
cohort. An event destroys what it destroys at once and is noted (`dark`, `late`,
`chain`, `preempt`); `Boundary` looks at the notes in the order of the code and goes
to the recovery, which rolls back by `Plan` and `Discard`; `goal` is the iteration that the
recovery of one cohort is going to restore, chosen before its yield. `executed` is history: with
`it`, `lost` and `restarts` it makes the books. `sources` says which failures a
behaviour has, since each pair of them is one interaction.

`TraceReplay`: the same job as one counter with a clock: `IterationBoundary`, `Landing` and
`TraceEventNow`, for the events of the normalised trace at their times. An event is an
instant with the raw events, its targets, that hit the job in it; `delivered` are those that
have struck, `outage` is the pending restart (`_trace_chain` in the code), `report` the
snapshot at the window. `Pass` lets time go on when nothing is due.

`InJobReplicas`: `copies` is what is recorded, `real` what is on nodes that have neither
failed nor gone dark; a flight ends when a worker it watches fails, and a wave that
lands is recorded whole.

`ScenarioArm`: a job is its state and its progress; a flush is `persist`, which may
start a `drain` or a `push`. A policy is a function of the jobs that run, so `enacted`
holds the composition that was solved for. `Cap` censors, `Await` re-reads the list of
flushes.

`LargeScale`, `LegacyTraining`: processes that request resources and hold them from one
`yield` to the next, as in `WorkerResources`; who gets what follows from the order of
the requests. `TrainingBenchmark`: each rank's program position, the number of the
collective it is in, the microbatch it works on, and the threads that persist its
checkpoints; an upload may fail, and then the peers time out.

In several modules parameters of the configuration (`nonblocking`, `setting`,
`prioritized`, `sources`; `placement`, `backstop`, `available`) are variables that never
change, so that one run covers several settings and a property can depend on the setting.

## Runs

A run of small machines has a variable `machine` that names which of them a behaviour is
about; the others stand still in one initial state. They share a run because each is
small, not because they interact: where two components do interact, one module has both.

| Run | Instance | States | What it shows |
| --- | --- | --- | --- |
| `tiered_paired` | `TieredCheckpoint`: one pair, SSD, backpressure, 2 iterations, each rank fails once. `EventKernel`: 2 processes of 3 turns, 2 further events, three sets of calls | 1.8 million | Durability, completeness and resumption through failures of either rank at any point of the other's checkpoint or recovery; wakeups, conditions and order of callbacks |
| `training_loops` | `FailureController`: 2 workers, 2 signals each, delays 1, 2, 3. `TrainingBenchmark`: 3 ranks, both modes and both kinds of checkpoints, 1 failing upload. `LegacyTraining`: 1, 2 and 3 ranks, 4 iterations, 2 failures. `LargeScale`: 4 pairs of jobs on one permit, 1 failure | 212 thousand | Safety, liveness and refinement of the controller; the loops agree, complete their checkpoints in order, and end |
| `arm` | `ScenarioArm`: 2 jobs, all arrival modes, evictions, 3 arms, cap. `InJobReplicas`: 6 baselines of 2 cohorts, 3 iterations, 2 events. `TieredCheckpoint`: 2 ranks without partners, synchronous, rank 0 fails twice | 550 thousand | The policy in force fits, records are real, arms and jobs end; a second failure during recovery keeps to `Outage` |
| `cohort` | `CohortRuntime`: cohorts of 1 and 2 nodes, racks of 2, 3 iterations, 2 events, 8 combinations of sources and policies. `Capacity`: 3 transfers of 5 flows in a chain of shared links, 1 failure. `TraceReplay`: every trace of up to 3 events at 5 times | 1.47 million | Members restart together at the newest common iteration, nothing of an abandoned timeline is left, losses are booked once; transfers end when due; failures of a trace are counted once |
| `crossjob` | `CrossJob`: 2 iterations of 2 pieces, 3 donors, 2 failures of anyone; disk with drain and two donors, disk with parity and cutoff, DRAM without drain, DRAM with drain and one donor. `DonorRegistry`: 3 jobs with 5 slots, one a cohort, 7 kinds of matching, 3 events | 404 thousand up to symmetry | What recovery takes for a checkpoint is one, rollback is complete; buffers, slots and bytes are exact, stripes are spread |
| `resources` | `WorkerResources`: one pair, one transfer, both capture modes, 2 failures. `ResourceQueues`: 7 requests, 3 priorities, capacity 2, both kinds | 499 thousand up to symmetry | Exact queues, no deadlock but through the default capture, recovery served first; work conservation and order of service |
| `resources_complete` | one pair, one all-reduce, `nonblocking_capture`, 1 failure, fair | 82 thousand | Everything completes |
| `object_store` | 2 replicas of a shard with overlapping checkpoints; 2 shards, synchronous and backpressure; 2 failures, fair | 60 thousand | What the store holds is right, what is lost is reported, everything completes |
| `resources_deadlock` | default capture, 1 failure, fair | violation | A failed worker may stay down |
| `crossjob_stitch` | placement in DRAM, 2 donors, 2 failures | violation | Half a shard passes for a checkpoint in L3 |
| `large_scale_restored` | an aggregate and a chunked job | violation | A checkpoint that is not complete is restored |
| `injob_dark` | placement `injob_ssd`, 2 cohorts, racks | violation | A replica on a dark node stays on record |

Why the bounds are enough to be worth running. A pair is the unit of the tiered
strategy: no rank reads a tier of any other than its partner, so two ranks show
every interaction, and two iterations give copies of three ages (initial, older,
newer). One failure per rank lets either fail, and fail back, between any two
steps of the other; a second one is needed only to overtake a recovery, which the
unpaired ranks of `arm`, the controller, `resources` and `object_store` have. For
`CrossJob` two pieces are the least that can be incomplete, a third donor lets two
waves share some donors but not all, two iterations put a newer piece over an older
one, and two failures let a donor be lost before or after the owner, or the owner fail
again while a wave of either timeline is in flight; one owner holds its flush lock
during a wave, so it never needs a third buffer of a donor. In `DonorRegistry` five
slots let two waves compete for the last one, the cohort spans two racks, and three
events are two waves and a failure, or one of each. In `CohortRuntime` the first rack
has all of one cohort and half of the other, which are the cases that the rack code
tells apart; three iterations let two cohorts hold copies of different ages and a rollback
fall below both; two events are a failure during the recovery of another. The transfers of
`Capacity` are coupled through a third, which is the least that a component search can
miss. Three raw events of a trace give two of one instant and a third during the recovery.
A stage in the middle of the pipeline needs three ranks. Two turns after its start let
a process of the kernel give up one wait and be asked for another, which is what a
stale callback needs. Seven requests fill a heap of five, enough for one whose list
is not sorted.

### Fairness

The event loop runs as long as a callback is scheduled, and a `Timeout` is
scheduled for a finite time; so a process that can go on does, in the end.

- `FairSpec` of `FailureController`: the clock ticks, `monitor` samples, and each
  segment of `_recover` is taken (weak fairness); signals are bounded, and an
  undisturbed `recover()` is assumed to return, which the resource models discharge.
- `WorkerResources` and `ObjectStoreCheckpoint`: strong fairness for the steps of
  each process. A process that has been granted something resumes before the
  clock moves, hence timed work is enabled only between two instants
  (`InstantOver`). Other processes end and begin instants again and again, which
  disables timed work for a moment but never puts it off for ever, since its own
  time is finite.
- `training_loops`, `arm`: weak fairness of the clock, of `monitor` and of `_recover` for
  the controller; of some step for the benchmark (a blocking call returns when its peer
  is there, or times out), for the legacy nodes and for the large-scale jobs, all of which
  only go forward; of each job, each flush and the cap for an arm (`LegacyTraining`,
  `LargeScale` and `ScenarioArm` state the same for themselves); of the job for the
  baselines. Nothing is assumed of failures, evictions and other events but their bound.
- No fairness and no liveness in `TieredCheckpoint`, where grants are abstracted,
  nor in `CrossJob`, `DonorRegistry`, `Capacity`, `CohortRuntime` and `TraceReplay`, nor in
  `EventKernel` and `ResourceQueues`, where what processes do is open. Symmetry is used in
  `crossjob`, `crossjob_stitch` and `resources` only, which check no liveness.

`CHECK_DEADLOCK FALSE` stands where the system may really stop: a job, an arm or a
loop that has ended, transfers that have all ended, and, with the default capture, the
pair that deadlocks.

### Disagreements with the code

- `resources_deadlock`: by default a capture holds its GPU while it waits for the
  CPU, and `recover()` asks for CPU and GPU at once, keeping the first it gets. A
  capture that is granted the GPU after its rank has failed waits for the CPU that
  the recovery has; the recovery waits for the GPU. The rank never comes back.
  `NoDeadlock` in `resources` shows that all circles go through such a capture.
- `crossjob_stitch`: the chain of a wave in DRAM drains the pieces that have been
  demoted and are still there, and `_drain_wave_to_l3` records how many it was given
  as the number of pieces of the checkpoint. With a donor lost in between, one of
  two pieces is recorded as one of one, and `recover()` restores from it. Where
  pieces go to the donors' disks, the drain is given all of them, and
  `RestorableIsWhole` covers the stitch.

- `large_scale_restored`: `_record_failure` restores the iteration that the counter
  implies (`current_iteration - current_iteration % checkpoint_every`), whether that
  checkpoint is complete, on its way or not yet begun, and reads the SSD of rank `^ 1` even
  if that rank lost its own. `README.md:229`: "Recovery selects the newest completed surviving
  checkpoint".
- `injob_dark`: between a rack event and the next boundary a wave of placement
  `injob_ssd` can land on a node that is dark. `_rack_failure` re-drops such late arrivals
  from `copies` but not from `peer_copies`, where these replicas are, and recovery takes one of
  a node that was replaced. `run_scenario.py:1360-1361`, `crossjob.py:1945-1946` and
  `tests/test_rack.py:14` say that it goes dark with its rack. The baselines, whose
  replicas are in `copies`, are right (`CopiesExact` in `arm`).

Seen in the models as well, without a run of their own:

- The chain of a wave in DRAM reads `checkpoint_epoch` when it schedules the drain
  (`crossjob.py:2504`). If that is after a failure of the owner and before its rollback, the
  drain passes for one of the new timeline and registers its pieces in L3 after the
  rollback has discarded that iteration; `NothingAbandoned` leaves L3 out for this
  placement. `tests/test_checkpoint_lineage.py:3-5` says that no late write from the
  abandoned timeline may be considered by recovery.
- `_single_node_failure` resumes at iteration 0 and discards every checkpoint when
  `recover()` returns False, which it does when a donor fails during a stitched
  or parity fetch, although other copies may be left (`run_scenario.py:1142-1159`). And it
  rolls the whole job back to the newest checkpoint of the failed cohort alone, which the
  other cohorts need not have.
- A trace event together with another class of failure books the rolled-back work twice, which
  the docstring at `run_scenario.py:1181-1183` excludes; one that arrives during the recovery
  from an eviction or a rack event ends in a `RuntimeError`. `LossBookedOnce` is stated for
  traces alone and for the other failures among themselves.
- A milder trace event during a recovery, or one within the detection time, moves its end
  forward, not back (`run_scenario.py:1204-1215`). `restore_by_class` documents classes
  (`run_scenario.py:298-300`) that `normalize_failure_trace` rejects (`:410-413`).
- A job that is censored at the cap trains on while the driver waits for drains, and
  `run()` overwrites its `end_time` (`run_scenario.py:2816`).
- An arm without a policy whose degree is 0 keeps `crossjob` with `donor_drain`, the silently
  dead L3 that `run_scenario.py:2517-2519` rules out for arms with a policy.
- A re-solved policy overwrites the width of jobs whose placement has no stripes.
- The group policy is set (`run_crossjob.py:162-168`) but `reserve` and `reserve_shards`
  (`crossjob.py:499-533`, `:659-691`) never read it; only `_valid_donors` does, which is all that
  `tests/test_group_policy.py:42` looks at.
- Just-in-time checkpoints: the record of a drained copy is replaced when an older one
  is drained later.
- Overlapping checkpoints of a rank share `active_checkpoint_gb`; the first to return
  resets it, and a failure then reports nothing lost while a later shard is wiped
  from DRAM. `LossReported`, a part of `StoreExact`, is stated for modes without overlap.
- A partial grant raises the bytes reserved at its donors without asking for room
  (`adjust_dram_gb`), so `dram_host_gb` bounds what is reserved, not what is booked later.
  `LedgerExact` accounts for the bytes and bounds the slots only.
- `main.py` checks at its end that the last checkpoint is of the last iteration, which needs
  `CHECKPOINT_EVERY` to divide `TOTAL_ITERATIONS`; `LegacyAssumption` says so.
- `PriorityResource.release()` of a waiting request removes it from the heap's list
  without restoring the heap. No process does that today, and `ResourceQueues` does not.

## Proofs

Every theorem holds for any values of the constants that the module's assumption allows:
any number of workers, cohorts, donors and transfers, any signals, delays, iterations,
modes and policies. TLC evaluates each assumption in the run of the module
(`ControllerAssumption`, `LargeAssumption` and `LegacyAssumption` in `training_loops`, `TieredAssumption` in `tiered_paired` and
`arm`, `ArmAssumption` and `ReplicaAssumption` in `arm`, `CohortAssumption`,
`CapacityAssumption` and `ReplayAssumption` in `cohort`,
`CrossJobAssumption` and `RegistryAssumption` in `crossjob`, and so on), and has checked every inductive invariant below on the instance of
that run before it was proved. Each module ends with its invariant (`Inductive`, a
conjunction of named parts; `BenchmarkInductive`, `LargeInductive`, `LegacyInductive`,
`ArmInductive`, `ReplicaInductive`, `ReplayInductive` and `RegistryInductive` are in the
proof modules); each proof module has one lemma for each action that the
action keeps it, and the theorems follow.

`TrainingLoopsProofs`, for `FailureController`: the invariant is `TypeOK /\ OneRecoveryPerOutage /\
DelayCovers`. `NeverEarlyInService` alone is not inductive, because it says
nothing of a worker that is failed: `DelayCovers` adds that the delay being waited
for covers all that is owed, and that nothing is owed once the restore begins.
From it follow `NeverEarly`, `OneRecovery`, `AcceptedIsCurrent` and
`HighestSeverity`, and that every step is a step of `Outage` or invisible to it
(`ImplementsOutageCorrect`).

`TrainingLoopsProofs`, for `TrainingBenchmark`: no rank sees where another one is, so the
invariant says it with numbers. `InStep`: how many collectives a rank has entered follows
from its place in its own program (`Through`), and its last one from that number
(`Number`), which tells two collectives apart; this gives the first half of `PeersAgree`.
`Gathered`: nobody is through with a collective that someone has not entered, and of the
ranks that failed one did so before the final barrier. So when a rank is done all have
entered the final barrier, none failed, and with `Kept` (each checkpoint that is due is
complete, with a thread or in error, and none is with a thread or in error behind the
drain) the trace is whole. `Abreast`: two neighbouring stages have ended as many
microbatches with one another, counted over all iterations, and the first waits for a
gradient exactly while the second works on it; so the two ends of a transfer are in the
same microbatch.

`TrainingLoopsProofs`, for `LargeScale`: `Started` says that the checkpoints that have been
started are those due in the iterations that have ended, `QueuesHold` and `StoreHolds` who
is in which queue. `FartherAlong`, a checkpoint is as far as any later one, gives
`CompletedInOrder`, and is kept because two checkpoints of a job never trade places: where
they wait for the same CPU, or for a permit, they do so in their order (`InLine`), the
tiers keep the CPU to the end, and a permit is acted on in the order of the requests however
many there are. `Behind` is why a capture is of its own iteration: training has asked for
the GPU before the process of the checkpoint does, but asks for it again, to go on after the
forward pass, behind it.

`TrainingLoopsProofs`, for `LegacyTraining`: `RanksInStep` says that the ranks have passed
the same number of all-reduces (`Passed`), `PipesFollow` that the pipelines are as far as rank 0,
`SlotHeld` and `InTurns` that the slot has one holder at a time, in order, until its
upload has ended. `CpuHeld` orders an upload in progress before a failure that queues for the
CPU behind it. So a flush that goes ahead finds nothing held by anybody: nothing is being
staged while rank 0 fails, an upload would be ahead of it, and what frees is left out by its
guard; this is what makes `MemoryExact` inductive. What is loaded is recent because at most
one pipeline is behind the present one.

`TieredCheckpointProofs`: `Inductive` has eight parts. What a checkpoint in a later
stage relies on (`StagesBacked`) is stated with `Valid`, which becomes true again
when a failed rank is back; `Undisturbed` speaks of generations only and cannot,
so `StagesKept` is the form that is inductive. `Captured` (a captured generation
is never ahead) lets a step that changes a generation falsify it for good.
`Ordered` (a checkpoint is no newer than its launch) makes every registered copy
newer than those it replaces; with it, completion gives `CompleteEverywhere` and
`DurableUntilWiped`. `RecoveryKept` carries what `recover()` chose from the choice
to the end of the fetch, unless a signal overtook it, and so gives
`InServiceHoldsCopy` when the rank is accepted. `ResumesFromDurable` and
`CompleteEverywhere` are proved as action properties under `Inductive`, and the
refinement of `Outage` as for the controller. `TrainingWaits` is kept together with
`Cadence` (when a checkpoint is launched) and `Progressed` (what was completed was launched).

`TieredCheckpointProofs`, for `EventKernel`: `KernelInductive` follows every callback from
where it is asked for to where it runs. `Scheduled` and `Held` say what one on the agenda,
or with an event, is: a wakeup with the present token is for the event yielded last, and
that event has been triggered once the wakeup is on the agenda, so `ResumedByItsEvent`
follows. `Sole` is the inductive form of `OneWakeup`: one place, on the agenda or with one
event, holds a callback that resumes the process, and none does while it has its turn
(`Nothing`). It is kept because `Trigger` moves what an event holds to the agenda as it is
(`TriggerMoves`), and because `Yield` and `Interrupt` take a new token, of which no callback
exists yet. It makes an exception for a process interrupted before it started, which has two
callbacks: the first ends it, and the other one is stale (`Unstarted`). `Waits` says that a
pending condition has seen each member, or its check is on the agenda, or with the member,
but not all of them, and no failure; `Decided` that one that was triggered was so by its
members. What `_schedule` does to the order (`StaysInOrder`) and to the calls (`CallsAdded`)
is stated for any batch of callbacks. The sizes of queues, delays and turns do not matter.

`WorkerResourcesProofs`: `NoDeadlock` speaks of a chain of processes of any length. The
proof ranks the processes that wait while they hold something (`Class`: a checkpoint that
waits for the slot of its peer is the lowest, then a recovery that has not yet got its
CPU, a transfer that waits for its CPUs, a recovery that has its CPU, and what waits for
GPUs and links): whoever one of them waits for is of a higher class or does not wait.
Within a class `SameOrder` makes transfers and collectives queue in one order
everywhere, so that the foremost of a set of them waits for nobody in it. A
default capture waits for the CPU with its GPU held, has no class, and is what the
property excludes. `SecuredIsHeld` says what a process has been granted by where it
is, `ByPriority` and `RecoveryIsLast` how the queues of a CPU and of a failed worker's GPU
are ordered; from these comes `RecoveryServedFirst`. Every step releases all that the
process holds or keeps it, and one lemma about such a move serves all of them.

`ObjectStoreProofs`: `StagedUntilStale` is the heart. A call that is past its capture has
its shard in DRAM as long as its generation is current, and a failure makes it an old one
for good, even if the worker is back before the call looks. With it an upload registers
what was captured (`UploadsWhatWasCaptured`); `ChosenIsNewest` says that nothing
supersedes what a failed writer has chosen, since all its own calls are stale and nobody
else uploads its shard; `LaunchedInOrder` and `OneAtATime` relate calls to the mode, and
give `NewestUploadKept`, `GroupComplete` and `LossReported`.

`CohortRuntimeProofs`, for `Capacity`: `Awaited` says that the timer that is awaited is no later than any
finish; timers that are early are harmless, and so `OnTime` holds however often flows are
re-solved. `GroupsExact` ties the events of a group to the flows it has left, `HitKnown`
what a transfer has been told to whether it was hit, for every place of its process. The
proof uses nothing of `Component` but that it is a set: no result of the component search
can break these properties, only what is done with the flows that have landed. A cutoff
transfer of one flow would be done before it starts, and `CapacityAssumption` excludes it:
such a transfer has data and parity (`crossjob.py:1779-1822`).

`CohortRuntimeProofs`, for `CohortRuntime`: `PresentOnly` says that copies, flights and backstops belong to the
present timeline at every place of the job's process, and that nothing is in flight
whenever the process is about to roll back; `DownIsRecovered` and `OfferedOrDark` that what
is down, or not offered to others, is what is being recovered. From these come
`NoFutureCheckpoint`, `DonorsMatchNodes` and `RestartsAtNewestCommon`, the last with
`PlanIsNewest`: the fixed point that the job computes is the newest iteration that all
members can restore. `LossBookedOnce` is proved under `TracesAlone`, which the settings of
`cohort` satisfy: a trace with another class of failure books work twice (see above).

`CohortRuntimeProofs`, for `TraceReplay`: `Delivery` says that what was due before this instant has been
delivered, and nothing of a later one, `CountedOnce` that each instant that has struck the job is a restart, a
reset of the one that was pending, or the start of the one that is pending, and gives
`FailuresCounted`. The window adds up because the books do at every moment: `BooksInTime`
says that the time up to the present iteration, or up to the kill while a recovery is
pending, is that of the iterations that are useful or lost and of the recoveries that are
over, but for at most one cut-off iteration for each kill. The snapshot freezes it.

`CrossJobProofs`: a history of epochs (`born`, `beganAt`) tells timelines apart.
`EpochsBegin`, `InOrder` and `WaveMoves` say that what waits or moves in the current epoch
is later than all that was flushed, and that what moves from an earlier one aborts.
`TrackedOnTime` and `OneWave` are about every piece a donor holds, covers or may still get:
it belongs to the present timeline, and two pieces of one wave have different indices
exactly if they are on different donors, so that as many pieces as the wave had are all
of them (`RestorableIsWhole`). `Placements` and `StoreOnTime` say where pieces can be and
what drains to the store. With them `NothingAbandoned` and `FreshFlushStarts` follow;
`RecordsExact` (an old file is kept apart only under a newer piece in DRAM, and the DRAM
ledger of a donor counts exactly the buffers that hold a piece or that the wave in flight
will fill) is a part of the invariant itself.

`CrossJobProofs`, for `DonorRegistry`: whatever the matching, nobody is asked for more than
it has room for (`MatchFits`), because each takes some of the pieces on offer and a donor
offers no more than its room. `LedgerExact` is inductive with two facts: only a slot that
flushes has a wave (`WavesFlush`), and the tier that a setting does not use is empty
(`OneTier`). It also shows that the `max(0, ...)` of `release`, `release_dram` and
`adjust_dram_gb` never cuts anything off: what is given back is a term of a sum
(`WavesChange`, `HeldChange`, `OneStreamMore`), and the ledger is that sum. When pieces land
in DRAM their reservation passes from the wave to `resident`, and that of the pieces they
supersede is returned, so each donor is charged once.

`StripeIsSpread` follows from the order in which a node's pieces are taken, without
enumerating it. Loads, and places in the order of registration where loads are equal, make
`Lighter` a linear order (`LighterOrder`; a slot registers once, `setdefault`, which
`RegistryAssumption` says), so every set of donors has a lightest, and the loop of
`_reserve_rack_aa` has one outcome (`RackDisjointIs`: the longest prefix on which it has
one is everything). The donors it chooses come before all others (`RackOrder`), so a wave
without a flag takes only them, and a flagged one takes all of them and more. `MostApart` says that no other choice has more: each donor of
a disjoint set is mapped to a chosen one, itself or the lighter one of its rack, and no two
to the same, which is where one rack for each donor is needed. For `spread_jobs`, the first
round has one donor of every job and either contains what is taken or is contained in it
(`FirstRound`), so the jobs are as many as the pieces, or are all. The only fact about the
state that this adds to `RegistryInductive` is that racks are finite sets (`RacksKnown`).

`ScenarioArmProofs`: the manifests of the four arrival modes are sequences of classes that
are numbered as they are read. `OccurrencesBefore` counts the arrivals of a class before a
position and `NumberedFits` concludes, under `ArmAssumption` (what `classes.count` checks,
`run_scenario.py:1899-1903`, `1985-1989`), that every arrival is a job of its class. The
policy follows: only arrivals and ends change the jobs that run, both re-solve with the
change in, an arrival of a job of the start changes nothing, and the cap leaves none.

`ScenarioArmProofs`, for `InJobReplicas`: the two halves of `CopiesExact` need each other.
`OnRecord` says that what exists is what is recorded on nodes that are not dark, and that
all that is recorded on dark ones is what the restart is going to drop. It is kept when copies
land there because those are late, and are of the kind in `Redropped`, which needs `OwnersInService`: the flights of a cohort end with its node, so what lands on a
dark node is a copy of another cohort, and with every strategy but one in memory. That one
is `injob_ssd` with racks, `WritesToDarkDisks`; the theorem excludes it and `injob_dark`
shows it. `FailedRecover` says that nothing is in flight while the job recovers, and that
what is down recovers.

`DataLemmas`: the library's induction theorems take operators as parameters, which
these provers cannot instantiate; where an argument needs induction on a number, it is by
a least counterexample (`<` is well founded on the naturals, `MinOfNat`).

Only model-checked: liveness (`LoopsEnd`, `EverythingCompletes`, `ArmEnds`, ...), the
fairness part of `ImplementsOutage` for the controller, and everything that needs ENABLED;
`QueuesExact` of `ResourceQueues`, whose recursive operators the provers cannot see
through.

## Plan

Every module of the first plan is there, the modules that carry the system's core are
proved, and every safety property that the provers can reach is a theorem. What is left is
modelling: synchronous persistence of cross-job waves, and the amounts of work in
`advance_work`.

## Not modelled

Reports and figures and the trace validator read files and have no state of their own; of the
hardware tooling only the benchmark is a concurrent program. Configuration and parallelism
are computed once, before anything runs; what they decide is a constant of the modules. The
policy solvers optimise over reals. `checkpointing/base.py` and `simulation/progress.py` turn
work into time with changing slowdowns: arithmetic on reals, whose two outcomes, done or
interrupted, are steps of the modules that call it. In the cohort runtime the slowdown of
the all-reduce and prices are left out, in the cross-job strategy synchronous persistence and
the legacy choice of donors, in the tiered strategy the pacing of chunks. `Container` of the
kernel is modelled by the memory levels of `LegacyTraining`, its only user. Durations, sizes,
prices and log records are abstracted wherever no property is about them. `PROJECT.json`
lists every component with its status.
