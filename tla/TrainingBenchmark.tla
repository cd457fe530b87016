-------------------------- MODULE TrainingBenchmark --------------------------
(***************************************************************************)
(* The real PyTorch run of validation/four_node: one process per rank, in  *)
(* data parallel or in pipeline parallel mode, with synchronous or         *)
(* asynchronous checkpoints.  The ranks meet in collectives (barriers and  *)
(* all-reduces), the stages of the pipeline in blocking sends and receives *)
(* of one microbatch at a time, and an asynchronous checkpoint is          *)
(* persisted by a thread of its own that is joined at the end of the run.  *)
(*                                                                         *)
(* Abstracted: tensors, durations and the fields of the trace.  A send and *)
(* its receive complete together (the device is synchronised after each).  *)
(* A collective is numbered by the rank that enters it, as the process     *)
(* group numbers it.  The upload of a checkpoint may fail (MaxFaults times *)
(* in a behaviour); an operation that a dead peer can no longer complete   *)
(* fails with the time-out of the process group.                           *)
(***************************************************************************)
EXTENDS Naturals, FiniteSets

CONSTANTS World,          \* number of ranks
          Modes,          \* the pairs <<mode, checkpoint mode>> considered
          Warmup,         \* warm-up iterations, before the measured ones
          Iterations,     \* measured iterations
          Microbatches,   \* microbatches of an iteration of the pipeline
          CheckpointEvery,
          MaxFaults

ASSUME BenchmarkAssumption ==
  /\ World \in Nat \ {0, 1} /\ Iterations \in Nat \ {0}
  /\ Warmup \in Nat /\ Microbatches \in Nat \ {0}
  /\ CheckpointEvery \in Nat /\ MaxFaults \in Nat
  /\ Modes \subseteq {"data_parallel", "pipeline_parallel"}
                       \X {"synchronous", "asynchronous"}

VARIABLES mode,        \* the mode and the checkpoint mode of this run
          pc,          \* what each rank does next
          loop,        \* loop_index of each rank
          microbatch,  \* index of the microbatch each stage works on
          entered,     \* number of collectives each rank has entered
          operation,   \* the last operation with peers of each rank
          threads,     \* iterations whose checkpoint a thread still persists
          errors,      \* iterations whose asynchronous checkpoint failed
          complete,    \* iterations whose checkpoint is complete
          written,     \* checkpoints named by the trace each rank wrote
          faults       \* uploads that have failed

benchmarkVars == <<mode, pc, loop, microbatch, entered, operation, threads, errors,
                   complete, written, faults>>

Ranks == 0 .. World - 1
Total == Warmup + Iterations
Pipeline == mode[1] = "pipeline_parallel"
Asynchronous == mode[2] = "asynchronous"
Ended == {"done", "failed"}
Collectives == {"origin", "reduce", "iteration_barrier", "final_barrier"}

\* The iteration of a loop index, 0 or less during the warm-up.
Measured(r) == loop[r] >= Warmup
Iteration(r) == loop[r] + 1 - Warmup

\* The iterations whose checkpoint is due.
Due(i) == CheckpointEvery > 0 /\ i % CheckpointEvery = 0

Goto(r, label) == pc' = [pc EXCEPT ![r] = label]

BenchmarkInit ==
  /\ mode \in Modes
  /\ pc = [r \in Ranks |-> "origin"]
  /\ loop = [r \in Ranks |-> 0]
  /\ microbatch = [r \in Ranks |-> 0]
  /\ entered = [r \in Ranks |-> 0]
  /\ operation = [r \in Ranks |-> <<"none", 0, 0>>]
  /\ threads = [r \in Ranks |-> {}]
  /\ errors = [r \in Ranks |-> {}]
  /\ complete = [r \in Ranks |-> {}]
  /\ written = [r \in Ranks |-> {}]
  /\ faults = 0

-----------------------------------------------------------------------------
(* Meeting the other ranks.                                                *)

\* Where a rank goes when a collective is over.
After(r, label) ==
  CASE label = "origin"            -> "setup"
    [] label = "reduce"            -> "optimizer"
    [] label = "iteration_barrier" -> IF loop[r] + 1 < Total
                                        THEN "iteration" ELSE "drain"
    [] label = "final_barrier"     -> "write"

\* Rank r enters the collective at which it has arrived.
Enter(r) ==
  /\ pc[r] \in Collectives
  /\ operation[r] # <<pc[r], loop[r], entered[r]>>
  /\ entered' = [entered EXCEPT ![r] = @ + 1]
  /\ operation' = [operation EXCEPT ![r] = <<pc[r], loop[r], entered[r] + 1>>]
  /\ UNCHANGED <<mode, pc, loop, microbatch, threads, errors, complete,
                 written, faults>>

\* The collective of rank r is over: every rank has entered it.
Leave(r) ==
  /\ pc[r] \in Collectives
  /\ operation[r] = <<pc[r], loop[r], entered[r]>>
  /\ \A s \in Ranks : entered[s] >= entered[r]
  /\ Goto(r, After(r, pc[r]))
  /\ loop' = IF pc[r] = "iteration_barrier" /\ loop[r] + 1 < Total
               THEN [loop EXCEPT ![r] = @ + 1] ELSE loop
  /\ UNCHANGED <<mode, microbatch, entered, operation, threads, errors,
                 complete, written, faults>>

\* The send of stage s and the receive of stage r complete together.
Transfer(s, r, send, receive, sent, received) ==
  /\ pc[s] = send /\ pc[r] = receive
  /\ pc' = [pc EXCEPT ![s] = sent, ![r] = received]
  /\ operation' = [operation EXCEPT
       ![s] = <<send, loop[s], microbatch[s]>>,
       ![r] = <<send, loop[r], microbatch[r]>>]

-----------------------------------------------------------------------------
(* Set-up and the work of a data parallel iteration.                       *)

\* The model, the optimizer, the tensors and the memory reserve of a replica.
SetupReplica(r) ==
  /\ ~Pipeline /\ pc[r] = "setup"
  /\ Goto(r, "iteration")
  /\ UNCHANGED <<mode, loop, microbatch, entered, operation, threads, errors,
                 complete, written, faults>>

\* zero_grad, the forward and the backward pass of the replica.
ReplicaPass(r) ==
  /\ ~Pipeline /\ pc[r] = "iteration"
  /\ Goto(r, "reduce")
  /\ UNCHANGED <<mode, loop, microbatch, entered, operation, threads, errors,
                 complete, written, faults>>

\* The optimizer's step.  Rank 0 checkpoints for the replicas.
OptimizeReplica(r) ==
  /\ ~Pipeline /\ pc[r] = "optimizer"
  /\ Goto(r, IF Measured(r) /\ Due(Iteration(r)) /\ r = 0
               THEN "checkpoint" ELSE "iteration_barrier")
  /\ UNCHANGED <<mode, loop, microbatch, entered, operation, threads, errors,
                 complete, written, faults>>

-----------------------------------------------------------------------------
(* The work of a pipeline stage.                                           *)

SetupStage(r) ==
  /\ Pipeline /\ pc[r] = "setup"
  /\ Goto(r, "iteration")
  /\ UNCHANGED <<mode, loop, microbatch, entered, operation, threads, errors,
                 complete, written, faults>>

\* Mutant of NextMicrobatch: only the first stage starts an iteration at 0.
StaleIndex(r) ==
  IF pc[r] = "iteration" THEN (IF r = 0 THEN 0 ELSE microbatch[r])
                         ELSE microbatch[r] + 1

\* The index of the next microbatch of a stage.
NextMicrobatch(r) == IF pc[r] = "iteration" THEN 0 ELSE microbatch[r] + 1

\* The first stage makes its input, the others wait for an activation.
StartMicrobatch(r) ==
  /\ Pipeline /\ pc[r] \in {"iteration", "microbatch"}
  /\ microbatch' = [microbatch EXCEPT ![r] = NextMicrobatch(r)]
  /\ Goto(r, IF r = 0 THEN "forward" ELSE "receive_activation")
  /\ UNCHANGED <<mode, loop, entered, operation, threads, errors, complete,
                 written, faults>>

\* The last stage computes the loss, the others send their output on.
Forward(r) ==
  /\ pc[r] = "forward"
  /\ Goto(r, IF r < World - 1 THEN "send_activation" ELSE "backward")
  /\ UNCHANGED <<mode, loop, microbatch, entered, operation, threads, errors,
                 complete, written, faults>>

ActivationTransfer(s) ==
  /\ s + 1 \in Ranks
  /\ Transfer(s, s + 1, "send_activation", "receive_activation",
              "receive_gradient", "forward")
  /\ UNCHANGED <<mode, loop, microbatch, entered, threads, errors, complete,
                 written, faults>>

\* Mutant of AfterMicrobatch: the first stage counts one microbatch more.
OneMore(r) ==
  IF microbatch[r] + (IF r = 0 THEN 0 ELSE 1) < Microbatches THEN "microbatch"
                                                             ELSE "optimizer"

\* What follows a microbatch: the next one, or the optimizer.
AfterMicrobatch(r) ==
  IF microbatch[r] + 1 < Microbatches THEN "microbatch" ELSE "optimizer"

Backward(r) ==
  /\ pc[r] = "backward"
  /\ Goto(r, IF r > 0 THEN "send_gradient" ELSE AfterMicrobatch(r))
  /\ UNCHANGED <<mode, loop, microbatch, entered, operation, threads, errors,
                 complete, written, faults>>

GradientTransfer(s) ==
  /\ s - 1 \in Ranks
  /\ Transfer(s, s - 1, "send_gradient", "receive_gradient",
              AfterMicrobatch(s), "backward")
  /\ UNCHANGED <<mode, loop, microbatch, entered, threads, errors, complete,
                 written, faults>>

\* The optimizer's step.  Every stage checkpoints its own part.
OptimizeStage(r) ==
  /\ Pipeline /\ pc[r] = "optimizer"
  /\ Goto(r, IF Measured(r) /\ Due(Iteration(r))
               THEN "checkpoint" ELSE "iteration_barrier")
  /\ UNCHANGED <<mode, loop, microbatch, entered, operation, threads, errors,
                 complete, written, faults>>

-----------------------------------------------------------------------------
(* Checkpoints.                                                            *)

\* persist_checkpoint of rank r for iteration i: it completes, or its upload
\* fails.
Persisted(r, i) == complete' = [complete EXCEPT ![r] = @ \cup {i}]

\* The copy to DRAM.  A synchronous checkpoint is persisted before the rank
\* goes on, an asynchronous one by a thread.
Checkpoint(r) ==
  /\ pc[r] = "checkpoint"
  /\ IF Asynchronous
       THEN /\ threads' = [threads EXCEPT ![r] = @ \cup {Iteration(r)}]
            /\ Goto(r, "iteration_barrier")
            /\ UNCHANGED <<complete, faults>>
       ELSE /\ UNCHANGED threads
            /\ \/ /\ Persisted(r, Iteration(r))
                  /\ Goto(r, "iteration_barrier")
                  /\ UNCHANGED faults
               \/ /\ faults < MaxFaults
                  /\ faults' = faults + 1
                  /\ Goto(r, "failed")
                  /\ UNCHANGED complete
  /\ UNCHANGED <<mode, loop, microbatch, entered, operation, errors, written>>

\* The thread of iteration i ends: its checkpoint is complete, or the error
\* is kept for the drain.  It is not a daemon: it goes on when its rank fails.
ThreadEnds(r, i) ==
  /\ i \in threads[r]
  /\ threads' = [threads EXCEPT ![r] = @ \ {i}]
  /\ \/ Persisted(r, i) /\ UNCHANGED <<errors, faults>>
     \/ /\ faults < MaxFaults
        /\ faults' = faults + 1
        /\ errors' = [errors EXCEPT ![r] = @ \cup {i}]
        /\ UNCHANGED complete
  /\ UNCHANGED <<mode, pc, loop, microbatch, entered, operation, written>>

\* Mutant of Drained: the threads are not joined.
NotJoined(r) == TRUE

\* The end of the workload: every thread is joined, then an error of any of
\* them ends the rank.
Drained(r) == threads[r] = {}
DrainOutcome(r) == IF errors[r] # {} THEN "failed" ELSE "final_barrier"

Drain(r) ==
  /\ pc[r] = "drain" /\ Drained(r)
  /\ Goto(r, DrainOutcome(r))
  /\ UNCHANGED <<mode, loop, microbatch, entered, operation, threads, errors,
                 complete, written, faults>>

\* The trace and the summary, written behind the final barrier.
Write(r) ==
  /\ pc[r] = "write"
  /\ written' = [written EXCEPT ![r] = complete[r]]
  /\ Goto(r, "done")
  /\ UNCHANGED <<mode, loop, microbatch, entered, operation, threads, errors,
                 complete, faults>>

\* A rank fails only between its last transfer of an iteration and the next
\* collective: the operation that cannot complete is a collective, and it ends
\* with an error of the process group.
PeerLost(r) ==
  /\ \E s \in Ranks : pc[s] = "failed"
  /\ pc[r] \in Collectives
  /\ operation[r] = <<pc[r], loop[r], entered[r]>>
  /\ \E s \in Ranks : entered[s] < entered[r]

TimeOut(r) ==
  /\ PeerLost(r)
  /\ Goto(r, "failed")
  /\ UNCHANGED <<mode, loop, microbatch, entered, operation, threads, errors,
                 complete, written, faults>>

Step(r) ==
  \/ Enter(r) \/ Leave(r)
  \/ SetupReplica(r) \/ ReplicaPass(r) \/ OptimizeReplica(r)
  \/ SetupStage(r) \/ StartMicrobatch(r) \/ Forward(r) \/ Backward(r)
  \/ OptimizeStage(r)
  \/ ActivationTransfer(r) \/ GradientTransfer(r)
  \/ Checkpoint(r) \/ Drain(r) \/ Write(r) \/ TimeOut(r)
  \/ \E i \in 1 .. Iterations : ThreadEnds(r, i)

BenchmarkNext == \E r \in Ranks : Step(r)
BenchmarkSpec ==
  /\ BenchmarkInit /\ [][BenchmarkNext]_benchmarkVars
  /\ \A r \in Ranks : WF_benchmarkVars(Step(r))

-----------------------------------------------------------------------------
(* Properties.                                                             *)

\* Types of the state.
BenchmarkTypes ==
  /\ mode \in Modes
  /\ loop \in [Ranks -> 0 .. Total - 1]
  /\ microbatch \in [Ranks -> 0 .. Microbatches - 1]
  /\ entered \in [Ranks -> 0 .. 2 + 2 * Total]
  /\ \A f \in {threads, errors, complete, written} :
       f \in [Ranks -> SUBSET (1 .. Iterations)]
  /\ faults \in 0 .. MaxFaults

\* Ranks that meet are at the same point of the program, although which rank
\* checkpoints, sends or receives depends on its number: two ranks whose last
\* operation is the collective of the same number are in the same operation
\* of the same iteration, and so are the two ends of a transfer between
\* stages, in the same microbatch.
PeersAgree ==
  [][\A r, s \in Ranks :
       /\ (operation'[r][1] \in Collectives /\ operation'[s][1] \in Collectives
             /\ entered'[r] = entered'[s]) => operation'[r] = operation'[s]
       /\ (r # s /\ operation'[r] # operation[r] /\ operation'[s] # operation[s])
             => operation'[r] = operation'[s]]_benchmarkVars

\* A rank reports success only when no checkpoint of any rank failed or is
\* still being persisted, and its trace then holds each checkpoint that was
\* due: the drain comes before the final barrier, and the trace behind it.
TraceIsWhole ==
  \A r \in Ranks : pc[r] = "done" =>
    /\ \A s \in Ranks : threads[s] = {} /\ errors[s] = {} /\ pc[s] # "failed"
    /\ written[r] = {i \in 1 .. Iterations : Due(i) /\ (Pipeline \/ r = 0)}

\* Every rank ends, with success or with an error: the stages do not wait for
\* one another in a circle, and nobody waits forever for a rank that failed.
Ends == \A r \in Ranks : pc[r] \in Ended
=============================================================================
