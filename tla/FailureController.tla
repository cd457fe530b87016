-------------------------- MODULE FailureController --------------------------
(***************************************************************************)
(* jobs/failures.py: the process that samples failures once per simulated  *)
(* second, and one recovery process per failed worker.                     *)
(*                                                                         *)
(* Abstractions.  Time is relative: remaining[w] is failed_until minus now *)
(* (0 once it is past) and Tick lets one second pass, so restart delays    *)
(* are whole seconds.  The random draw is a choice of the batch and of the *)
(* failure types.  The recovery handler is external here: recover() takes  *)
(* any time and returns TRUE exactly when no signal arrived since it was   *)
(* called, which is what both strategies do (tiered.py:691-739).  Flushed  *)
(* byte counts and log records are left out.                               *)
(***************************************************************************)
EXTENDS Naturals, Sequences, FiniteSets, Functions

CONSTANTS
  Worker,          \* workers of the jobs with a positive failure rate
  RestartSeconds,  \* settings.*_restart_seconds, by failure type
  MaxSignals       \* bound: failure signals each worker may receive

FailureType == {"process", "node", "spot"}

ASSUME ControllerAssumption ==
  /\ IsFiniteSet(Worker)
  /\ RestartSeconds \in [FailureType -> Nat \ {0}]
  /\ MaxSignals \in [Worker -> Nat]

VARIABLES
  active,      \* workers whose job still runs (worker.active)
  failed,      \* worker.failed
  restarting,  \* worker.failure_started is not None
  type,        \* worker.failure_type ("none" for None)
  seen,        \* worker.failure_types_seen; its length is the signal count
  batch,       \* worker.failure_batch_size
  remaining,   \* seconds until worker.failed_until
  generation,  \* worker.failure_generation
  event,       \* worker.recovered_event: "none" or "pending"
  recovery,    \* the _recover process: where it waits
  called,      \* the generation its recover() was called under
  sampling,    \* TRUE when monitor() is due to sample
  owed         \* history: seconds until every signal of the outage is served

vars == <<active, failed, restarting, type, seen, batch, remaining, generation,
          event, recovery, called, sampling, owed>>

-----------------------------------------------------------------------------
\* FAILURE_SEVERITY
Severity(t) == CASE t = "process" -> 1 [] t = "node" -> 2 [] t = "spot" -> 3

Larger(a, b) == IF a > b THEN a ELSE b

\* "none" is a recovery process that is not running, "restart" one at the top
\* of its loop; the last two stand for what recover() returned.
RecoveryStep == {"none", "restart", "recover", "restored", "aborted"}

TypeOK ==
  /\ active \subseteq Worker
  /\ failed \in [Worker -> BOOLEAN]
  /\ restarting \in [Worker -> BOOLEAN]
  /\ type \in [Worker -> FailureType \cup {"none"}]
  /\ seen \in [Worker -> Seq(FailureType)]
  /\ batch \in [Worker -> 0 .. Cardinality(Worker)]
  /\ remaining \in [Worker -> Nat]
  /\ generation \in [Worker -> Nat]
  /\ event \in [Worker -> {"none", "pending"}]
  /\ recovery \in [Worker -> RecoveryStep]
  /\ called \in [Worker -> Nat]
  /\ sampling \in BOOLEAN
  /\ owed \in [Worker -> Nat]

Init ==
  /\ active = Worker
  /\ failed = [w \in Worker |-> FALSE]
  /\ restarting = [w \in Worker |-> FALSE]
  /\ type = [w \in Worker |-> "none"]
  /\ seen = [w \in Worker |-> <<>>]
  /\ batch = [w \in Worker |-> 0]
  /\ remaining = [w \in Worker |-> 0]
  /\ generation = [w \in Worker |-> 0]
  /\ event = [w \in Worker |-> "none"]
  /\ recovery = [w \in Worker |-> "none"]
  /\ called = [w \in Worker |-> 0]
  /\ sampling = FALSE
  /\ owed = [w \in Worker |-> 0]

-----------------------------------------------------------------------------
\* The branch of _apply_failure that merges a signal into an outage whose
\* restart delay is still running.
Coalesced(w) == failed[w] /\ restarting[w]

\* Mutant of RecordedType: the last signal wins.
LastSignalWins(w, t) == t

\* The failure type recorded after signal t: the most severe one.
RecordedType(w, t) ==
  IF Coalesced(w) /\ Severity(t) <= Severity(type[w]) THEN type[w] ELSE t

\* Mutant of RestartWindow: the last signal sets the delay.
LastSignalDelay(w, t) == RestartSeconds[t]

\* The seconds left after signal t: a coalesced signal can only extend them.
RestartWindow(w, t) ==
  IF Coalesced(w) THEN Larger(remaining[w], RestartSeconds[t])
                  ELSE RestartSeconds[t]

\* The sampled batch, one failure type per worker hit: _apply_failure runs
\* for each of them, with the size of the whole batch.
Sample(hit) ==
  LET size == Cardinality(DOMAIN hit)
      Update(f, New(_)) ==
        [w \in Worker |-> IF w \in DOMAIN hit THEN New(w) ELSE f[w]]
  IN
  /\ sampling
  /\ sampling' = FALSE
  /\ \A w \in DOMAIN hit : w \in active /\ generation[w] < MaxSignals[w]
  /\ generation' = Update(generation, LAMBDA w : generation[w] + 1)
  /\ failed' = Update(failed, LAMBDA w : TRUE)
  /\ restarting' = Update(restarting, LAMBDA w : TRUE)
  /\ type' = Update(type, LAMBDA w : RecordedType(w, hit[w]))
  /\ remaining' = Update(remaining, LAMBDA w : RestartWindow(w, hit[w]))
  /\ seen' = Update(seen, LAMBDA w : IF Coalesced(w) THEN Append(seen[w], hit[w])
                                                     ELSE <<hit[w]>>)
  /\ batch' = Update(batch, LAMBDA w : IF Coalesced(w) THEN Larger(batch[w], size)
                                                       ELSE size)
  /\ event' = Update(event, LAMBDA w : "pending")
  /\ recovery' = Update(recovery, LAMBDA w :
                   IF failed[w] THEN recovery[w] ELSE "restart")
  /\ owed' = Update(owed, LAMBDA w : Larger(owed[w], RestartSeconds[hit[w]]))
  /\ UNCHANGED <<active, called>>

\* _recover: the restart delay is over, or there is none to wait for.  The
\* restart is recorded and recover() is called under the current generation.
CallRecover(w) ==
  /\ recovery[w] = "restart"
  /\ restarting[w] => remaining[w] = 0
  /\ recovery' = [recovery EXCEPT ![w] = "recover"]
  /\ called' = [called EXCEPT ![w] = generation[w]]
  /\ restarting' = [restarting EXCEPT ![w] = FALSE]
  /\ type' = [type EXCEPT ![w] = "none"]
  /\ seen' = [seen EXCEPT ![w] = <<>>]
  /\ batch' = [batch EXCEPT ![w] = 0]
  /\ UNCHANGED <<active, failed, remaining, generation, event, sampling, owed>>

\* External: the strategy's recover() returns.
RecoverReturns(w) ==
  /\ recovery[w] = "recover"
  /\ recovery' = [recovery EXCEPT ![w] =
                    IF generation[w] = called[w] THEN "restored" ELSE "aborted"]
  /\ UNCHANGED <<active, failed, restarting, type, seen, batch, remaining, generation,
                 event, called, sampling, owed>>

\* Mutant of RecoveryAccepted: the value recover() returned is enough.
AcceptedUnchecked(w) == recovery[w] = "restored"

\* The test at failures.py:186-190.
RecoveryAccepted(w) ==
  /\ recovery[w] = "restored"
  /\ generation[w] = called[w]
  /\ ~restarting[w]

\* _recover resumes and accepts: the worker is healthy and its event fires.
BackInService(w) ==
  /\ RecoveryAccepted(w)
  /\ failed' = [failed EXCEPT ![w] = FALSE]
  /\ remaining' = [remaining EXCEPT ![w] = 0]
  /\ event' = [event EXCEPT ![w] = "none"]
  /\ recovery' = [recovery EXCEPT ![w] = "none"]
  /\ UNCHANGED <<active, restarting, type, seen, batch, generation, called, sampling, owed>>

\* Mutant of RecoverAgain: the process ends instead of trying again.
GiveUp(w) ==
  /\ recovery[w] \in {"restored", "aborted"}
  /\ ~RecoveryAccepted(w)
  /\ recovery' = [recovery EXCEPT ![w] = "none"]
  /\ UNCHANGED <<active, failed, restarting, type, seen, batch, remaining, generation,
                 event, called, sampling, owed>>

\* _recover resumes and does not accept: around its loop again.
RecoverAgain(w) ==
  /\ recovery[w] \in {"restored", "aborted"}
  /\ ~RecoveryAccepted(w)
  /\ recovery' = [recovery EXCEPT ![w] = "restart"]
  /\ UNCHANGED <<active, failed, restarting, type, seen, batch, remaining, generation,
                 event, called, sampling, owed>>

\* One second passes.  The event loop runs everything due now first.
Tick ==
  /\ ~sampling
  /\ \A w \in Worker :
       /\ recovery[w] \notin {"restored", "aborted"}
       /\ recovery[w] = "restart" => restarting[w] /\ remaining[w] > 0
  /\ sampling' = TRUE
  /\ remaining' = [w \in Worker |-> IF remaining[w] = 0 THEN 0 ELSE remaining[w] - 1]
  /\ owed' = [w \in Worker |-> IF owed[w] = 0 THEN 0 ELSE owed[w] - 1]
  /\ UNCHANGED <<active, failed, restarting, type, seen, batch, generation, event, recovery,
                 called>>

\* The job of w ends (runtime.py:1004): w is sampled no more, but an outage
\* already begun runs its course.
JobEnds(w) ==
  /\ w \in active
  /\ active' = active \ {w}
  /\ UNCHANGED <<failed, restarting, type, seen, batch, remaining, generation,
                 event, recovery, called, sampling, owed>>

Next ==
  \/ Tick
  \/ \E targets \in SUBSET Worker : \E hit \in [targets -> FailureType] : Sample(hit)
  \/ \E w \in Worker :
       \/ CallRecover(w) \/ RecoverReturns(w) \/ BackInService(w)
       \/ RecoverAgain(w) \/ JobEnds(w)

Spec == Init /\ [][Next]_vars

\* The event loop never stops while a timeout or a process is pending, and a
\* recover() that nothing disturbs finishes.
Fairness ==
  /\ WF_vars(Tick)
  /\ WF_vars(\E targets \in SUBSET Worker :
               \E hit \in [targets -> FailureType] : Sample(hit))
  /\ \A w \in Worker :
       WF_vars(CallRecover(w) \/ RecoverReturns(w) \/ BackInService(w) \/ RecoverAgain(w))

FairSpec == Spec /\ Fairness

-----------------------------------------------------------------------------
\* A worker is in service only when the restart delay of every signal it ever
\* received has passed in full, however the signals were coalesced, and
\* whichever of them arrived while a restart or a restore was under way.
NeverEarlyInService == \A w \in Worker : ~failed[w] => owed[w] = 0

\* There is a recovery process, and a pending event for the waiters, exactly
\* while the worker is failed: no outage is left without the process that
\* ends it, and no second process runs for one outage.
OneRecoveryPerOutage ==
  \A w \in Worker :
    /\ failed[w] <=> recovery[w] # "none"
    /\ failed[w] <=> event[w] = "pending"
    /\ restarting[w] => failed[w]

\* While a restart is being waited for, the recorded type is the most severe
\* of the signals coalesced into it (what _record_restart logs), and the
\* waiting process is not beyond the delay of any of them.
CoalescedAtHighestSeverity ==
  \A w \in Worker :
    restarting[w] =>
      /\ seen[w] # <<>>
      /\ type[w] \in Range(seen[w])
      /\ \A t \in Range(seen[w]) : Severity(t) <= Severity(type[w])
      /\ remaining[w] >= owed[w]

\* A restore that a signal overtook never puts the worker in service: when a
\* worker comes back, no signal arrived since the accepted recover() began.
AcceptedRecoveryIsCurrent ==
  [][\A w \in Worker : failed[w] /\ ~failed'[w] =>
       /\ generation'[w] = called[w]
       /\ owed[w] = 0]_vars

\* The phase of a worker's outage, and the refinement of Outage.
PhaseOf(w) ==
  CASE ~failed[w] -> "up"
    [] failed[w] /\ restarting[w] -> "restart"
    [] failed[w] /\ ~restarting[w] -> "restore"

Abstract == INSTANCE Outage WITH phase <- [w \in Worker |-> PhaseOf(w)]

\* Sampling, coalescing, restart windows and the recovery loop implement the
\* abstract outage, with its fairness.
ImplementsOutage == Abstract!Spec

-----------------------------------------------------------------------------
(***************************************************************************)
(* The inductive invariant behind the safety properties.                   *)
(***************************************************************************)

\* What is still owed is covered by the restart delay being waited for, and
\* nothing is owed when none is.
DelayCovers ==
  \A w \in Worker : IF restarting[w] THEN remaining[w] >= owed[w] ELSE owed[w] = 0

Inductive == TypeOK /\ OneRecoveryPerOutage /\ DelayCovers

\* The safety part of ImplementsOutage.
ImplementsOutageSafely == Abstract!Safe
=============================================================================
