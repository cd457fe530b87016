------------------------- MODULE MCTieredCheckpoint -------------------------
(***************************************************************************)
(* Paired TieredCheckpoint for TLC and, in behaviours of its own, the event*)
(* kernel that its processes run on: "machine" names what runs.            *)
(***************************************************************************)
EXTENDS TieredCheckpoint, EventKernel

\* Ranks 0 and 1 are partners: partner_rank(r) = r ^ 1.
MCPartner == [w \in Worker |-> 1 - w]

\* Each rank fails once, at any moment.
MCOnce == [w \in Worker |-> 1]

CONSTANTS p1, p2

VARIABLE machine

allVars == <<machine, vars, kernelVars>>

\* Two processes that wait for events, conditions and each other, and may fail or
\* interrupt each other.
MCCalls == {{"event", "interrupt", "fail"}, {"timeout", "all", "any", "interrupt"},
            {"timeout", "event", "all", "any", "fail"}}

MCProcess == {p1, p2}

InJob == machine = "job"
InKernel == machine = "kernel"
JobOnly == UNCHANGED <<machine, kernelVars>>
KernelOnly == UNCHANGED <<machine, vars>>

\* The machine that does not run is in one of its initial states.
MCInit ==
  /\ machine \in {"job", "kernel"} /\ Init /\ KernelInit
  /\ InJob => api = {"event", "interrupt", "fail"}

MCNext ==
  \/ InJob /\ EndIteration /\ JobOnly
  \/ InJob /\ Launch /\ JobOnly
  \/ InJob /\ Resume /\ JobOnly
  \/ InJob /\ Finish /\ JobOnly
  \/ \E w \in Worker :
       \/ InJob /\ FinishWork(w) /\ JobOnly
       \/ InJob /\ AcquireLock(w) /\ JobOnly
       \/ InJob /\ BeginCapture(w) /\ JobOnly
       \/ InJob /\ Granted(w) /\ JobOnly
       \/ InJob /\ CleanupEnds(w) /\ JobOnly
       \/ \E p \in Place : InJob /\ (StageCompletes(w, p) \/ StageAborts(w, p)) /\ JobOnly
       \/ \E t \in FailureType : InJob /\ Fail(w, t) /\ JobOnly
       \/ InJob /\ CallRecover(w) /\ JobOnly
       \/ InJob /\ FetchEnds(w) /\ JobOnly
       \/ InJob /\ RestoreEnds(w) /\ JobOnly
       \/ InJob /\ (BackInService(w) \/ RecoverAgain(w)) /\ JobOnly
  \/ InKernel /\ FireTimeout /\ KernelOnly
  \/ InKernel /\ CheckCondition /\ KernelOnly
  \/ InKernel /\ DropResume /\ KernelOnly
  \/ InKernel /\ InterruptUnstarted /\ KernelOnly
  \/ InKernel /\ ResumeProcess /\ KernelOnly
  \/ \E delay \in 0..1 : InKernel /\ CreateTimeout(delay) /\ KernelOnly
  \/ InKernel /\ CreateEvent /\ KernelOnly
  \/ \E e \in Created, result \in {"ok", "failed"} :
        InKernel /\ TriggerEvent(e, result) /\ KernelOnly
  \/ \E what \in {"all", "any"}, d, e \in Event :
        InKernel /\ d # e /\ CreateCondition(what, {d, e}) /\ KernelOnly
  \/ \E q \in Process : InKernel /\ Interrupt(q) /\ KernelOnly
  \/ \E e \in Event : InKernel /\ Yield(e) /\ KernelOnly
  \/ \E result \in {"ok", "failed"} : InKernel /\ EndProcess(result) /\ KernelOnly
  \/ InKernel /\ RunReturns /\ KernelOnly

MCSpec == MCInit /\ [][MCNext]_allVars

=============================================================================
