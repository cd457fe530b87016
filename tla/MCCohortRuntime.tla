--------------------------- MODULE MCCohortRuntime ---------------------------
(***************************************************************************)
(* CohortRuntime for TLC and, each in behaviours of its own, the replay of *)
(* a failure trace to the end of its window (TraceReplay) and the registry *)
(* of the links that its transfers share (Capacity).  "machine" names what *)
(* runs.                                                                   *)
(***************************************************************************)
EXTENDS CohortRuntime, Capacity, TraceReplay, TLC

\* Two cohorts of one and two nodes on racks of two: the first rack holds the
\* first cohort and one half of the second.
MCRepresents == <<1, 2>>
MCCadences == {<<1, 0, 0>>, <<2, 1, 2>>}
MCSettings ==
  [sources : {{"trace"}, {"failure", "rack"}, {"failure", "hosting"}}, cadence : {<<1, 0, 0>>}]
    \cup
  [sources : {{"trace"}, {"failure", "churn"}, {"preemption", "rack"}, {"rack", "hosting"},
              {"failure", "jit"}}, cadence : {<<2, 1, 2>>}]

CONSTANTS parity, stripe, single,   \* transfers
          p1, p2, s1, s2, x1,       \* their flows
          w1, w2                    \* workers

VARIABLE machine

allVars == <<machine, vars, capacityVars, replayVars>>

\* A parity wave with a cutoff, a striped transfer and a transfer of one stream,
\* coupled in a chain of shared resources.
MCFlowsOf == (parity :> {p1, p2}) @@ (stripe :> {s1, s2}) @@ (single :> {x1})
MCUses == (p1 :> {"out1", "in2"}) @@ (p2 :> {"out1", "in3"}) @@ (s1 :> {"out2", "in3"})
          @@ (s2 :> {"out2", "in4"}) @@ (x1 :> {"in4"})
MCWatched == (parity :> {w1}) @@ (stripe :> {w1, w2}) @@ (single :> {w2})

MCTransfer == {parity, stripe, single}
MCFlow == {p1, p2, s1, s2, x1}
MCWorker == {w1, w2}
MCCutoff == {parity}

\* Every trace of up to three raw events.
Raw == [t : {2, 3, 5, 8, 11}, job : {"A", "B"}, type : {"process_kill", "node_loss"}]
InOrder(raw) == \A i \in 2..Len(raw) : raw[i - 1].t <= raw[i].t
RawTraces == UNION {{raw \in [1..n -> Raw] : InOrder(raw)} : n \in 1..3}
Idle == <<[t |-> 2, job |-> "A", type |-> "node_loss"]>>

MCRestoreOf == [process_kill |-> 1, node_loss |-> 3]

\* What LossCorrect supposes of the settings.
ASSUME TracesAlone

-----------------------------------------------------------------------------
InJob == machine = "job"
InRegistry == machine = "registry"
InReplay == machine = "replay"
JobOnly == UNCHANGED <<machine, capacityVars, replayVars>>
RegistryOnly == UNCHANGED <<machine, vars, replayVars>>
ReplayOnly == UNCHANGED <<machine, vars, capacityVars>>

\* The machines that do not run are in one of their initial states.
MCInit ==
  /\ ReplayInit
  /\ machine \in {"job", "registry", "replay"}
  /\ ~InReplay => trace = Idle
  /\ Init /\ (~InJob => sources = {"failure", "rack"})
  /\ CapacityInit

MCNext ==
  \/ InJob /\ Next /\ JobOnly
  \/ InRegistry /\ Pump /\ RegistryOnly
  \/ InRegistry /\ Tick /\ RegistryOnly
  \/ \E t \in Transfer :
       \/ InRegistry /\ StartTransfer(t) /\ RegistryOnly
       \/ InRegistry /\ Settle(t) /\ RegistryOnly
       \/ InRegistry /\ Finish(t) /\ RegistryOnly
       \/ InRegistry /\ FinishCutoff(t) /\ RegistryOnly
       \/ InRegistry /\ FinishStraggler(t) /\ RegistryOnly
  \/ \E w \in Worker : InRegistry /\ Fail(w) /\ RegistryOnly
  \/ InReplay /\ IterationBoundary /\ ReplayOnly
  \/ InReplay /\ Landing /\ ReplayOnly
  \/ \E event \in Events : InReplay /\ TraceEventNow(event) /\ ReplayOnly
  \/ InReplay /\ Restart /\ ReplayOnly
  \/ InReplay /\ Snapshot /\ ReplayOnly
  \/ InReplay /\ Pass /\ ReplayOnly

MCSpec == MCInit /\ [][MCNext]_allVars

=============================================================================
